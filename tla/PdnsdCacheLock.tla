--------------------------- MODULE PdnsdCacheLock ---------------------------
(***************************************************************************)
(* The lock of pdnsd's cache (cache.c): many readers or one writer, built  *)
(* from a mutex and two condition variables.  Readers that arrive while    *)
(* too many writers wait are suspended; the writer that unlocks decides    *)
(* whether a writer or all readers go next.  The thread that serves        *)
(* pdnsd-ctl empties the cache with a timed lock it yields between hash    *)
(* buckets; the main thread, once it caught its signal, locks "softly",    *)
(* with a number of tries, and wakes nobody.                               *)
(*                                                                         *)
(* What runs between lock and unlock of lock_mutex is one step.  A thread  *)
(* asleep on a condition variable is first woken and tests its condition   *)
(* again when it has the mutex.                                            *)
(***************************************************************************)
EXTENDS Naturals, FiniteSets

CONSTANTS Threads,    \* the threads that answer queries
          Control,    \* the thread of the control socket
          MaxTries    \* SOFTLOCK_MAXTRIES

ASSUME LockAssumption == Control \notin Threads /\ MaxTries \in Nat \ {0}
                         /\ IsFiniteSet(Threads)

VARIABLES cache_r_lock, cache_w_lock,  \* readers inside; 1 if a writer is
          r_pend, rw_pend,             \* threads in lock_cache_r, in lock_cache_rw
          r_susp,                      \* 1: readers are suspended
          pc,                          \* of a thread
          main                         \* the main thread: [pc, tries]

locks == <<cache_r_lock, cache_w_lock>>
pends == <<r_pend, rw_pend, r_susp>>
vars  == <<locks, pends, pc, main>>

All == Threads \cup {Control}

Asleep == {"r_wait", "rw_wait", "timed_wait"}
Woken  == {"r_woken", "rw_woken", "timed_woken"}
OnR    == {t \in All : pc[t] = "r_wait"}                       \* r_cond
OnRW   == {t \in All : pc[t] \in {"rw_wait", "timed_wait"}}    \* rw_cond

Init ==
  /\ cache_r_lock = 0 /\ cache_w_lock = 0
  /\ r_pend = 0 /\ rw_pend = 0 /\ r_susp = 0
  /\ pc = [t \in All |-> "idle"]
  /\ main = [pc |-> "sigwait", tries |-> 0]

Decrement(n) == IF n > 0 THEN n - 1 ELSE n

SUSP_THRESH(n) == n \div 2 + 2

WakeUp(p) == CASE p = "r_wait"     -> "r_woken"
               [] p = "rw_wait"    -> "rw_woken"
               [] p = "timed_wait" -> "timed_woken"
               [] OTHER            -> p

-----------------------------------------------------------------------------
(* Readers.                                                                *)

\* One test of the loop of lock_cache_r, which also suspends the readers.
TestRead(t, pending) ==
  LET susp == IF rw_pend > SUSP_THRESH(pending) THEN 1 ELSE r_susp
  IN  IF susp = 1 \/ cache_w_lock = 1
      THEN /\ r_pend' = pending /\ r_susp' = susp
           /\ pc' = [pc EXCEPT ![t] = "r_wait"]
           /\ UNCHANGED locks
      ELSE /\ cache_r_lock' = cache_r_lock + 1
           /\ r_pend' = pending - 1
           /\ pc' = [pc EXCEPT ![t] = "reading"]
           /\ UNCHANGED <<r_susp, cache_w_lock>>

lock_cache_r(t) ==
  /\ pc[t] = "idle" /\ TestRead(t, r_pend + 1)
  /\ UNCHANGED <<rw_pend, main>>

ReadAgain(t) ==
  /\ pc[t] = "r_woken" /\ TestRead(t, r_pend)
  /\ UNCHANGED <<rw_pend, main>>

\* pthread_cond_signal: some thread asleep on rw_cond, if there is one.
SignalRW(p) ==
  IF OnRW = {} THEN pc' = p
               ELSE \E w \in OnRW : pc' = [p EXCEPT ![w] = WakeUp(@)]

\* Mutant: the last reader wakes the readers.
UnlockWakesReaders(t) ==
  /\ pc[t] = "reading"
  /\ cache_r_lock' = cache_r_lock - 1
  /\ pc' = [u \in All |-> IF u = t THEN "idle"
                          ELSE IF cache_r_lock = 1 /\ u \in OnR THEN WakeUp(pc[u])
                          ELSE pc[u]]
  /\ UNCHANGED <<cache_w_lock, pends, main>>

unlock_cache_r(t) ==
  /\ pc[t] = "reading"
  /\ cache_r_lock' = Decrement(cache_r_lock)
  /\ LET p == [pc EXCEPT ![t] = "idle"]
     IN  IF cache_r_lock = 1 THEN SignalRW(p) ELSE pc' = p
  /\ UNCHANGED <<cache_w_lock, pends, main>>

-----------------------------------------------------------------------------
(* Writers.                                                                *)

\* Mutant: readers inside are overlooked.
TestWriteAlone(t, pending, sleep) ==
  IF cache_w_lock = 1
  THEN /\ rw_pend' = pending
       /\ pc' = [pc EXCEPT ![t] = sleep]
       /\ UNCHANGED locks
  ELSE /\ cache_w_lock' = 1
       /\ rw_pend' = pending - 1
       /\ pc' = [pc EXCEPT ![t] = "writing"]
       /\ UNCHANGED cache_r_lock

\* One test of the loops of lock_cache_rw and timedlock_cache_rw.
TestWrite(t, pending, sleep) ==
  IF cache_w_lock = 1 \/ cache_r_lock > 0
  THEN /\ rw_pend' = pending
       /\ pc' = [pc EXCEPT ![t] = sleep]
       /\ UNCHANGED locks
  ELSE /\ cache_w_lock' = 1
       /\ rw_pend' = pending - 1
       /\ pc' = [pc EXCEPT ![t] = "writing"]
       /\ UNCHANGED cache_r_lock

lock_cache_rw(t) ==
  /\ pc[t] = "idle" /\ TestWrite(t, rw_pend + 1, "rw_wait")
  /\ UNCHANGED <<r_pend, r_susp, main>>

WriteAgain(t) ==
  /\ \/ pc[t] = "rw_woken"    /\ TestWrite(t, rw_pend, "rw_wait")
     \/ pc[t] = "timed_woken" /\ TestWrite(t, rw_pend, "timed_wait")
  /\ UNCHANGED <<r_pend, r_susp, main>>

\* empty_cache: the only timed lock, taken by the control thread.
timedlock_cache_rw ==
  /\ pc[Control] = "idle" /\ TestWrite(Control, rw_pend + 1, "timed_wait")
  /\ UNCHANGED <<r_pend, r_susp, main>>

\* ETIMEDOUT: goto cleanup_return, whatever the lock is now.
TimedOut ==
  /\ pc[Control] = "timed_wait"
  /\ rw_pend' = rw_pend - 1
  /\ pc' = [pc EXCEPT ![Control] = "idle"]
  /\ UNCHANGED <<locks, r_pend, r_susp, main>>

\* What unlock_cache_rw and yield_lock_cache_rw do to give the lock up: one
\* writer is woken, or every reader.
Release(p) ==
  /\ cache_w_lock' = 0 /\ r_susp' = 0
  /\ IF r_pend = 0 \/ rw_pend > SUSP_THRESH(r_pend)
     THEN SignalRW(p)
     ELSE pc' = [u \in All |-> IF u \in OnR THEN WakeUp(p[u]) ELSE p[u]]

unlock_cache_rw(t) ==
  /\ pc[t] = "writing" /\ Release([pc EXCEPT ![t] = "idle"])
  /\ UNCHANGED <<cache_r_lock, r_pend, rw_pend, main>>

\* Between two buckets of empty_cache, if any thread waits (read without the
\* mutex).  The lock is asked for again after a sleep.
yield_lock_cache_rw ==
  /\ pc[Control] = "writing" /\ (r_pend > 0 \/ rw_pend > 0)
  /\ Release([pc EXCEPT ![Control] = "yielded"])
  /\ UNCHANGED <<cache_r_lock, r_pend, rw_pend, main>>

LockBack ==
  /\ pc[Control] = "yielded" /\ TestWrite(Control, rw_pend + 1, "rw_wait")
  /\ UNCHANGED <<r_pend, r_susp, main>>

\* A wait may come back without a signal.
Spurious(t) ==
  /\ pc[t] \in Asleep
  /\ pc' = [pc EXCEPT ![t] = WakeUp(@)]
  /\ UNCHANGED <<locks, pends, main>>

-----------------------------------------------------------------------------
(* The main thread: write_disk_cache (purge under a write lock, then write *)
(* under a read lock), then destroy_cache, whose lock is never given back. *)

Step(p) == main' = [pc |-> p, tries |-> 0]

\* Mutant: the tries are not counted.
TryAgainForever(failed) == UNCHANGED main

\* A try that finds the lock taken; after SOFTLOCK_MAXTRIES of them, failure.
TryAgain(failed) ==
  main' = IF main.tries + 1 >= MaxTries
          THEN [pc |-> failed, tries |-> 0]
          ELSE [main EXCEPT !.tries = @ + 1]

Signal == main.pc = "sigwait" /\ Step("purge_lock") /\ UNCHANGED <<locks, pends, pc>>

softlock_cache_rw(from, to, failed) ==
  /\ main.pc = from
  /\ IF cache_w_lock = 1 \/ cache_r_lock > 0
     THEN TryAgain(failed) /\ UNCHANGED cache_w_lock
     ELSE Step(to) /\ cache_w_lock' = 1
  /\ UNCHANGED <<cache_r_lock, pends, pc>>

softunlock_cache_rw ==
  /\ main.pc = "purging" /\ Step("write_lock")
  /\ cache_w_lock' = 0
  /\ UNCHANGED <<cache_r_lock, pends, pc>>

softlock_cache_r ==
  /\ main.pc = "write_lock"
  /\ IF cache_w_lock = 1
     THEN TryAgain("destroy_lock") /\ UNCHANGED cache_r_lock
     ELSE Step("writing") /\ cache_r_lock' = cache_r_lock + 1
  /\ UNCHANGED <<cache_w_lock, pends, pc>>

softunlock_cache_r ==
  /\ main.pc = "writing" /\ Step("destroy_lock")
  /\ cache_r_lock' = Decrement(cache_r_lock)
  /\ UNCHANGED <<cache_w_lock, pends, pc>>

\* softlock_mutex gave up: the mutex stayed taken for all its tries.  A lock held
\* by the main thread is then not given back.
SoftMutexFails ==
  /\ \/ main.pc \in {"purge_lock", "purging", "write_lock", "writing"}
        /\ Step("destroy_lock")
     \/ main.pc = "destroy_lock" /\ Step("exit")
  /\ UNCHANGED <<locks, pends, pc>>

SoftStep ==
  \/ softlock_cache_rw("purge_lock", "purging", "destroy_lock")
  \/ softunlock_cache_rw
  \/ softlock_cache_r
  \/ softunlock_cache_r
  \/ softlock_cache_rw("destroy_lock", "destroyed", "exit")
  \/ main.pc = "destroyed" /\ Step("exit") /\ UNCHANGED <<locks, pends, pc>>

Main == SoftStep \/ SoftMutexFails

\* _exit ends every thread.
Running == main.pc # "exit"

Next ==
  \/ Signal \/ Main
  \/ /\ Running
     /\ \/ \E t \in All : \/ lock_cache_r(t) \/ ReadAgain(t) \/ unlock_cache_r(t)
                          \/ lock_cache_rw(t) \/ WriteAgain(t) \/ unlock_cache_rw(t)
                          \/ Spurious(t)
        \/ timedlock_cache_rw \/ TimedOut \/ yield_lock_cache_rw \/ LockBack

Spec == Init /\ [][Next]_vars

\* A woken thread gets the mutex, and what runs under the cache lock ends: it is
\* bounded and waits for nothing.  The main thread runs.
Fairness ==
  /\ WF_vars(SoftStep)
  /\ \A t \in All :
       WF_vars(Running /\ (\/ ReadAgain(t) \/ WriteAgain(t)
                           \/ unlock_cache_r(t) \/ unlock_cache_rw(t)))
  /\ WF_vars(Running /\ LockBack)

FairSpec == Spec /\ Fairness

-----------------------------------------------------------------------------
(* Properties.                                                             *)

Readers == {t \in All : pc[t] = "reading"}
Writers == {t \in All : pc[t] = "writing"}

\* Type correctness.
TypeOK ==
  /\ cache_r_lock \in Nat /\ cache_w_lock \in {0, 1}
  /\ r_pend \in Nat /\ rw_pend \in Nat /\ r_susp \in {0, 1}
  /\ pc \in [All -> {"idle", "reading", "writing", "yielded"} \cup Asleep \cup Woken]
  /\ main \in [pc : {"sigwait", "purge_lock", "purging", "write_lock", "writing",
                     "destroy_lock", "destroyed", "exit"}, tries : 0..(MaxTries - 1)]

MainReads  == main.pc = "writing"
MainWrites == main.pc \in {"purging", "destroyed"}

\* Whoever writes is alone, whichever of the normal, timed, yielded and soft
\* locks it took.
Exclusion ==
  /\ Cardinality(Writers) <= 1
  /\ Writers # {} => Readers = {} /\ ~ MainReads /\ ~ MainWrites
  /\ MainWrites => Readers = {}

\* The counts of pending threads are those in lock_cache_r and lock_cache_rw:
\* the policy that suspends and wakes never works with a stale count.
PendingCounted ==
  /\ r_pend  = Cardinality({t \in All : pc[t] \in {"r_wait", "r_woken"}})
  /\ rw_pend = Cardinality({t \in All : pc[t] \in {"rw_wait", "rw_woken",
                                                   "timed_wait", "timed_woken"}})

\* Suspended readers are woken by a writer's unlock, so there is a writer as long
\* as they are suspended, also when the timed writer gave up.
SuspensionEnds == r_susp = 1 => rw_pend > 0 \/ cache_w_lock = 1

\* No wakeup is lost: before the main thread exits, a thread sleeps only while the
\* lock is held or some woken thread has still to test for it.
NoLostWakeup ==
  main.pc = "sigwait" /\ cache_w_lock = 0 /\ cache_r_lock = 0
  /\ (\E t \in All : pc[t] \in Asleep)
    => \E t \in All : pc[t] \in Woken

\* Nobody waits in vain, neither suspended nor asleep, whatever the order in which
\* lock_cache_r, lock_cache_rw, the timed lock and the unlocks come.
WaitersServed == TypeOK /\ PendingCounted /\ SuspensionEnds /\ NoLostWakeup

\* The exit does not wait for a lock nobody gives back ("they will give up after a
\* certain number of bad trials").
ExitEnds == main.pc = "purge_lock" ~> ~ Running
=============================================================================
