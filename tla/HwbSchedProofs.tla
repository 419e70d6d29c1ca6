--------------------------- MODULE HwbSchedProofs ---------------------------
(***************************************************************************)
(* Proofs about HwbSched, for every number of tasks and CPUs, every        *)
(* placement of the tasks and every choice of the handlers they call: the  *)
(* handlers exclude each other although a holder of dev_lock may sleep,    *)
(* only a holder that has come to a kmalloc() can be off its CPU, and once *)
(* that CPU spins for the lock it holds, it does for ever.                 *)
(***************************************************************************)
EXTENDS HwbSched, TLAPS

\* A task has the lock.
Inside(t) == pc[t] \notin {"user", "spin"}

SchedTypeOK ==
  /\ pc \in [Tasks -> {"user", "spin", "new_taskmap", "taskmap_sleep", "new_allocation",
                      "allocation_sleep", "hold", "wait", "last", "done"}]
  /\ kind \in [Tasks -> {"alloc", "free", "own", "reset"}]
  /\ running \in [CPUs -> Tasks \cup {NoTask}]
  /\ queue \in Seq(Tasks)

Positions == 1 .. Len(queue)

\* The tasks in a handler are those in the queue of the lock, once each, and only
\* the first is inside.
Queued ==
  /\ \A i \in Positions : pc[queue[i]] # "user"
  /\ \A i, j \in Positions : queue[i] = queue[j] => i = j
  /\ \A t \in Tasks : pc[t] # "user" => \E i \in Positions : queue[i] = t
  /\ \A t \in Tasks : Inside(t) => queue[1] = t

\* Only a handler that allocates can have lost its CPU.
AfterSleep == {"new_allocation", "hold", "done"}
LosesCpu(t) ==
  /\ pc[t] \in Kmallocs \/ Asleep(t) => SleepsInside(kind[t])
  /\ pc[t] # "user" /\ ~ OnCpu(t) =>
       SleepsInside(kind[t]) /\ (Asleep(t) \/ pc[t] \in AfterSleep)

\* A CPU runs tasks that are pinned to it.
AtHome == \A c \in CPUs : running[c] # NoTask => home[running[c]] = c

SchedInv ==
  /\ SchedTypeOK
  /\ Queued
  /\ \A t \in Tasks : LosesCpu(t)
  /\ AtHome

LEMMA InitSched == Init => SchedInv
BY SchedAssumption
DEF Init, SchedInv, SchedTypeOK, Queued, Positions, LosesCpu, AtHome, Inside, Kmallocs, Asleep

-----------------------------------------------------------------------------
(***************************************************************************)
(* The lock                                                                *)
(***************************************************************************)
\* Task t comes in at the end of the queue.
LEMMA CallQueued ==
  ASSUME SchedTypeOK, Queued, NEW t \in Tasks, NEW k \in kinds[t], Call(t, k)
  PROVE  Queued'
<1> DEFINE n == Len(queue)
<1>1. /\ pc[t] = "user" /\ pc' = [pc EXCEPT ![t] = "spin"] /\ queue' = Append(queue, t)
      /\ queue \in Seq(Tasks) /\ n \in Nat
  BY DEF Call, SchedTypeOK
<1>2. /\ Len(queue') = n + 1 /\ queue'[n + 1] = t
      /\ \A i \in 1 .. n : queue'[i] = queue[i] /\ queue[i] \in Tasks
  BY <1>1
<1>3. /\ pc'[t] = "spin" /\ \A u \in Tasks \ {t} : pc'[u] = pc[u]
  BY <1>1 DEF SchedTypeOK
<1>4. \A i \in 1 .. n : queue[i] # t /\ pc[queue[i]] # "user"
  BY <1>1 DEF Queued, Positions
<1>5. \A i \in 1 .. n + 1 : i \in 1 .. n \/ i = n + 1
  BY <1>1
<1>6. \A i \in 1 .. n + 1 : pc'[queue'[i]] # "user"
  BY <1>2, <1>3, <1>4, <1>5
<1>7. ASSUME NEW i \in 1 .. n + 1, NEW j \in 1 .. n + 1, queue'[i] = queue'[j] PROVE i = j
  BY <1>2, <1>4, <1>5, <1>7 DEF Queued, Positions
<1>8. ASSUME NEW u \in Tasks, pc'[u] # "user" PROVE \E i \in 1 .. n + 1 : queue'[i] = u
  <2>1. CASE u = t
    BY <1>1, <1>2, <2>1
  <2>2. CASE u # t
    <3>1. PICK i \in 1 .. n : queue[i] = u
      BY <1>3, <1>8, <2>2 DEF Queued, Positions
    <3> QED
      BY <1>1, <1>2, <3>1
  <2> QED
    BY <2>1, <2>2
<1>9. ASSUME NEW u \in Tasks, Inside(u)' PROVE queue'[1] = u
  <2>1. u # t /\ Inside(u)
    BY <1>3, <1>9 DEF Inside
  <2>2. PICK i \in 1 .. n : queue[i] = u
    BY <2>1 DEF Inside, Queued, Positions
  <2>3. queue[1] = u /\ 1 \in 1 .. n
    BY <1>1, <2>1, <2>2 DEF Queued
  <2> QED
    BY <1>2, <2>3
<1> QED
  BY <1>2, <1>6, <1>7, <1>8, <1>9 DEF Queued, Positions

\* The holder goes, and nobody is inside until the next one finds itself first.
LEMMA UnlockQueued ==
  ASSUME SchedTypeOK, Queued, NEW t \in Tasks, Unlock(t)
  PROVE  Queued'
<1> DEFINE n == Len(queue)
<1>1. /\ Inside(t) /\ pc' = [pc EXCEPT ![t] = "user"] /\ queue' = Tail(queue)
      /\ queue \in Seq(Tasks) /\ n \in Nat
  BY DEF Unlock, Inside, SchedTypeOK
<1>2. queue[1] = t /\ n >= 1
  <2>1. PICK i \in 1 .. n : queue[i] = t
    BY <1>1 DEF Queued, Positions, Inside
  <2> QED
    BY <1>1, <2>1 DEF Queued
<1>3. /\ Len(queue') = n - 1
      /\ \A i \in 1 .. n - 1 : queue'[i] = queue[i + 1] /\ i + 1 \in 1 .. n
  BY <1>1, <1>2
<1>4. /\ pc'[t] = "user" /\ \A u \in Tasks \ {t} : pc'[u] = pc[u]
      /\ \A i \in 1 .. n : queue[i] \in Tasks
  BY <1>1 DEF SchedTypeOK
<1>5. ASSUME NEW i \in 1 .. n - 1
      PROVE  queue'[i] # t /\ pc[queue'[i]] # "user" /\ queue'[i] \in Tasks
  <2>1. queue'[i] = queue[i + 1] /\ i + 1 \in Positions /\ 1 \in Positions /\ i + 1 # 1
    BY <1>1, <1>2, <1>3 DEF Positions
  <2>2. queue[i + 1] # queue[1] /\ pc[queue[i + 1]] # "user"
    BY <2>1 DEF Queued
  <2> QED
    BY <1>2, <1>4, <2>1, <2>2 DEF Positions
<1>6. \A i \in 1 .. n - 1 : pc'[queue'[i]] # "user"
  BY <1>4, <1>5
<1>7. ASSUME NEW i \in 1 .. n - 1, NEW j \in 1 .. n - 1, queue'[i] = queue'[j] PROVE i = j
  <2>1. i + 1 = j + 1
    BY <1>3, <1>7 DEF Queued, Positions
  <2> QED
    BY <2>1
<1>8. ASSUME NEW u \in Tasks, pc'[u] # "user" PROVE \E i \in 1 .. n - 1 : queue'[i] = u
  <2>1. u # t /\ pc[u] # "user"
    BY <1>4, <1>8
  <2>2. PICK j \in 1 .. n : queue[j] = u
    BY <2>1 DEF Queued, Positions
  <2>3. j - 1 \in 1 .. n - 1 /\ (j - 1) + 1 = j
    BY <1>1, <1>2, <2>1, <2>2
  <2> QED
    BY <1>3, <2>2, <2>3
<1>9. \A u \in Tasks : ~ Inside(u)'
  BY <1>1, <1>2, <1>4 DEF Queued, Inside
<1> QED
  BY <1>3, <1>6, <1>7, <1>8, <1>9 DEF Queued, Positions

\* The steps in between leave the queue and move one task that is in it.
LEMMA InsideQueued ==
  ASSUME SchedTypeOK, Queued, NEW t \in Tasks, UNCHANGED queue,
         NEW p, p # "user", pc' = [pc EXCEPT ![t] = p],
         Inside(t) \/ (pc[t] = "spin" /\ Head(queue) = t)
  PROVE  Queued'
<1>1. pc[t] # "user" /\ pc'[t] = p /\ \A u \in Tasks \ {t} : pc'[u] = pc[u]
  BY DEF Inside, SchedTypeOK
<1>2. \A u \in Tasks : pc'[u] # "user" <=> pc[u] # "user"
  BY <1>1
<1>3. queue[1] = t
  <2>1. CASE Inside(t)
    BY <2>1 DEF Queued
  <2>2. CASE Head(queue) = t
    <3>1. PICK i \in Positions : queue[i] = t
      BY <1>1 DEF Queued
    <3>2. Len(queue) # 0
      BY <3>1 DEF Positions, SchedTypeOK
    <3> QED
      BY <2>2, <3>2 DEF SchedTypeOK
  <2> QED
    BY <2>1, <2>2
<1>4. \A i \in Positions : queue[i] \in Tasks
  BY DEF Positions, SchedTypeOK
<1>5. \A u \in Tasks : Inside(u)' => u = t \/ Inside(u)
  BY <1>1 DEF Inside
<1> QED
  BY <1>2, <1>3, <1>4, <1>5 DEF Queued, Positions

-----------------------------------------------------------------------------
(***************************************************************************)
(* Steps                                                                   *)
(***************************************************************************)
\* A step of a handler.
LEMMA HandlerSched ==
  ASSUME SchedInv, NEW t \in Tasks,
         HandlerStep(t) \/ (\E k \in kinds[t] : Call(t, k)) \/ Schedule(t)
  PROVE  SchedInv'
<1> USE DEF SchedInv
<1>1. home[t] \in CPUs /\ \A u \in Tasks : home[u] \in CPUs /\ u # NoTask
  BY SchedAssumption
<1>2. \* On its CPU before and after; the CPUs are not given to others.
      ASSUME UNCHANGED running, OnCpu(t),
             NEW p \in {"spin", "new_taskmap", "new_allocation", "hold", "wait", "last", "done"},
             pc' = [pc EXCEPT ![t] = p],
             \A u \in Tasks \ {t} : kind'[u] = kind[u],
             p \in Kmallocs => SleepsInside(kind'[t])
      PROVE  (\A u \in Tasks : LosesCpu(u)') /\ AtHome'
  <2>1. pc'[t] = p /\ \A u \in Tasks \ {t} : pc'[u] = pc[u]
    BY <1>2 DEF SchedTypeOK
  <2>2. LosesCpu(t)'
    BY <1>2, <2>1 DEF LosesCpu, OnCpu, Asleep
  <2>3. \A u \in Tasks \ {t} : LosesCpu(u)'
    BY <1>2, <2>1 DEF LosesCpu, OnCpu, Asleep
  <2> QED
    BY <1>2, <2>2, <2>3 DEF AtHome
<1>3. ASSUME NEW k \in kinds[t], Call(t, k) PROVE SchedInv'
  <2>1. k \in {"alloc", "free", "own", "reset"}
    BY SchedAssumption
  <2>2. SchedTypeOK'
    BY <1>3, <2>1 DEF Call, SchedTypeOK
  <2>3. /\ \A u \in Tasks \ {t} : kind'[u] = kind[u]
        /\ UNCHANGED running /\ OnCpu(t) /\ pc' = [pc EXCEPT ![t] = "spin"]
    BY <1>3 DEF Call, SchedTypeOK
  <2>4. (\A u \in Tasks : LosesCpu(u)') /\ AtHome'
    BY <1>2, <2>3 DEF Kmallocs
  <2> QED
    BY <1>3, <2>2, <2>4, CallQueued
<1>4. \* A step inside, or into, the critical section.
      ASSUME UNCHANGED <<kind, running, queue>>, OnCpu(t),
             NEW p \in {"new_taskmap", "new_allocation", "hold", "wait", "last", "done"},
             pc' = [pc EXCEPT ![t] = p], p \in Kmallocs => SleepsInside(kind[t]),
             Inside(t) \/ (pc[t] = "spin" /\ Head(queue) = t)
      PROVE  SchedInv'
  <2>1. SchedTypeOK'
    BY <1>4 DEF SchedTypeOK
  <2>2. Queued'
    BY <1>4, InsideQueued
  <2>3. (\A u \in Tasks : LosesCpu(u)') /\ AtHome'
    BY <1>2, <1>4
  <2> QED
    BY <2>1, <2>2, <2>3
<1>5. CASE Acquire(t)
  <2>1. PICK p \in FirstSteps(kind[t]) : pc' = [pc EXCEPT ![t] = p]
    BY <1>5 DEF Acquire
  <2>2. /\ p \in {"new_taskmap", "new_allocation", "hold", "done"}
        /\ p \in Kmallocs => SleepsInside(kind[t])
    BY DEF FirstSteps, Kmallocs
  <2> QED
    BY <1>4, <1>5, <2>1, <2>2 DEF Acquire
<1>6. CASE Kmalloc(t)
  <2>1. PICK p \in AfterKmalloc(pc[t]) : pc' = [pc EXCEPT ![t] = p]
    BY <1>6 DEF Kmalloc
  <2>2. p \in {"new_allocation", "hold", "done"}
    BY DEF AfterKmalloc
  <2>3. SleepsInside(kind[t]) /\ Inside(t)
    BY <1>6 DEF Kmalloc, LosesCpu, Inside, Kmallocs
  <2> QED
    BY <1>4, <1>6, <2>1, <2>2, <2>3 DEF Kmalloc
<1>7. ASSUME NEW c \in CPUs, CallCpu(t, c) PROVE SchedInv'
  <2>1. PICK p \in {"last", "wait"} : pc' = [pc EXCEPT ![t] = p]
    BY <1>7 DEF CallCpu
  <2> QED
    BY <1>4, <1>7, <2>1 DEF CallCpu, Inside, Kmallocs
<1>8. CASE Answered(t)
  <2>1. PICK p \in {"done", "hold"} : pc' = [pc EXCEPT ![t] = p]
    BY <1>8 DEF Answered
  <2> QED
    BY <1>4, <1>8, <2>1 DEF Answered, Inside, Kmallocs
<1>9. CASE CallAll(t)
  BY <1>4, <1>9 DEF CallAll, Inside, Kmallocs
<1>10. CASE Sleep(t)
  <2>1. PICK p \in {"taskmap_sleep", "allocation_sleep"} : pc' = [pc EXCEPT ![t] = p]
    BY <1>10 DEF Sleep, AsleepIn
  <2>2. /\ UNCHANGED <<kind, queue>> /\ OnCpu(t) /\ Inside(t) /\ SleepsInside(kind[t])
        /\ running' = [running EXCEPT ![home[t]] = NoTask]
    BY <1>10 DEF Sleep, Inside, Kmallocs, LosesCpu
  <2>3. SchedTypeOK'
    BY <2>1, <2>2 DEF SchedTypeOK
  <2>4. Queued'
    BY <2>1, <2>2, InsideQueued
  <2>5. pc'[t] = p /\ \A u \in Tasks \ {t} : pc'[u] = pc[u]
    BY <2>1 DEF SchedTypeOK
  <2>6. LosesCpu(t)'
    BY <2>2, <2>5 DEF LosesCpu, SleepsInside, Asleep
  <2>7. ASSUME NEW u \in Tasks \ {t} PROVE LosesCpu(u)'
    <3>1. OnCpu(u) => OnCpu(u)'
      BY <1>1, <2>2 DEF OnCpu, SchedTypeOK
    <3> QED
      BY <2>2, <2>5, <3>1 DEF LosesCpu, Asleep
  <2>8. AtHome'
    BY <1>1, <2>2 DEF AtHome, SchedTypeOK
  <2> QED
    BY <2>3, <2>4, <2>6, <2>7, <2>8
<1>11. CASE Wake(t)
  <2>1. PICK q \in AfterSleep : pc' = [pc EXCEPT ![t] = q]
    BY <1>11 DEF Wake, AfterKmalloc, AfterSleep
  <2>2. UNCHANGED <<kind, running, queue>> /\ Asleep(t) /\ Inside(t)
    BY <1>11 DEF Wake, AsleepIn, Asleep, Inside, Kmallocs
  <2>3. SchedTypeOK'
    BY <2>1, <2>2 DEF SchedTypeOK, AfterSleep
  <2>4. Queued'
    BY <2>1, <2>2, InsideQueued DEF AfterSleep
  <2>5. pc'[t] = q /\ \A u \in Tasks \ {t} : pc'[u] = pc[u]
    BY <2>1 DEF SchedTypeOK
  <2>6. LosesCpu(t)'
    BY <2>2, <2>5 DEF LosesCpu, OnCpu
  <2>7. \A u \in Tasks \ {t} : LosesCpu(u)'
    BY <2>2, <2>5 DEF LosesCpu, OnCpu, Asleep
  <2> QED
    BY <2>2, <2>3, <2>4, <2>6, <2>7 DEF AtHome
<1>12. CASE Unlock(t)
  <2>1. /\ UNCHANGED <<kind, running>> /\ pc' = [pc EXCEPT ![t] = "user"]
        /\ queue' = Tail(queue) /\ Inside(t)
    BY <1>12 DEF Unlock, Inside
  <2>2. queue # <<>>
    BY <2>1 DEF Queued, Positions, Inside, SchedTypeOK
  <2>3. SchedTypeOK'
    BY <2>1, <2>2 DEF SchedTypeOK
  <2>4. pc'[t] = "user" /\ \A u \in Tasks \ {t} : pc'[u] = pc[u]
    BY <2>1 DEF SchedTypeOK
  <2>5. \A u \in Tasks : LosesCpu(u)'
    BY <2>1, <2>4 DEF LosesCpu, OnCpu, Asleep, Kmallocs
  <2> QED
    BY <1>12, <2>1, <2>3, <2>5, UnlockQueued DEF AtHome
<1>13. CASE Schedule(t)
  <2>1. /\ UNCHANGED <<pc, kind, queue>> /\ ~ OnCpu(t) /\ Preemptible(home[t])
        /\ running' = [running EXCEPT ![home[t]] = t]
    BY <1>13 DEF Schedule
  <2>2. SchedTypeOK'
    BY <2>1 DEF SchedTypeOK
  <2>3. Queued'
    BY <2>1 DEF Queued, Positions, Inside
  <2>4. ASSUME NEW u \in Tasks PROVE LosesCpu(u)'
    <3>1. OnCpu(u) => OnCpu(u)' \/ pc[u] = "user"
      BY <1>1, <2>1 DEF OnCpu, SchedTypeOK, Preemptible
    <3> QED
      BY <2>1, <3>1 DEF LosesCpu, Asleep, Kmallocs
  <2>5. AtHome'
    BY <1>1, <2>1 DEF AtHome, SchedTypeOK
  <2> QED
    BY <2>2, <2>3, <2>4, <2>5
<1> QED
  BY <1>3, <1>5, <1>6, <1>7, <1>8, <1>9, <1>10, <1>11, <1>12, <1>13 DEF HandlerStep

LEMMA NextSched == SchedInv /\ [Next]_vars => SchedInv'
<1> SUFFICES ASSUME SchedInv, [Next]_vars PROVE SchedInv'
  OBVIOUS
<1>1. CASE UNCHANGED <<pc, kind, running, queue>>
  BY <1>1
  DEF SchedInv, SchedTypeOK, Queued, Positions, Inside, LosesCpu, OnCpu, AtHome, Asleep
<1>2. ASSUME NEW c \in CPUs, Serve(c) PROVE SchedInv'
  BY <1>1, <1>2 DEF Serve
<1> QED
  BY <1>1, <1>2, HandlerSched DEF Next, vars

LEMMA SchedInvariant == Spec => []SchedInv
BY InitSched, NextSched, PTL DEF Spec

-----------------------------------------------------------------------------
(***************************************************************************)
(* The theorems                                                            *)
(***************************************************************************)
OneInside == \A t, u \in Tasks : Inside(t) /\ Inside(u) => t = u

\* Handlers exclude each other, also while the one that has dev_lock sleeps in
\* kmalloc(GFP_KERNEL) or waits for other CPUs, and wherever the tasks run.  It is
\* why HwbDriver can take a handler as one step.
THEOREM LockExcludes == Spec => []OneInside
<1>1. SchedInv => OneInside
  BY DEF SchedInv, Queued, OneInside
<1> QED
  BY <1>1, SchedInvariant, PTL

\* Of the tasks in a handler, wherever they run and whatever they call, only the
\* holder of the lock can be off its CPU, and only after it has come to a
\* kmalloc(GFP_KERNEL): new_taskmap() and new_allocation() are the only two places
\* at which the lock can be held by a task that does not run.
THEOREM OnlyKmallocTakesTheCpu == Spec => []OnlySleepersLoseTheCpu
<1>1. ASSUME SchedInv PROVE OnlySleepersLoseTheCpu
  <2>1. SUFFICES ASSUME NEW i \in Positions, ~ OnCpu(queue[i])
                 PROVE  /\ i = 1 /\ kind[queue[i]] = "alloc"
                        /\ Asleep(queue[i]) \/ pc[queue[i]] \in AfterSleep
    BY DEF OnlySleepersLoseTheCpu, Positions, AfterSleep
  <2>2. queue[i] \in Tasks /\ pc[queue[i]] # "user" /\ 1 \in Positions
    BY <1>1 DEF SchedInv, SchedTypeOK, Queued, Positions
  <2>3. SleepsInside(kind[queue[i]]) /\ (Asleep(queue[i]) \/ pc[queue[i]] \in AfterSleep)
    BY <1>1, <2>1, <2>2 DEF SchedInv, LosesCpu
  <2>4. Inside(queue[i])
    BY <2>3 DEF Inside, Asleep, AfterSleep
  <2>5. queue[1] = queue[i]
    BY <1>1, <2>2, <2>4 DEF SchedInv, Queued
  <2> QED
    BY <1>1, <2>2, <2>3, <2>5 DEF SchedInv, Queued, SleepsInside
<1> QED
  BY <1>1, SchedInvariant, PTL

\* When a task spins on the CPU of the holder it waits for, no step of any task, CPU
\* or of the scheduler ends it: the lock is held for ever, wherever the others run.
THEOREM LockOutIsForEver == Spec => LockedOutForEver
<1>1. ASSUME SchedInv, HolderLockedOut, [Next]_vars PROVE HolderLockedOut'
  <2> DEFINE h == Head(queue)
             c == home[h]
  <2>1. /\ queue # <<>> /\ h = queue[1] /\ h \in Tasks /\ c \in CPUs /\ ~ OnCpu(h)
        /\ queue \in Seq(Tasks)
    BY <1>1, SchedAssumption DEF SchedInv, SchedTypeOK, HolderLockedOut
  <2>2. PICK u \in Tasks : running[c] = u /\ pc[u] = "spin"
    BY <1>1 DEF HolderLockedOut
  <2> HIDE DEF h, c
  <2>3. c = home[h] /\ h = Head(queue)
    BY DEF c, h
  <2>4. ASSUME queue' # <<>>, Head(queue') = h, running'[c] = running[c], pc'[u] = pc[u]
        PROVE  HolderLockedOut'
    BY <2>1, <2>2, <2>3, <2>4 DEF HolderLockedOut, OnCpu
  <2>5. ASSUME NEW t \in Tasks, Inside(t) PROVE t = h
    BY <1>1, <2>1, <2>5 DEF SchedInv, Queued
  <2>6. CASE UNCHANGED <<pc, running, queue>>
    BY <2>1, <2>3, <2>4, <2>6
  <2>7. ASSUME NEW t \in Tasks, NEW k \in kinds[t], Call(t, k) PROVE HolderLockedOut'
    <3>1. /\ t # u /\ pc' = [pc EXCEPT ![t] = "spin"] /\ UNCHANGED running
          /\ queue' = Append(queue, t)
      BY <2>2, <2>7 DEF Call
    <3>2. queue' # <<>> /\ Head(queue') = h
      BY <2>1, <2>3, <3>1
    <3> QED
      BY <1>1, <2>4, <3>1, <3>2 DEF SchedInv, SchedTypeOK
  <2>8. ASSUME NEW t \in Tasks, HandlerStep(t) PROVE HolderLockedOut'
    <3>1. CASE Wake(t)
      <4>1. PICK p : pc' = [pc EXCEPT ![t] = p]
        BY <3>1 DEF Wake
      <4>2. t # u /\ UNCHANGED <<running, queue>>
        BY <2>2, <3>1 DEF Wake, AsleepIn, Kmallocs
      <4> QED
        BY <1>1, <2>1, <2>3, <2>4, <4>1, <4>2 DEF SchedInv, SchedTypeOK
    <3>2. CASE Acquire(t)
      BY <2>1, <2>3, <3>2 DEF Acquire
    <3>3. CASE ~ Wake(t) /\ ~ Acquire(t)
      <4>1. OnCpu(t) /\ Inside(t)
        BY <2>8, <3>3
        DEF HandlerStep, Kmalloc, Sleep, CallCpu, Answered, CallAll, Unlock, Inside, Kmallocs
      <4> QED
        BY <2>1, <2>5, <4>1
    <3> QED
      BY <3>1, <3>2, <3>3
  <2>9. ASSUME NEW t \in Tasks, Schedule(t) PROVE HolderLockedOut'
    <3>1. home[t] # c
      BY <2>2, <2>9 DEF Schedule, Preemptible
    <3>2. UNCHANGED <<pc, queue>> /\ running' = [running EXCEPT ![home[t]] = t]
      BY <2>9 DEF Schedule
    <3>3. running'[c] = running[c]
      BY <1>1, <2>1, <3>1, <3>2 DEF SchedInv, SchedTypeOK
    <3> QED
      BY <2>1, <2>3, <2>4, <3>2, <3>3
  <2>10. ASSUME NEW d \in CPUs, Serve(d) PROVE HolderLockedOut'
    BY <2>6, <2>10 DEF Serve
  <2> QED
    BY <1>1, <2>6, <2>7, <2>8, <2>9, <2>10 DEF Next, vars
<1>2. SchedInv /\ [Next]_vars => [HolderLockedOut => HolderLockedOut']_vars
  BY <1>1
<1> QED
  BY <1>2, SchedInvariant, PTL DEF Spec, LockedOutForEver

=============================================================================
