------------------------------ MODULE HwbSched ------------------------------
(***************************************************************************)
(* How the handlers get through: dev_lock, the calls to other CPUs made    *)
(* while it is held, and kmalloc(GFP_KERNEL), which may sleep under it.    *)
(* HwbDriver takes a handler as one step; this module is about whether the *)
(* handler ever returns.  What it does to the device does not matter here, *)
(* only its kind:                                                          *)
(*                                                                         *)
(*   "alloc"  BB_ALLOC: may sleep in new_taskmap() and in                  *)
(*            new_allocation(), then calls one CPU and waits               *)
(*   "free"   BB_FREE, close: calls CPUs one by one and waits              *)
(*   "own"    BW_ASSIGN, BW_UNASSIGN, open: calls nobody but itself        *)
(*   "reset"  RESET: calls all CPUs without waiting for them, but for      *)
(*            their earlier calls of this kind                             *)
(*                                                                         *)
(* A task is pinned (BW_ASSIGN insists).  spin_lock() disables preemption, *)
(* so a CPU whose task spins or holds the lock runs no other task, unless  *)
(* the holder sleeps; it does not disable interrupts, so calls from other  *)
(* CPUs are served whatever a CPU does.                                    *)
(***************************************************************************)
EXTENDS Integers, Sequences

CONSTANTS
  Tasks,     \* tasks that call the driver
  CPUs,      \* CPUs
  home,      \* the CPU a task is pinned to
  kinds,     \* the handlers a task calls
  NoTask     \* an idle CPU

ASSUME SchedAssumption ==
  /\ NoTask \notin Tasks
  /\ home \in [Tasks -> CPUs]
  /\ kinds \in [Tasks -> SUBSET {"alloc", "free", "own", "reset"}]

VARIABLES
  pc,       \* where a task is
  kind,     \* the handler it is in
  running,  \* the task a CPU runs
  queue,    \* dev_lock: its holder, then those that spin, in their order
  calls     \* calls to other CPUs not served yet: <<task, cpu, wait>>

vars == <<pc, kind, running, queue, calls>>

OnCpu(t) == running[home[t]] = t

\* Slips: the lock is taken with interrupts off; window calls may sleep too.
SlipIrqsOff(c) ==
  {x \in calls : x[2] = c /\ \A t \in Tasks : running[c] = t => pc[t] # "spin"}
SlipAnySleeps(k) == k \in {"alloc", "own"}

\* The calls CPU c serves when it takes the interrupt, whatever it runs.
Served(c) == {x \in calls : x[2] = c}

\* The handler that calls kmalloc(.., GFP_KERNEL) under the lock.
SleepsInside(k) == k = "alloc"

\* There, and asleep there.
Kmallocs == {"new_taskmap", "new_allocation"}
AsleepIn(p) == IF p = "new_taskmap" THEN "taskmap_sleep" ELSE "allocation_sleep"
Asleep(t)   == pc[t] \in {"taskmap_sleep", "allocation_sleep"}

\* How a handler begins: the group may have a mapping, and all blades be taken.
FirstSteps(k) == IF SleepsInside(k) THEN Kmallocs \cup {"done"} ELSE {"hold"}

\* How it goes on: kmalloc() may have failed, and all blades be taken.
AfterKmalloc(p) == IF p = "new_taskmap" THEN {"new_allocation", "done"} ELSE {"hold", "done"}

\* Slip: tasks that spin are preempted.
SlipSpinnersYield(c) ==
  \A t \in Tasks : running[c] = t => pc[t] \in {"user", "spin"}

\* A CPU may be given to another task.
Preemptible(c) ==
  \A t \in Tasks : running[c] = t => pc[t] = "user"

-----------------------------------------------------------------------------
\* An ioctl, open or close up to spin_lock().
Call(t, k) ==
  /\ OnCpu(t)
  /\ pc[t] = "user"
  /\ k \in kinds[t]
  /\ kind'  = [kind EXCEPT ![t] = k]
  /\ pc'    = [pc EXCEPT ![t] = "spin"]
  /\ queue' = Append(queue, t)
  /\ UNCHANGED <<running, calls>>

Acquire(t) ==
  /\ OnCpu(t)
  /\ pc[t] = "spin"
  /\ Head(queue) = t
  /\ \E p \in FirstSteps(kind[t]) : pc' = [pc EXCEPT ![t] = p]
  /\ UNCHANGED <<kind, running, queue, calls>>

\* kmalloc() returns at once, or waits for memory first.
Kmalloc(t) ==
  /\ OnCpu(t)
  /\ pc[t] \in Kmallocs
  /\ \E p \in AfterKmalloc(pc[t]) : pc' = [pc EXCEPT ![t] = p]
  /\ UNCHANGED <<kind, running, queue, calls>>

Sleep(t) ==
  /\ OnCpu(t)
  /\ pc[t] \in Kmallocs
  /\ pc' = [pc EXCEPT ![t] = AsleepIn(@)]
  /\ running' = [running EXCEPT ![home[t]] = NoTask]
  /\ UNCHANGED <<kind, queue, calls>>

Wake(t) ==
  /\ \E p \in Kmallocs :
       /\ pc[t] = AsleepIn(p)
       /\ \E q \in AfterKmalloc(p) : pc' = [pc EXCEPT ![t] = q]
  /\ UNCHANGED <<kind, running, queue, calls>>

\* smp_call_function_single() or _any() for another CPU, wait = 1.
CallCpu(t, c) ==
  /\ OnCpu(t)
  /\ pc[t] = "hold"
  /\ kind[t] \in {"alloc", "free"}
  /\ c # home[t]
  /\ pc' = [pc EXCEPT ![t] = IF kind[t] = "alloc" THEN "last" ELSE "wait"]
  /\ calls' = calls \cup {<<t, c, TRUE>>}
  /\ UNCHANGED <<kind, running, queue>>

\* The call has been served; a free may have more CPUs to call.
Answered(t) ==
  /\ OnCpu(t)
  /\ pc[t] \in {"wait", "last"}
  /\ \A c \in CPUs : <<t, c, TRUE>> \notin calls
  /\ pc' = [pc EXCEPT ![t] = IF @ = "last" THEN "done" ELSE "hold"]
  /\ UNCHANGED <<kind, running, queue, calls>>

\* on_each_cpu(.., wait = 0): the call structures of the CPU (csd_lock) have to
\* be free again.
CallAll(t) ==
  /\ OnCpu(t)
  /\ pc[t] = "hold"
  /\ kind[t] = "reset"
  /\ \A u \in Tasks, c \in CPUs : home[u] = home[t] => <<u, c, FALSE>> \notin calls
  /\ calls' = calls \cup {<<t, c, FALSE>> : c \in CPUs \ {home[t]}}
  /\ pc' = [pc EXCEPT ![t] = "done"]
  /\ UNCHANGED <<kind, running, queue>>

Unlock(t) ==
  /\ OnCpu(t)
  /\ pc[t] = "done" \/ (pc[t] = "hold" /\ kind[t] # "reset")
  /\ queue' = Tail(queue)
  /\ pc' = [pc EXCEPT ![t] = "user"]
  /\ UNCHANGED <<kind, running, calls>>

\* CPU c serves what is queued for it.
Serve(c) ==
  /\ \E x \in calls : x[2] = c
  /\ calls' = calls \ Served(c)
  /\ UNCHANGED <<pc, kind, running, queue>>

\* The scheduler gives a CPU to another task.
Schedule(t) ==
  /\ ~ OnCpu(t)
  /\ ~ Asleep(t)
  /\ Preemptible(home[t])
  /\ running' = [running EXCEPT ![home[t]] = t]
  /\ UNCHANGED <<pc, kind, queue, calls>>

-----------------------------------------------------------------------------
Init ==
  /\ pc      = [t \in Tasks |-> "user"]
  /\ kind    = [t \in Tasks |-> "own"]
  /\ running = [c \in CPUs |-> NoTask]
  /\ queue   = <<>>
  /\ calls   = {}

\* A handler goes on.
HandlerStep(t) ==
  \/ Acquire(t)
  \/ Kmalloc(t)
  \/ Sleep(t)
  \/ Wake(t)
  \/ \E c \in CPUs : CallCpu(t, c)
  \/ Answered(t)
  \/ CallAll(t)
  \/ Unlock(t)

Next ==
  \/ \E t \in Tasks : Schedule(t) \/ HandlerStep(t) \/ \E k \in kinds[t] : Call(t, k)
  \/ \E c \in CPUs : Serve(c)

Spec == Init /\ [][Next]_vars

(***************************************************************************)
(* A handler that can go on does, memory is found for one that sleeps, a   *)
(* handler calls each CPU a finite number of times (it comes to its        *)
(* unlock), interrupts are taken, and the scheduler lets every task that   *)
(* can run have its CPU again and again.                                   *)
(***************************************************************************)
FairSpec ==
  /\ Spec
  /\ \A t \in Tasks : WF_vars(HandlerStep(t)) /\ SF_vars(Unlock(t)) /\ SF_vars(Schedule(t))
  /\ \A c \in CPUs : WF_vars(Serve(c))

-----------------------------------------------------------------------------
(***************************************************************************)
(* Properties                                                              *)
(***************************************************************************)
\* The holder of the lock sleeps, or has slept, and its CPU has gone to a task that
\* spins for the lock.
HolderLockedOut ==
  /\ queue # <<>>
  /\ ~ OnCpu(Head(queue))
  /\ \E t \in Tasks : running[home[Head(queue)]] = t /\ pc[t] = "spin"

\* Every call returns, although its handler may sleep or wait for CPUs on which
\* other handlers spin for the lock it holds, with one exception: a task spins on
\* the CPU of a holder that kmalloc(GFP_KERNEL) has put to sleep (ioctl.c:301 and
\* 167).  Waiting for CPUs, resets that wait for nobody and sleeping as such do not
\* keep a call from returning.
ReturnsUnlessLockedOut ==
  \A t \in Tasks : pc[t] # "user" ~> pc[t] = "user" \/ HolderLockedOut

\* And that one is for good: memory that is found, interrupts that are served and
\* whatever the scheduler does on other CPUs do not let the holder run again.
LockedOutForEver == [][HolderLockedOut => HolderLockedOut']_vars

\* Of the tasks in a handler only the holder of the lock can be off its CPU, and
\* only if it is one that allocates and has come to a kmalloc(): those that spin,
\* call other CPUs or wait for them always have theirs.
OnlySleepersLoseTheCpu ==
  \A i \in 1 .. Len(queue) :
    ~ OnCpu(queue[i]) =>
      /\ i = 1
      /\ kind[queue[i]] = "alloc"
      /\ Asleep(queue[i]) \/ pc[queue[i]] \in {"new_allocation", "hold", "done"}

=============================================================================
