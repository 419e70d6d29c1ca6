----------------------------- MODULE HwbDriver ------------------------------
(***************************************************************************)
(* The A64FX hardware barrier driver: the bookkeeping of kmod              *)
(* (struct a64fx_hwb_device and what hangs off it), the barrier registers  *)
(* it programs, and the file operations and ioctls through which tasks     *)
(* reach both (kmod/a64fx_hwb_main.c, kmod/a64fx_hwb_ioctl.c).             *)
(*                                                                         *)
(* Every handler does its work in one critical section of dev_lock, so a   *)
(* handler is one action.  What it decides before it takes the lock looks  *)
(* at its own arguments (check_cpumask) or at the affinity of the caller,  *)
(* of which nothing is used after the check: the CPU that counts is the    *)
(* one get_cpu() returns under the lock, chosen here at every call.  The   *)
(* one piece of work that outlives its critical section is the register    *)
(* reset, sent to the other CPUs by on_each_cpu(.., wait = 0); it is an    *)
(* action of the CPU that receives it.                                     *)
(*                                                                         *)
(* Simplifications.  A handler that fails without changing anything is no  *)
(* step.  The device map (fill_pe_map) is taken to be complete, as it is   *)
(* when all CPUs are online at insmod; get_pemap() and                     *)
(* cpumask_to_ppemask() are one to one then (HwbLoad: EveryPeFound,        *)
(* PpemaskExact), and a PE is named by its CPU.  Tasks do not exit and     *)
(* CPUs stay online.  num_tasks and num_allocs are the sizes of the lists  *)
(* they count.                                                             *)
(***************************************************************************)
EXTENDS HwbRegisters, FiniteSets

CONSTANTS
  Threads,         \* tasks (struct task_struct, known by their PID)
  Groups,          \* thread groups
  tgid,            \* the thread group of a task
  CPUs,            \* CPUs, one PE each
  CMGs,            \* core memory groups
  cmgOf,           \* the CMG a CPU belongs to
  Masters,         \* tasks that allocate and free blades (fhwb_init, fhwb_fini)
  Resetters,       \* tasks that issue FUJITSU_HWB_IOC_RESET (kmod/reset)
  WindowArgs,      \* window numbers passed to FUJITSU_HWB_IOC_BW_ASSIGN
  KmallocMayFail,  \* whether kmalloc() of an allocation may return NULL
  MaxOpen          \* bound: open file descriptions per thread group

ASSUME ClientAssumption ==
  /\ tgid \in [Threads -> Groups]
  /\ Masters \subseteq Threads
  /\ Resetters \subseteq Threads
  /\ WindowArgs \subseteq Int
  /\ KmallocMayFail \in BOOLEAN
  /\ MaxOpen \in Nat

ASSUME TopologyAssumption ==
  /\ cmgOf \in [CPUs -> CMGs]
  /\ IsFiniteSet(CPUs)

VARIABLES
  opened,        \* environment: open file descriptions of a thread group
  active_count,  \* dev->active_count
  task_list,     \* dev->task_list: the task of every task mapping
  allocs,        \* all taskmap->allocs lists: <<task of the mapping, cmg, blade>>
  cpumask,       \* alloc->cpumask: the CPUs the blade was allocated for
  assign_mask,   \* alloc->assign_mask: the CPUs with a window on the blade
  assign_count,  \* alloc->assign_count
  window,        \* alloc->window, by CPU
  bb_active,     \* cmg->bb_active: the blades in use
  bw_map,        \* pe->bw_map: the windows in use
  init_sync,     \* hardware: BST_MASK of every blade
  assign_sync,   \* hardware: window registers of every PE
  hwb_ctrl,      \* hardware: the CPUs with EL0/EL1 access enabled
  reset_ipi      \* <<sender, target>> of asm_reset_func() calls under way

bookkeeping == <<allocs, cpumask, assign_mask, assign_count, window, bb_active, bw_map>>
registers   == <<init_sync, assign_sync, hwb_ctrl>>
vars == <<opened, active_count, task_list, bookkeeping, registers, reset_ipi>>

A64FX_HWB_UNASSIGNED_WIN == -1

(***************************************************************************)
(* An allocation is found by its task mapping, CMG and blade               *)
(* (get_allocation).                                                       *)
(***************************************************************************)
Keys == Threads \X CMGs \X Blades

Task(k)  == k[1]
Cmg(k)   == k[2]
Blade(k) == k[3]

NoWindows == [c \in CPUs |-> A64FX_HWB_UNASSIGNED_WIN]

PEs(g) == {c \in CPUs : cmgOf[c] = g}

\* Slips: get_taskmap() compares PIDs, or nothing at all.
SlipTaskMapByPid(t) == task_list \cap {t}
SlipAnyTaskMap(t)   == task_list

\* get_taskmap(): the mapping of the caller's thread group.
TaskMap(t) == {m \in task_list : tgid[m] = tgid[t]}

\* get_taskmap(), and new_taskmap() where there is none.
RegisteredTaskMap(t) == IF TaskMap(t) = {} THEN {t} ELSE TaskMap(t)

Allocations(m) == {k \in allocs : Task(k) = m}

\* Slip: the CPUs may be of several CMGs, of which one is g.
SlipMixedCpumask(mask, g) == Cardinality(mask) >= 2 /\ mask \cap PEs(g) # {}

\* check_cpumask(): at least two CPUs, all of one CMG.
ValidCpumask(mask, g) ==
  /\ Cardinality(mask) >= 2
  /\ \A c \in mask : cmgOf[c] = g

\* A call that waits for CPU d (smp_call_function_single, wait = 1) is queued
\* behind the resets sent to d before it.
Reachable(d) == \A s \in CPUs : <<s, d>> \notin reset_ipi

\* smp_call_function_any(&cmg->cmgmask, ..) runs here or on some CPU of the CMG.
BladeReachable(c, g) == cmgOf[c] = g \/ \E d \in PEs(g) : Reachable(d)

-----------------------------------------------------------------------------
(***************************************************************************)
(* open() and the last close() of a file description                       *)
(***************************************************************************)
\* Slip: close() decrements without looking.
SlipAlwaysDecremented == active_count - 1

\* active_count after a close().
ActiveAfterClose == IF active_count > 0 THEN active_count - 1 ELSE active_count

Open(t) ==
  /\ opened[tgid[t]] < MaxOpen
  /\ opened' = [opened EXCEPT ![tgid[t]] = @ + 1]
  /\ active_count' = active_count + 1
  /\ UNCHANGED <<task_list, bookkeeping, registers, reset_ipi>>

\* Slips: window 0 is taken for no window; all windows of the CPU are cleared.
SlipWindowZeroKept(K, am, ac, d) ==
  {window[k][d] : k \in {j \in K : ac[j] > 0 /\ d \in am[j]}} \cap (Windows \ {0})
SlipAllWindowsFreed(K, am, ac, d) ==
  IF \E j \in K : d \in am[j] THEN bw_map[d] ELSE {}

\* The windows of CPU d that free_allocation() gives back for the allocations
\* K, whose assign_mask and assign_count are am and ac.
FreedWindows(K, am, ac, d) ==
  {window[k][d] : k \in {j \in K : /\ Blade(j) \in bb_active[Cmg(j)]
                                   /\ ac[j] > 0
                                   /\ d \in am[j]}} \cap Windows

\* Slip: the CMG of the allocation is not looked at.
SlipBladesOfAnyCmg(K, g) == {Blade(k) : k \in K}

\* The blades of CMG g among the allocations K.
BladesOf(K, g) == {Blade(k) : k \in {j \in K : Cmg(j) = g}}

(***************************************************************************)
(* free_allocation() of the allocations K of one task mapping.  The rest   *)
(* of the handler may have changed the fields of K (am, ac) and the        *)
(* windows (bm, as) before.  The blade register is written with an empty   *)
(* mask.                                                                   *)
(***************************************************************************)
FreeAllocations(K, am, ac, bm, as) ==
  /\ allocs'       = allocs \ K
  /\ cpumask'      = [k \in Keys |-> IF k \in K THEN {} ELSE cpumask[k]]
  /\ assign_mask'  = [k \in Keys |-> IF k \in K THEN {} ELSE assign_mask[k]]
  /\ assign_count' = [k \in Keys |-> IF k \in K THEN 0 ELSE assign_count[k]]
  /\ window'       = [k \in Keys |-> IF k \in K THEN NoWindows ELSE window[k]]
  /\ bw_map'       = [d \in CPUs |-> bm[d] \ FreedWindows(K, am, ac, d)]
  /\ assign_sync'  = [d \in CPUs |-> [w \in Windows |->
                        IF w \in FreedWindows(K, am, ac, d)
                        THEN NotAssigned ELSE as[d][w]]]
  /\ bb_active'    = [g \in CMGs |-> bb_active[g] \ BladesOf(K, g)]
  /\ init_sync'    = [g \in CMGs |-> [b \in Blades |->
                        IF b \in bb_active[g] \cap BladesOf(K, g)
                        THEN InitSyncWritten(init_sync[g][b], {})
                        ELSE init_sync[g][b]]]

\* free_allocation() called on CPU c reaches the CPUs it has to program.
FreeReachable(K, c) ==
  \A k \in K : /\ BladeReachable(c, Cmg(k))
               /\ \A d \in assign_mask[k] \ {c} : Reachable(d)

(***************************************************************************)
(* The mapping goes with its allocations (unregister_task), but only when  *)
(* the closing task is the one the mapping was made by, and only while     *)
(* active_count is positive.                                               *)
(***************************************************************************)
Close(t, c) ==
  /\ opened[tgid[t]] > 0
  /\ opened' = [opened EXCEPT ![tgid[t]] = @ - 1]
  /\ active_count' = ActiveAfterClose
  /\ IF active_count > 0 /\ t \in task_list
     THEN /\ FreeReachable(Allocations(t), c)
          /\ task_list' = task_list \ {t}
          /\ FreeAllocations(Allocations(t), assign_mask, assign_count,
                             bw_map, assign_sync)
     ELSE UNCHANGED <<task_list, bookkeeping, init_sync, assign_sync>>
  /\ UNCHANGED <<hwb_ctrl, reset_ipi>>

-----------------------------------------------------------------------------
(***************************************************************************)
(* FUJITSU_HWB_IOC_BB_ALLOC                                                *)
(***************************************************************************)
\* new_allocation().  Its get_allocation() never finds the blade in the mapping
\* already, because an inactive blade has no allocation (BladeOwnership).
NewAllocation(m, g, bit, mask) ==
  LET k == <<m, g, bit>> IN
  /\ allocs'       = allocs \cup {k}
  /\ cpumask'      = [cpumask EXCEPT ![k] = mask]
  /\ assign_mask'  = [assign_mask EXCEPT ![k] = {}]
  /\ assign_count' = [assign_count EXCEPT ![k] = 0]
  /\ window'       = [window EXCEPT ![k] = NoWindows]
  /\ bb_active'    = [bb_active EXCEPT ![g] = @ \cup {bit}]
  /\ init_sync'    = [init_sync EXCEPT ![g][bit] = InitSyncWritten(@, mask)]

\* The first free blade of the CMG is taken.
AllocateBlade(t, c, g, mask) ==
  /\ t \in Masters
  /\ opened[tgid[t]] > 0
  /\ ValidCpumask(mask, g)
  /\ BladeReachable(c, g)
  /\ \E bit \in Blades, m \in RegisteredTaskMap(t) :
       /\ IsFirstZeroBit(bit, bb_active[g], MAX_BB_PER_CMG)
       /\ task_list' = task_list \cup {m}
       /\ NewAllocation(m, g, bit, mask)
  /\ UNCHANGED <<opened, active_count, bw_map, assign_sync, hwb_ctrl, reset_ipi>>

\* A request for a CMG with enough CPUs for a barrier gets no blade: none is free,
\* or kmalloc() of the allocation fails (the call even returns 0 then).  The new
\* task mapping stays.
AllocateNothing(t, g) ==
  /\ t \in Masters
  /\ opened[tgid[t]] > 0
  /\ TaskMap(t) = {}
  /\ ValidCpumask(PEs(g), g)
  /\ KmallocMayFail \/ Blades \subseteq bb_active[g]
  /\ task_list' = task_list \cup {t}
  /\ UNCHANGED <<opened, active_count, bookkeeping, registers, reset_ipi>>

-----------------------------------------------------------------------------
(***************************************************************************)
(* FUJITSU_HWB_IOC_BB_FREE                                                 *)
(***************************************************************************)
\* unregister_task() of a mapping that loses its last allocation with K.
UnregisterIfUnused(m, K) ==
  task_list' = IF Allocations(m) \subseteq K THEN task_list \ {m} ELSE task_list

\* The task the mapping was made by frees the allocation.
FreeByOwner(t, c, g, b) ==
  LET k == <<t, g, b>> IN
  /\ t \in Masters
  /\ opened[tgid[t]] > 0
  /\ t \in task_list
  /\ k \in allocs
  /\ FreeReachable({k}, c)
  /\ FreeAllocations({k}, assign_mask, assign_count, bw_map, assign_sync)
  /\ UnregisterIfUnused(t, {k})
  /\ UNCHANGED <<opened, active_count, hwb_ctrl, reset_ipi>>

\* Slip: the participants are computed anew from the CMG.
SlipCpusOfCmg(k, c) == PEs(Cmg(k)) \ {c}

\* The CPUs of allocation k once CPU c has left it.
RemainingCpus(k, c) == cpumask[k] \ {c}

\* Slip: the count goes down whether or not the CPU is assigned.
SlipAlwaysCounted(k, c) == assign_count[k] - 1

\* Its assign_count then.
CountWithout(k, c) ==
  IF c \in assign_mask[k] THEN assign_count[k] - 1 ELSE assign_count[k]

(***************************************************************************)
(* Another task of the group only takes the CPU it runs on out of the      *)
(* allocation.  If that CPU is assigned, its window is given back; the     *)
(* register write leaves hwb_assign_info.window at 0, so it is window 0 of *)
(* the CPU that the hardware invalidates.  When no CPU is left, the        *)
(* allocation is freed.                                                    *)
(***************************************************************************)
FreeByGroupMember(t, m, c, g, b) ==
  LET k        == <<m, g, b>>
      assigned == c \in assign_mask[k]
      rest     == RemainingCpus(k, c)
      am == [assign_mask EXCEPT ![k] = @ \ {c}]
      ac == [assign_count EXCEPT ![k] = CountWithout(k, c)]
      bm == [bw_map EXCEPT ![c] = IF assigned THEN @ \ {window[k][c]} ELSE @]
      as == [assign_sync EXCEPT ![c] =
               IF assigned THEN AssignSyncWritten(@, 0, FALSE, 0) ELSE @]
  IN
  /\ t \in Masters
  /\ opened[tgid[t]] > 0
  /\ m \in TaskMap(t) /\ m # t
  /\ k \in allocs
  /\ c \in cpumask[k]
  /\ IF rest = {}
     THEN /\ FreeAllocations({k}, am, ac, bm, as)
          /\ UnregisterIfUnused(m, {k})
     ELSE /\ cpumask'      = [cpumask EXCEPT ![k] = rest]
          /\ assign_mask'  = am
          /\ assign_count' = ac
          /\ window' = [window EXCEPT ![k][c] =
                          IF assigned THEN A64FX_HWB_UNASSIGNED_WIN ELSE @]
          /\ bw_map'       = bm
          /\ assign_sync'  = as
          /\ init_sync'    = [init_sync EXCEPT ![g][b] = InitSyncWritten(@, rest)]
          /\ UNCHANGED <<allocs, bb_active, task_list>>
  /\ UNCHANGED <<opened, active_count, hwb_ctrl, reset_ipi>>

-----------------------------------------------------------------------------
\* Slip: the window may be in use.
SlipWindowInUse(c) == Windows

\* The windows of CPU c that are not in use.
FreeWindows(c) == Windows \ bw_map[c]

\* Slip: a second window is taken for an allocation that has one.
SlipSecondWindow(win, k, c) == IsFirstZeroBit(win, bw_map[c], MAX_BW_PER_CMG)

\* The window taken for allocation k on CPU c when the caller names none.
IsNextFreeWindow(win, k, c) ==
  /\ window[k][c] = A64FX_HWB_UNASSIGNED_WIN
  /\ IsFirstZeroBit(win, bw_map[c], MAX_BW_PER_CMG)

(***************************************************************************)
(* FUJITSU_HWB_IOC_BW_ASSIGN: the caller, on CPU c, maps a window of the   *)
(* CPU to a blade its group has allocated for the CPU.  A negative         *)
(* argument asks for the first free window, and is refused when the        *)
(* allocation already has a window on this CPU; an explicit window only    *)
(* has to be free.                                                         *)
(***************************************************************************)
AssignBlade(t, m, c, b, arg, win) ==
  LET k == <<m, cmgOf[c], b>> IN
  /\ opened[tgid[t]] > 0
  /\ m \in TaskMap(t)
  /\ k \in allocs
  /\ c \in cpumask[k]
  /\ IF arg < 0 THEN IsNextFreeWindow(win, k, c) ELSE win = arg
  /\ win \in FreeWindows(c)
  /\ assign_sync'  = [assign_sync EXCEPT ![c] = AssignSyncWritten(@, win, TRUE, b)]
  /\ window'       = [window EXCEPT ![k][c] = win]
  /\ bw_map'       = [bw_map EXCEPT ![c] = @ \cup {win}]
  /\ assign_mask'  = [assign_mask EXCEPT ![k] = @ \cup {c}]
  /\ assign_count' = [assign_count EXCEPT ![k] = @ + 1]
  /\ UNCHANGED <<opened, active_count, task_list, allocs, cpumask, bb_active,
                 init_sync, hwb_ctrl, reset_ipi>>

(***************************************************************************)
(* FUJITSU_HWB_IOC_BW_UNASSIGN: the window is the one the allocation has   *)
(* on this CPU, and the register must still name the blade.                *)
(***************************************************************************)
UnassignBlade(t, m, c, b) ==
  LET k   == <<m, cmgOf[c], b>>
      win == window[k][c]
  IN
  /\ opened[tgid[t]] > 0
  /\ m \in TaskMap(t)
  /\ k \in allocs
  /\ win \in Windows
  /\ win \in bw_map[c]
  /\ assign_sync[c][win].blade = b
  /\ bw_map'       = [bw_map EXCEPT ![c] = @ \ {win}]
  /\ assign_sync'  = [assign_sync EXCEPT ![c] = AssignSyncWritten(@, win, FALSE, 0)]
  /\ window'       = [window EXCEPT ![k][c] = A64FX_HWB_UNASSIGNED_WIN]
  /\ assign_mask'  = [assign_mask EXCEPT ![k] = @ \ {c}]
  /\ assign_count' = [assign_count EXCEPT ![k] = @ - 1]
  /\ UNCHANGED <<opened, active_count, task_list, allocs, cpumask, bb_active,
                 init_sync, hwb_ctrl, reset_ipi>>

-----------------------------------------------------------------------------
(***************************************************************************)
(* FUJITSU_HWB_IOC_RESET: the registers of the calling CPU are reset at    *)
(* once, those of the others when the interrupt reaches them; all          *)
(* bookkeeping is dropped without waiting for that.  A sender waits until  *)
(* its previous request to a CPU is done (csd_lock).                       *)
(***************************************************************************)
\* Slip: the loop over the windows ends one too early.
SlipLastWindowKept(d) ==
  [w \in Windows |-> IF w = MAX_BW_PER_CMG - 1 THEN assign_sync[d][w] ELSE NotAssigned]

\* asm_reset_func() on CPU d.
WindowsReset(d) == [w \in Windows |-> NotAssigned]
BladesReset(g, d) ==
  [b \in Blades |-> IF cmgOf[d] = g THEN InitSyncWritten(init_sync[g][b], {})
                                    ELSE init_sync[g][b]]

ResetRegisters(d) ==
  /\ assign_sync' = [assign_sync EXCEPT ![d] = WindowsReset(d)]
  /\ init_sync'   = [g \in CMGs |-> BladesReset(g, d)]
  /\ hwb_ctrl'    = hwb_ctrl \ {d}

Reset(t, c) ==
  /\ t \in Resetters
  /\ opened[tgid[t]] > 0
  /\ \A d \in CPUs : <<c, d>> \notin reset_ipi
  /\ ResetRegisters(c)
  /\ reset_ipi'    = reset_ipi \cup {<<c, d>> : d \in CPUs \ {c}}
  /\ allocs'       = {}
  /\ cpumask'      = [k \in Keys |-> {}]
  /\ assign_mask'  = [k \in Keys |-> {}]
  /\ assign_count' = [k \in Keys |-> 0]
  /\ window'       = [k \in Keys |-> NoWindows]
  /\ task_list'    = {}
  /\ active_count' = 0
  /\ bb_active'    = [g \in CMGs |-> {}]
  /\ bw_map'       = [d \in CPUs |-> {}]
  /\ UNCHANGED opened

\* CPU d takes the reset interrupt CPU s has sent.
ResetCpu(s, d) ==
  /\ <<s, d>> \in reset_ipi
  /\ reset_ipi' = reset_ipi \ {<<s, d>>}
  /\ ResetRegisters(d)
  /\ UNCHANGED <<opened, active_count, task_list, bookkeeping>>

-----------------------------------------------------------------------------
Init ==
  /\ opened       = [p \in Groups |-> 0]
  /\ active_count = 0
  /\ task_list    = {}
  /\ allocs       = {}
  /\ cpumask      = [k \in Keys |-> {}]
  /\ assign_mask  = [k \in Keys |-> {}]
  /\ assign_count = [k \in Keys |-> 0]
  /\ window       = [k \in Keys |-> NoWindows]
  /\ bb_active    = [g \in CMGs |-> {}]
  /\ bw_map       = [c \in CPUs |-> {}]
  /\ init_sync    = [g \in CMGs |-> [b \in Blades |-> {}]]
  /\ assign_sync  = [c \in CPUs |-> [w \in Windows |-> NotAssigned]]
  /\ hwb_ctrl     = CPUs
  /\ reset_ipi    = {}

\* What task t may do to the device, short of a reset.
ClientStep(t) ==
  \/ Open(t)
  \/ \E c \in CPUs : Close(t, c)
  \/ \E c \in CPUs, g \in CMGs : \E mask \in SUBSET CPUs : AllocateBlade(t, c, g, mask)
  \/ \E g \in CMGs : AllocateNothing(t, g)
  \/ \E c \in CPUs, g \in CMGs, b \in Blades : FreeByOwner(t, c, g, b)
  \/ \E m \in Threads, c \in CPUs, g \in CMGs, b \in Blades : FreeByGroupMember(t, m, c, g, b)
  \/ \E m \in Threads, c \in CPUs, b \in Blades, arg \in WindowArgs, win \in Windows :
       AssignBlade(t, m, c, b, arg, win)
  \/ \E m \in Threads, c \in CPUs, b \in Blades : UnassignBlade(t, m, c, b)

Next ==
  \/ \E t \in Threads : ClientStep(t)
  \/ \E t \in Threads, c \in CPUs : Reset(t, c)
  \/ \E s, d \in CPUs : ResetCpu(s, d)

Spec == Init /\ [][Next]_vars

-----------------------------------------------------------------------------
(***************************************************************************)
(* Properties                                                              *)
(***************************************************************************)
\* The types of all variables.  What kfree() returns is kept at its initial
\* value, so the fields of an allocation that is not on a list say nothing.
TypeOK ==
  /\ opened       \in [Groups -> Nat]
  /\ active_count \in Nat
  /\ task_list    \subseteq Threads
  /\ allocs       \subseteq Keys
  /\ cpumask      \in [Keys -> SUBSET CPUs]
  /\ assign_mask  \in [Keys -> SUBSET CPUs]
  /\ assign_count \in [Keys -> Int]
  /\ window       \in [Keys -> [CPUs -> Windows \cup {A64FX_HWB_UNASSIGNED_WIN}]]
  /\ bb_active    \in [CMGs -> SUBSET Blades]
  /\ bw_map       \in [CPUs -> SUBSET Windows]
  /\ init_sync    \in [CMGs -> [Blades -> SUBSET CPUs]]
  /\ assign_sync  \in [CPUs -> [Windows -> AssignSync]]
  /\ hwb_ctrl     \subseteq CPUs
  /\ reset_ipi    \subseteq CPUs \X CPUs

\* A thread group has at most one task mapping and every allocation hangs off a
\* registered mapping, whichever tasks of the group allocate, free and close:
\* nothing on the lists of ioctl.c can be lost from sight while the mapping that
\* carries it is unregistered.
TaskMapOwnership ==
  /\ \A m, n \in task_list : tgid[m] = tgid[n] => m = n
  /\ \A k \in allocs : Task(k) \in task_list

\* A blade of a CMG is marked active in cmg->bb_active exactly while one
\* allocation, of one thread group, holds it: blades are never shared, never
\* lost, and free_allocation() never meets an inactive blade (its "AAAH" branch).
BladeOwnership ==
  /\ \A g \in CMGs, b \in Blades :
       b \in bb_active[g] => \E k \in allocs : Cmg(k) = g /\ Blade(k) = b
  /\ \A k \in allocs : Blade(k) \in bb_active[Cmg(k)]
  /\ \A j, k \in allocs : Cmg(j) = Cmg(k) /\ Blade(j) = Blade(k) => j = k

\* An allocation records a window for exactly the CPUs of its assign_mask, the
\* window is marked in the bw_map of the CPU, and no two allocations, of the same
\* or of different processes, record the same window of a CPU.
WindowOwnership ==
  /\ \A k \in allocs, c \in CPUs :
       /\ c \in assign_mask[k] <=> window[k][c] # A64FX_HWB_UNASSIGNED_WIN
       /\ c \in assign_mask[k] => window[k][c] \in bw_map[c]
  /\ \A j, k \in allocs, c \in CPUs :
       c \in assign_mask[j] /\ c \in assign_mask[k] /\ window[j][c] = window[k][c] => j = k

\* Windows are only assigned on CPUs the blade was allocated for, those are CPUs
\* of the blade's CMG, there is at least one, and the BST_MASK in the blade's
\* register names exactly them: an allocation always has the barrier it believes
\* in, also after group members have taken their CPUs out of it.
BladeProgrammed ==
  \A k \in allocs :
    /\ assign_mask[k] \subseteq cpumask[k]
    /\ cpumask[k] # {}
    /\ cpumask[k] \subseteq PEs(Cmg(k))
    /\ init_sync[Cmg(k)][Blade(k)] = cpumask[k]

\* assign_count is never below the number of assigned CPUs, so the test
\* "assign_count > 0" in free_allocation() never skips a CPU that still has a
\* window.
AssignCountCoversMask ==
  \A k \in allocs : assign_count[k] >= Cardinality(assign_mask[k])

\* While clients take windows with -1 only, the count is exact.
AssignCountExact ==
  \A k \in allocs : assign_count[k] = Cardinality(assign_mask[k])

\* No ioctl or close of a task changes the allocations of another thread group:
\* a step that does is not one of its steps (only the reset may do it).
AllocationChanged(k) ==
  \/ k \notin allocs'
  \/ <<cpumask'[k], assign_mask'[k], assign_count'[k], window'[k]>>
       # <<cpumask[k], assign_mask[k], assign_count[k], window[k]>>

ForeignAllocationsKept ==
  [][\A t \in Threads :
       (\E k \in allocs : tgid[Task(k)] # tgid[t] /\ AllocationChanged(k))
         => ~ ClientStep(t)]_vars

\* Nor does it touch the window registers another thread group has been given.
ForeignWindowsKept ==
  [][\A t \in Threads :
       (\E k \in allocs : /\ tgid[Task(k)] # tgid[t]
                          /\ \E c \in assign_mask[k] : assign_sync'[c][window[k][c]]
                                                        # assign_sync[c][window[k][c]])
         => ~ ClientStep(t)]_vars

\* The participants of a barrier in use are never extended: as long as an
\* allocation lives its cpumask can only lose CPUs.
CpumaskOnlyShrinks ==
  [][\A k \in allocs \cap allocs' : cpumask'[k] \subseteq cpumask[k]]_vars

\* The window an allocation records on a CPU is valid in the register of that
\* CPU and looks at the blade of the allocation, so the CPU can use the barrier
\* and UNASSIGN (which compares the register) will succeed.
AssignedInHardware ==
  \A k \in allocs : \A c \in assign_mask[k] :
    assign_sync[c][window[k][c]] = [valid |-> TRUE, blade |-> Blade(k)]

\* A valid window register is marked in bw_map, or a reset of the CPU is on its
\* way: the driver does not lose track of a window that is live in the hardware.
LiveWindowsTracked ==
  \A c \in CPUs, w \in Windows :
    assign_sync[c][w].valid => w \in bw_map[c] \/ ~ Reachable(c)

\* Every window marked in bw_map is recorded by an allocation, so it can be
\* given back: windows do not leak.
WindowsAccounted ==
  \A c \in CPUs : \A w \in bw_map[c] :
    \E k \in allocs : c \in assign_mask[k] /\ window[k][c] = w

\* A live window never looks at a blade that is free (and may be handed to
\* another process next).
NoWindowOnFreeBlade ==
  \A c \in CPUs, w \in Windows :
    assign_sync[c][w].valid => assign_sync[c][w].blade \in bb_active[cmgOf[c]]

-----------------------------------------------------------------------------
(***************************************************************************)
(* What comments, messages and the README say of the driver                *)
(***************************************************************************)
\* ioctl.c:549-551, on a task of the group that is not the owner: "we check
\* whether the task is still assigned to the blade.  If yes, unassign it".
GroupMemberUnassigned ==
  [][\A t, m \in Threads, c \in CPUs, g \in CMGs, b \in Blades :
       FreeByGroupMember(t, m, c, g, b) =>
         \A w \in Windows :
           w = window[<<m, g, b>>][c] => ~ assign_sync'[c][w].valid]_vars

=============================================================================
