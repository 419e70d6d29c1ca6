# Verification of the A64FX hardware barrier driver

TLA+ modules, TLC runs and TLAPS proofs for the Linux kernel module of this
repository (`kmod/`), which hands the hardware barrier of the A64FX to user
space. The modules are translations of the C code; comments and the repository's
README are only used for what they *claim* (see "Where code and comments
disagree").

## 1. The system

The A64FX has four CMGs (core memory groups) of 12 or 13 PEs (one PE is one
CPU). A CMG has 6 *barrier blades*: a register INIT_SYNC with the PEs that take
part (`BST_MASK`) and their arrival bits (`BST`). A PE has 4 *windows*: a
register ASSIGN_SYNC that names a blade and a valid bit, and a register BST_SYNC
through which the PE sets its own arrival bit and reads the common one (`LBSY`).
The driver allocates blades to processes and windows to CPUs. The
synchronisation itself never enters the kernel.

### Components

| component | code | state | operations |
|---|---|---|---|
| barrier and window ioctls | `kmod/a64fx_hwb_ioctl.c` | task mappings (`task_list`, one per thread group) with their allocations: `cpumask`, `assign_mask`, `assign_count`, `window[]`; per CMG `bb_active`; per PE `bw_map` | `BB_ALLOC`, `BB_FREE` (by the owner, by another task of the group), `BW_ASSIGN`, `BW_UNASSIGN`, `RESET`, `GET_PE_INFO` |
| device file | `kmod/a64fx_hwb_main.c:81-155` | `active_count` | `open`, `close` (cleans up), dispatch |
| register accessors | `kmod/a64fx_hwb_asm.c` | the registers of the hardware | read and write INIT_SYNC, ASSIGN_SYNC, BST_SYNC, BARRIER_CTRL, PE_INFO |
| module load and unload | `kmod/a64fx_hwb_main.c:198-285` | the device, its sysfs file, EL0/EL1 access | `insmod`, `rmmod` |
| CPU topology | `kmod/a64fx_hwb_main.c:157-196`, `kmod/a64fx_hwb_ioctl.c:20-95` | `pe_map`, `num_pes` | `fill_pe_map`, `get_max_pe_per_cmg`, `get_pemap`, `check_cpumask`, `cpumask_to_ppemask` |
| CMG objects, sysfs | `kmod/a64fx_hwb_cmg.c` | kobjects, `cmgmask` | `initialize_cmg`, `destroy_cmg`, the `show` functions |
| hardware barrier | `README.md:16-58` | `BST`, `LBSY` | arrive, wait |
| reset tool | `kmod/reset/reset.c` | none | open, `RESET`, close |
| benchmark | `benchmark/*.c` | none | the canonical client of the library |
| user-space library | `ulib` (a submodule, its sources are not here) | | turns `fhwb_init/assign/sync/unassign/fini` into ioctls |
| build files | `kmod/Makefile`, `kmod/Kbuild` | | |

### How they interact

* **Tasks call handlers.** Every ioctl and file operation runs in the calling
  task, on the CPU `get_cpu()` returns. Handlers share `struct a64fx_hwb_device`,
  guarded by `dev_lock`; `cmg_lock` is nested inside it and adds nothing.
* **Handlers call other CPUs.** Registers are local to a PE (ASSIGN_SYNC) or a
  CMG (INIT_SYNC), so a handler programs them by `smp_call_function_single` or
  `_any` and waits (`wait = 1`). The reset is the exception: it uses
  `on_each_cpu(.., wait = 0)` and goes on while the others have not run yet.
* **Tasks of one thread group share one mapping**, found by TGID, but *owned* by
  the task that made it: only that task's free and close take the blades back.
* **Bookkeeping mirrors registers** (`cpumask`/BST_MASK, `window`/ASSIGN_SYNC),
  and bookkeeping mirrors bookkeeping (`assign_mask`/`window`/`bw_map`/
  `assign_count`, `bb_active`/allocations). Keeping these in step over any
  sequence of calls is what the driver is about.
* **User space and kernel share the registers.** While tasks synchronise through
  BST_SYNC, other tasks have the driver rewrite ASSIGN_SYNC of their CPU and
  INIT_SYNC of their blade.
* **insmod draws up the map of the CPUs once**; every handler looks up its CPU in
  it, while CPUs go and come.

### What is hard

Long sequences of legal calls by several tasks and processes (partial frees by
group members, explicit and automatic windows, closes by the wrong task); a
reset in the middle of all that, which drops the bookkeeping under open file
descriptions and whose interrupts arrive late; barrier rounds that overlap with
each other and with calls to the driver; failing `kmalloc` and `copy_to_user`,
and processes that are killed before or after; a register write that refuses its
argument while its caller ignores the result; a spin lock under which the holder
sleeps and waits for CPUs where others spin; loading that fails half-way,
unloading while files are read; a map of CPUs that has holes. `PROJECT.json`
lists each hazard with its line.

### What makes each component correct

* *Ioctls, device file:* a blade has at most one owner, a window of a CPU at most
  one blade; nothing is lost; a process cannot disturb another; the registers are
  what the bookkeeping says.
* *Topology:* `check_cpumask` accepts exactly the masks its comment names;
  `cpumask_to_ppemask` turns them into exactly the PEs of their CPUs; `get_pemap`
  finds the PE of every online CPU.
* *Hardware barrier:* nobody leaves a round before everybody has arrived, and
  everybody leaves, also when a group member frees its share of the blade.
* *Load and unload:* no handler sees a device that is not set up; what was set up
  is taken down once, on every error path.
* *Library client:* no blade or window outlives the process that got it, but for
  the one case the code has.

## 2. Modules

```
HwbRegisters             what one register access computes
   ^ EXTENDS
HwbDriver                bookkeeping + registers + all state-changing handlers
   ^ EXTENDS
   +-- HwbBarrier               tasks that synchronise, composed with the driver
   |      ^ EXTENDS  MCHwbBarrier
   +-- HwbClient                answers, lost answers, processes that end
   |      ^ EXTENDS  MCHwbClient
   +-- HwbRefinement            mapping to HwbService (INSTANCE)
   +-- MCHwbDriver              instances for TLC
   |      ^ EXTENDS  MCHwbRefinement (with HwbRefinement)
   +-- HwbDriverProofs          type correctness
          ^ EXTENDS
       HwbOwnershipProofs       the ownership invariant
          ^ EXTENDS
          +-- HwbLibraryProofs       clients that keep to the library's pattern
          |      ^ EXTENDS
          |      +-- HwbBarrierProofs     rounds (EXTENDS HwbBarrier too)
          |      +-- HwbClientProofs      answers, ends (EXTENDS HwbClient too)
          +-- HwbRefinementProofs    the refinement (EXTENDS HwbRefinement too)

HwbService               what the driver promises, on its own

HwbLoad                  insmod, rmmod, the map of the CPUs, sysfs files
   ^ EXTENDS
   +-- MCHwbLoad
   +-- HwbLoadProofs            types, what is left behind, kobjects; the map is
                                right where there are no holes

HwbSched                 dev_lock, sleeping, calls to other CPUs
   ^ EXTENDS
   +-- MCHwbSched
   +-- HwbSchedProofs           mutual exclusion, who loses the CPU
```

### HwbRegisters

A bit mask is the set of its bits. `InitSyncWritten` is what
`write_init_sync_bb` leaves in BST_MASK: it returns `-EINVAL` for the empty mask
before it writes (asm.c:81), so an empty mask is *no write*. `AssignSyncWritten`
is `write_assign_sync_wr`, `IsFirstZeroBit` the kernel's `find_first_zero_bit`.
`LbsyRead` and `BstWritten` are the accesses to BST_SYNC through a window, and
`LbsyAfter` is what the hardware makes of the arrival bits (README.md:54-55): LBSY
changes when the bits of all PEs of BST_MASK are the same.

### HwbDriver

| variable | code |
|---|---|
| `task_list` | `dev->task_list`, a mapping standing for its task |
| `allocs` | the `allocs` lists of all mappings; an allocation is the key `<<task of the mapping, cmg, blade>>` that `get_allocation` looks for |
| `cpumask`, `assign_mask`, `assign_count`, `window` | the fields of an allocation, by key (`window` by CPU) |
| `bb_active`, `bw_map` | the bit maps of a CMG and a PE |
| `active_count` | `dev->active_count` |
| `init_sync`, `assign_sync`, `hwb_ctrl` | hardware: BST_MASK by CMG and blade, the windows of every PE, the CPUs with EL0/EL1 access |
| `reset_ipi` | `asm_reset_func` calls sent and not yet run, `<<sender, target>>` |
| `opened` | environment: open file descriptions of a thread group |

| action | code |
|---|---|
| `Open`, `Close` | `oss_a64fx_hwb_open`, `oss_a64fx_hwb_close` with `unregister_task` |
| `AllocateBlade` | `BB_ALLOC`: `check_cpumask`, `get_taskmap`/`new_taskmap`, first free blade, `new_allocation` |
| `AllocateNothing` | the same call when no blade is free or `kmalloc` fails: the new task mapping stays |
| `FreeByOwner` | `BB_FREE` by the mapping's task: `free_allocation`, then `unregister_task` if it was the last |
| `FreeByGroupMember` | `BB_FREE` by another task of the group: only the caller's CPU leaves the barrier, with `free_allocation` once no CPU is left |
| `AssignBlade`, `UnassignBlade` | `BW_ASSIGN`, `BW_UNASSIGN` |
| `Reset` | `RESET`: registers of this CPU, all bookkeeping, calls to the other CPUs |
| `ResetCpu` | `asm_reset_func` arriving at another CPU |

`FreeAllocations` is `free_allocation` for a *set* of allocations of a mapping
(one for a free, all for a close). The order of the loop cannot be observed: the
allocations have different blades and different windows (`BladeOwnership`,
`WindowOwnership`).

**Why a handler is one action.** All of its work is one critical section of
`dev_lock`. Before the lock it reads its own arguments, and the affinity of the
caller, of which it keeps nothing: the CPU that counts is `get_cpu()` under the
lock, and the model chooses it anew in every step. The one access that does not
take the lock is the reset's interrupt. It writes registers only, no handler
reads a register that it writes except `UnassignBlade` (one read), and each
register is written once by a handler, so an interrupt that falls in the middle
of a handler has the effect of one before or after it. Calls to a CPU are served
in the order of its queue, hence `Reachable`: a handler that *waits* for a CPU
finds the earlier resets of that CPU done.

**Simplifications.** A handler that fails without changing anything is no step.
A PE is named by its CPU, so `cpumask_to_ppemask` and `get_pemap` are the identity
here: that is what they are when the map is complete, which `HwbLoad` is about
(`EveryPeFound`, `PpemaskExact`). CPUs stay online, tasks do not exit (`HwbClient`
has processes that do).
`num_tasks` and `num_allocs` are the sizes of the lists they count.
`pe->win_blades` is written by one handler and read by none, and is left out.
`MaxOpen` bounds the open file descriptions per process and is the only bound in
a guard. `Masters`, `Resetters` and `WindowArgs` say which tasks allocate and
free, which reset, and which window numbers are asked for. With all tasks in the
first two and all window numbers in the last there is no restriction on clients;
the theorems hold for every choice.

Definitions called `Slip...` are deliberate mistakes. No specification uses
them: each stands before the definition it could be mistaken for, and replacing
that definition by its slip makes a property fail (`PROJECT.json`, "mutants").
They document what every property is able to catch.

### HwbService and HwbRefinement

`HwbService` is what processes may rely on, without task mappings, bit maps,
counts or registers: a barrier (a blade of a CMG) is free or held by one process
(`holder`), it waits for certain CPUs (`members`), and some of those look at it
through a window (`windows`). Its steps are `Acquire` a free barrier for CPUs of
its CMG, `Release` own barriers with all their windows, `Leave` (one CPU of
several), `Attach` through a window that shows no other barrier, `Detach`, and
`Reset`.

`HwbRefinement` maps the driver to it:

| HwbService | read off |
|---|---|
| `holder[x]` | the thread groups whose mappings have an allocation of `x` |
| `members[x]` | the *hardware*: BST_MASK of the blade, while it is allocated |
| `windows[x][c]` | `window` of the allocation, if `c` is in its `assign_mask` |

`holder` and `windows` are sets, so that two owners of a blade could be seen and
would be no state of the service. `ImplementsService` is the refinement. What it
hides is what a client should not notice: failed allocations, mappings that stay
behind, who of a group called, double counting, interrupts of a reset that arrive
late. What it does *not* promise is that a window of the bookkeeping is the one
valid in the hardware: it is not (section 4), and `AssignedInHardware` says for
which clients it is.

### HwbBarrier

`fhwb_sync()` over the registers the driver has written, as README.md steps 4 and
5 describe it: `BeginSync` reads LBSY through the window and inverts it, `Arrive`
writes the own BST bit (the hardware updates LBSY), `Leave` is the poll that finds
LBSY equal to it. Between any two of these every other task may synchronise or
call the driver: the module EXTENDS `HwbDriver`, and each of its other actions is
a handler of it together with `HardwareFollows`, what the handler's register
writes do to BST and LBSY. `write_init_sync_bb` writes the whole register, so a
blade that is given to new CPUs or loses one starts with all bits 0 (and, since
an empty mask is not written, a blade that is freed does not).

| variable | code |
|---|---|
| `bst`, `lbsy` | hardware: the bits BST and LBSY of every blade |
| `sync` | where a task is in `fhwb_sync()`, the window it was called with, the value it waits for |
| `rounds` | the rounds a CPU has begun on an allocation (for the properties and the program) |

The tasks in `Syncers` are the program: all CPUs of a barrier run the same number
of rounds, a task does not unassign while others wait for it, the owner frees a
blade and a synchronising task closes the device between rounds
(`benchmark/barrier_hwb.c`, its loop and its end of a parallel region). With
`AssignFirst` a round begins only when all participants have a window, which the
benchmark gets from the implicit barrier behind its assigns.

The free by a group member is the one call that takes a window away from others:
a caller that is still assigned invalidates window 0 of its CPU, whoever uses it
(ioctl.c:566-577). The model has this branch. The tasks in `Careful` keep out of
it: they free their share between rounds and after they have unassigned it, the
order of the benchmark. A task that is not in `Careful` may free its share at any
moment and with its window in place. Which tasks have to be careful is part of
what a run or a theorem says (sections 3 and 5): for the barrier to work it is
everybody on a CPU on which somebody synchronises, tasks of *other* processes
included. That is a demand on strangers, and the code does not enforce it; without
it a free by a third process makes both participants of a barrier wait for ever.

### HwbClient

What processes know of their blades and windows. Each call of `HwbDriver` gets
the answer it copies to user space; the copy may fail after the work is done, and
`kmalloc` may fail without the answer saying so (`AllocatePhantom`). `known` and
`windows` are what the process was told, `doubt` and `winDoubt` what it holds, or
has given back, without having been told, `phantom` what it was told without
holding it. Calls that are refused are steps here, because they tell the caller
something. A process may be killed at any point (`Exit`); then only the closes
of what it has open are left to be done (`exit_files`), and it may be started
again with nothing in hand.

A process may have several tasks, which share what they know. One of them, its
master, allocates and frees (the library's pattern); all assign and unassign, any
may close a description, and the last close of a process that ends is made by
whichever task comes last. `unregister_task` asks for the task of the mapping
(main.c:102-103), so a last close by another task frees nothing. `closer` (not in
the code) remembers who made it, and `NothingOutlives` says that this is the only
way in which anything outlives a process. A process whose TGID still has a mapping
is not started again: reading the TGID through the pointer of such a mapping, to
a `task_struct` that is gone, is not modelled. Descriptions are neither inherited
nor passed on, and no task exits before its process.

### HwbLoad

| variable | code |
|---|---|
| `at`, `cmg`, `last` | where `oss_a64fx_hwb_init` or `_exit` is, and in its loop over the CMGs |
| `registered`, `hwinfo` | the misc device and its sysfs file |
| `pe_map`, `num_cmgs`, `num_pes`, `cmgmask` | the fields of that name |
| `refs`, `files` | references to the kobject of a CMG, the CMGs with sysfs files |
| `online`, `hwb_ctrl`, `readers`, `users` | environment: CPUs, their register BARRIER_CTRL, reads and open file descriptions under way |

Each step of `insmod` is an action, with its failure where it can fail
(`CreateFile`, `TestKobjectFails`, `InitialiseCmgFails`) and the part of the error path that follows;
the error path joins `rmmod` at `remove`. `RemoveFiles`, `PutKobject` and
`Drained` are `destroy_cmg`: `sysfs_remove_group` keeps new readers out and waits
for those there are. `TestKobjectFails` is the call that makes a kobject "Test" to
get a `ktype` from and does not ask whether it got one (cmg.c:170-177): insmod
dies, `at` stays `"oops"`, and what was set up so far stays. `check_cpumask`,
`cpumask_to_ppemask`, `get_pemap` and `core_map_show` are operators with the code's
names; `Visited` is the range of all loops over the PEs of a CMG: the
indices below `num_pes`, whatever is there. `MayMiss` is the set of CPUs that may
be offline at insmod. The reference count starts at 0 before `kobject_init`; the
put that rmmod makes takes it from 2 to 1.

### HwbSched

Whether a handler returns, independent of what it does to the device. A handler
is one of four kinds by what it does under `dev_lock`: it may sleep, in
`new_taskmap` and in `new_allocation`, and then waits for one CPU ("alloc"), waits
for CPUs one after the other ("free", and close), waits for nobody ("own"), or calls all CPUs without waiting ("reset").
`queue` is the lock with those who spin, `calls` the calls to other CPUs not
served yet, `running` what the scheduler has chosen. Spinning and holding disable
preemption, so `Preemptible` fails for the CPU; they do not disable interrupts,
so `Serve` does not ask what the CPU runs. A holder that sleeps gives its CPU away,
to a task that may spin for its lock: `HolderLockedOut`.

### MC modules

`MCHwbDriver`: process `p1` with the tasks `t1` and `t2`, process `p2` with `t3`,
two CPUs in one CMG. `MCHwbBarrier`: the same with tasks pinned to CPUs,
`t3` on that of `t1`, and `t4` of `p2` on a third. `MCHwbClient`: `p1` of two tasks
and `p2` of one on two CMGs. `MCHwbLoad`: CMGs of 3, 2 and 1 PEs. `MCHwbSched`:
four tasks on three CPUs, of the two that allocate one alone and one with company.
CPUs of one CMG are symmetric, and so are CMGs of the same size; symmetry is only
used in runs without liveness.

## 3. Runs

| run | question | bounds | result |
|---|---|---|---|
| `driver_windows` | Do windows, masks, counts and blade registers stay in step when three tasks of two processes allocate, free and assign as they like? `WindowOwnership`, `AssignCountCoversMask`, `BladeProgrammed` | 2 CPUs, 2 blades, 2 windows, explicit window numbers | 204 264 states, holds |
| `driver_reset` | Does the bookkeeping keep one owner for everything when one process resets and the interrupts come late? `TypeOK`, `TaskMapOwnership`, `BladeOwnership`, `ForeignAllocationsKept`, `CpumaskOnlyShrinks`; is what it then does still the service of `HwbService`? `ImplementsService` | 2 CPUs, 2 blades, 1 window | 43 266 states, holds |
| `driver_ipi` | Which live windows may the driver lose track of? `LiveWindowsTracked` | both processes reset; 2 CPUs, 1 blade, 2 windows | 62 608 states, holds |
| `barrier_rounds` | Does the barrier keep rounds apart and release somebody of those who wait, over two barriers and two windows, and does a task keep its window, while others assign, free and close on its CPU and free assigned shares elsewhere? `RoundSafety`, `NotAllStuck`, `SyncThroughOwnBlade` | 4 tasks on 3 CPUs, 2 blades, 2 windows, 2 rounds on an allocation; `t4`, alone on the third CPU, is not in `Careful` | 336 860 states, holds |
| `barrier_library` | Do clients that keep to the library's pattern lose nothing, do registers agree with the bookkeeping, and does everybody who waits leave although another process may take all other windows of a CPU? `AssignedInHardware`, `WindowsAccounted`, `NoWindowOnFreeBlade`, `AssignCountExact`, `ForeignWindowsKept`, `WaitersLeave` | one allocating task per process, window -1, no reset; 2 CPUs, 3 blades, 2 windows, 2 rounds; `AssignFirst`; `FairBarrierSpec` | 184 510 states, holds |
| `client_answers` | Are the answers true, is nothing lost for a client that retries, and what outlives a process? Are the blades of two CMGs kept apart, with masks that may span both? `BladesAnswered`, `WindowsAnswered`, `NothingOutlives`, `BladeOwnership`, `BladeProgrammed` | a process of 2 tasks, one of which meets failures, and a process of one; 2 CMGs of 2 CPUs, 1 blade, 1 window, 2 descriptions | 231 295 states, holds |
| `module_load` | Is the map of the CPUs right, and the PEs for a mask; is everything taken down on every path, and do insmod and rmmod end? `CheckCpumaskExact`, `EveryPeFound`, `PpemaskExact`, `NothingLeftBehind`, `ReadersFindTopology`, `KobjectNeverReleased`, `CommandsEnd` | CMGs of 3, 2 and 1 PEs; 2 descriptions; all CPUs online at insmod; `FairSpec` | 72 770 states, holds |
| `handlers_return` | Does every call return, although holders of the lock sleep and wait for CPUs where others spin? Who can be off its CPU, what is the only way not to return, and is there one out of it? `OnlySleepersLoseTheCpu`, `ReturnsUnlessLockedOut`, `LockedOutForEver` | 4 tasks, 3 CPUs, two tasks that allocate, one of which shares its CPU; `FairSpec` | 17 846 states, holds |

Deadlock is checked in all of them but `handlers_return`, whose subject is a
deadlock of the code: the device always accepts an open or a close, a task can
always call, and rmmod can always be followed by insmod.

**Why the bounds are enough.** The conflicts the properties are about are
between two allocations: of one process, of two processes, on one CPU, in two
CMGs. Two blades and two windows give "another one", "the first free one is not
0" and "none left" (blades and windows run out within a few steps). Two CPUs are
the smallest legal barrier, and a group member's free takes it down to one CPU
and to none; three let a barrier shrink and still be legal. Two tasks of one
group and one of another give an owner, a group member and a stranger. `MaxOpen =
1` loses nothing a task can do in `HwbDriver`: the guards only ask whether
something is open and whether `active_count` is positive, and the two processes
together reach 2. `HwbClient` has `MaxOpen = 2`, for a process that ends with more
than one description. `MaxRounds = 2` is what makes two consecutive rounds, with
LBSY going up and down again, overlap; a new allocation starts counting again, so
a run has any number of rounds on a blade. Three blades and two windows in
`barrier_library` let the windows of a CPU run out before the blades do, as 4 windows
and 6 blades of the hardware do. One blade and one window in
`client_answers` make every second request a refused one. Three CMGs in
`module_load` put the failing one first, in the middle and last; their three sizes
leave unused entries and make the number of a PE differ from its place in a mask.
In `handlers_return` the lock has a queue of up to four, two tasks share a CPU and
the holder waits for CPUs with and without spinners.
The theorems of section 5 remove the bounds for the properties they cover.

**What the library pattern leaves out.** The first five properties of
`barrier_library` do not hold for arbitrary clients. A group-member free
invalidates the wrong register, an explicit window on an assigned CPU leaks one,
and a reset's late interrupt can clear a window assigned after it. The pattern (the run's
`Masters`, `WindowArgs`, `Resetters`) is how `benchmark/barrier_hwb.c` uses the
library: one task initialises and finalises, every pinned thread assigns with
-1. Likewise `driver_ipi` has one task in each group, because a group-member free
leaves a live window that is marked free.

**What the other runs assume of their environment.** The `barrier_...` runs: the
rule of the program above, no reset (a reset takes the barrier away from under
those who wait, as it should), and that everybody on a CPU on which somebody
synchronises is in `Careful`. `barrier_rounds` shows that nothing need be asked of
tasks on other CPUs, `doc_others_continue` what happens when the participants
themselves are not careful. `barrier_library` assumes `AssignFirst`: otherwise another
process may take the last window of a CPU before the participant there has one,
its assign is refused with `-ENODEV` for as long as the other likes, and those who
have arrived wait. `module_load`: all CPUs are online at insmod, and the device is
opened only after it; `doc_cpumask` drops the first. `handlers_return` assumes
nothing of where tasks run, and a deadlock of the code is there: the allocating
task sleeps in `kmalloc` with the lock held, another task is scheduled on its CPU
and spins, with preemption off, for the lock of a task that can never run again.
The run says that this is the only thing that can go wrong and that it is final.
`client_answers`: allocation and free are left to one task of each process; a
process knows that a close by that task drops all it has, however many
descriptions it has.

**Fairness.**

* `FairBarrierSpec`: a task inside `fhwb_sync()` goes on (it is a loop in user
  space, and a CPU that is shared is given back to it), and a CPU that owes the others a round begins it
  (the loop of the benchmark has a fixed number of rounds).
  No round nobody has begun and no call to the driver is assumed to happen. All
  of it is weak fairness.
* `HwbLoad!FairSpec`: `insmod` and `rmmod`, once begun, execute, and a `show`
  function, which has no loop without a bound and waits for nothing but a CPU,
  returns. No command is assumed to be given.
* `HwbSched!FairSpec`: handlers execute, interrupts are served, memory is found for
  a sleeper, and a handler comes to its unlock (it calls each CPU a bounded
  number of times; the model, which does not count, would let it call for ever,
  hence strong fairness). The scheduler gives every task that can run its CPU
  again and again: strong fairness, since others may run in between.

## 4. Where code and comments disagree

Each row is a run that checks one statement of the repository and finds it
violated.

| run | the statement | what the code does |
|---|---|---|
| `doc_group_unassign` | ioctl.c:550-551, a group member's free: "check whether the task is still assigned to the blade. If yes, unassign it" | `ainfo.window` is never set, so window **0** is invalidated and the CPU's own window stays valid while it is marked free (ioctl.c:557-580) |
| `doc_others_continue` | ioctl.c:551-553, of the same free: "so that the other tasks of the group can still use the barrier" | the blade register is written again, which clears the BST bits of those who have arrived (ioctl.c:587): in the middle of a round, all the others may wait for ever |
| `doc_blade_returned` | ioctl.c:405: "It returns the barrier blade allocated to be used by the user-space library" | the result of `register_allocation` is not looked at (ioctl.c:441): when `kmalloc` fails the call returns 0 and the number of a blade that is still free, which the next process gets |
| `doc_cpumask` | ioctl.c:20-21, `check_cpumask`: "check a given cpumask whether it contains only CPUs of a single CMG, the mask contains at least two CPUs and all CPUs are online" | a CPU that is not found in the map is passed over; with one CPU offline at insmod the map has a hole, and the loops stop at the *number* of PEs (main.c:189), so that others are not found either |

Further divergences, not in a run of their own:

* `free_allocation` "free[s] the window registers on the still assigned CPUs"
  (ioctl.c:214-215), but an assign with an explicit window on a CPU that has one
  overwrites `alloc->window` (ioctl.c:738), and the first window stays valid on
  the freed blade. `NoWindowOnFreeBlade` fails with explicit window numbers.
* "Afterwards the barrier blade register is freed" (ioctl.c:216): the write of the
  empty mask is refused (asm.c:81), the register keeps its BST_MASK.
* "This kernel module enables the EL0 access at module load and disables it at
  module unload" (README.md:90): a reset disables it too, on every CPU, and nothing
  enables it again while the device stays usable (ioctl.c:939).
* "Only the task which allocated the barrier blade, can free it" (ioctl.c:535): the
  mapping belongs to the *first* task of the group that allocated; that one frees
  the blades of the others, and they only leave.
* "Close on not opened device" (main.c:114): after a reset that branch is taken by
  the close of open devices, and it cleans nothing up (ioctl.c:974).
* A close by the task of the mapping frees everything the process has, also while
  it has other descriptions open; the last close by another task frees nothing
  (main.c:102-103). README.md names neither.
* A reset that succeeded is answered with `-ENOTTY`: its `case` has no `break`
  (main.c:147-150). The reset tool ignores the result.

## 5. Proofs

`tlapm` proves, for every value of the constants that satisfies the assumptions
below:

| theorem | module | statement |
|---|---|---|
| `TypeCorrect` | HwbDriverProofs | `Spec => []TypeOK` |
| `TaskMapsOwned` | HwbOwnershipProofs | `Spec => []TaskMapOwnership` |
| `BladesOwned` | HwbOwnershipProofs | `Spec => []BladeOwnership` |
| `WindowsOwned` | HwbOwnershipProofs | `Spec => []WindowOwnership` |
| `BladesProgrammed` | HwbOwnershipProofs | `Spec => []BladeProgrammed` |
| `CountCoversMask` | HwbOwnershipProofs | `Spec => []AssignCountCoversMask` |
| `ParticipantsOnlyLeave` | HwbOwnershipProofs | `Spec => CpumaskOnlyShrinks` |
| `GroupsIsolated` | HwbOwnershipProofs | `Spec => ForeignAllocationsKept` |
| `ServiceImplemented` | HwbRefinementProofs | `Spec => ImplementsService` |
| `LiveWindows` | HwbLibraryProofs | `OneMaster` implies `Spec => []LiveWindowsTracked` |
| `WindowsInHardware` | HwbLibraryProofs | `LibraryPattern` implies `Spec => []AssignedInHardware` |
| `WindowsNotLeaked` | HwbLibraryProofs | ... `Spec => []WindowsAccounted` |
| `CountExact` | HwbLibraryProofs | ... `Spec => []AssignCountExact` |
| `NoStaleWindow` | HwbLibraryProofs | ... `Spec => []NoWindowOnFreeBlade` |
| `WindowsIsolated` | HwbLibraryProofs | ... `Spec => ForeignWindowsKept` |
| `BarrierUsesDriver` | HwbBarrierProofs | `BarrierSpec => Spec` |
| `BarrierSeparatesRounds` | HwbBarrierProofs | `SyncPattern` implies `BarrierSpec => []RoundSafety` |
| `SomebodyIsReleased` | HwbBarrierProofs | ... `BarrierSpec => []NotAllStuck` |
| `WindowStaysOwn` | HwbBarrierProofs | ... `BarrierSpec => []SyncThroughOwnBlade` |
| `ClientUsesDriver` | HwbClientProofs | `ClientSpec => Spec` |
| `NothingIsLeft` | HwbClientProofs | `ClientSpec => []NothingOutlives` |
| `AnswersAboutBlades` | HwbClientProofs | `ClientSpec => []BladesAnswered` |
| `AnswersAboutWindows` | HwbClientProofs | `ClientSpec => []WindowsAnswered` |
| `LoadTypeCorrect` | HwbLoadProofs | `Spec => []TypeOK` (of `HwbLoad`) |
| `UnloadComplete` | HwbLoadProofs | `Spec => []NothingLeftBehind` |
| `KobjectsStatic` | HwbLoadProofs | `Spec => KobjectNeverReleased` |
| `MasksChecked` | HwbLoadProofs | `NoHoles(n)` and `MayMiss = {}` imply `Spec => []CheckCpumaskExact` |
| `PesFound` | HwbLoadProofs | ... `Spec => []EveryPeFound` |
| `MasksTranslated` | HwbLoadProofs | ... `Spec => []PpemaskExact` |
| `ReadersServed` | HwbLoadProofs | ... `Spec => []ReadersFindTopology` |
| `LockExcludes` | HwbSchedProofs | `Spec => []OneInside` (of `HwbSched`) |
| `OnlyKmallocTakesTheCpu` | HwbSchedProofs | `Spec => []OnlySleepersLoseTheCpu` |
| `LockOutIsForEver` | HwbSchedProofs | `Spec => LockedOutForEver` |

Every safety property a passing run checks is stated by one of them.

**Assumptions.** `RegisterCounts` (at least one blade and one window),
`ClientAssumption` (the client parameters have their types), `TopologyAssumption`
(every CPU has a CMG, finitely many CPUs). Up to `ServiceImplemented` nothing is
assumed of which tasks call what, so resets, failing allocations, explicit windows
and frees by group members are all in. The theorems of `HwbLibraryProofs` assume
of the clients what makes them true and no more: `OneMaster` is one allocating
task per thread group, `LibraryPattern` adds that nobody resets and all windows
are taken with -1; how many tasks, blades, windows and CPUs there are stays open.
Those of `HwbBarrierProofs` assume `SyncAssumption` (the types of the parameters,
and that -1 may be asked for) and, but for the first, `SyncPattern`: a process that
synchronises has only tasks that do, no two of them on one CPU, and whoever is
pinned to the CPU of one of them, of whatever process, is in `Careful`, that is,
does not free a share of a barrier as a group member while it is assigned to it or
in the middle of a round. Both halves are needed: `doc_others_continue` is the
counterexample when the participants are not careful, and a stranger who is not
invalidates window 0 under them. Nothing is assumed of how many tasks of the
process allocate (`LibraryPattern` is *not* assumed), nor of tasks on other CPUs,
which may free assigned shares at any moment, nor of the other calls. Those of
`HwbClientProofs` assume `ProcessAssumption`, what the clients of that module are:
any number of tasks of which one allocates and frees, windows with -1, no reset,
and failures of `kmalloc` only where they are admitted. Those of `HwbLoadProofs`
assume `LoadAssumption` (no two CPUs have the same PE_INFO); the four about the map in
addition that the PEs of every CMG are numbered from 0 without a hole (`NoHoles`;
the count may differ from CMG to CMG) and that all CPUs are online at insmod.
The theorems of `HwbSchedProofs` assume the types of the parameters.

**Argument.** `TypeCorrect` has one lemma per action; `NestedUpdate` is the one
about `EXCEPT ![a][b]` they share. For the rest, no property is inductive alone:
that the window of a new assignment is not recorded elsewhere needs
"recorded windows are in `bw_map`"; that a free gives back exactly its own windows
needs "no window is recorded twice"; that a new blade has no allocation needs
`BladeOwnership`, and that it hangs off a registered mapping needs one mapping per
group. The invariant is therefore their conjunction with `TypeOK` (`Ownership`).
A step changes the bookkeeping in one of a few *shapes*: allocations are
untouched, freed, added, get a window, lose a window, lose a participant, or are
all dropped. One lemma per action shows which shape it has; one lemma per shape
shows that the shape preserves the invariant. The two action properties follow
from the shapes, the second with the observation that every shape a client step
takes is confined to allocations of its own group.

The refinement reuses the shapes. `HeldSeen` and `FreeSeen` say what a barrier
looks like through the mapping in any state of the invariant (one allocation of a
blade at most, and its `cpumask` in the register), and `SeenNext` says it of the
next state. Then each shape is one step of the service: added is `Acquire`,
freed is `Release`, a window given or taken is `Attach` or `Detach`, a
participant lost is `Leave`, all dropped is `Reset`, untouched is a stutter.

`CountCoversMask` is the one with arithmetic on cardinalities
(`FiniteSetTheorems`); an explicit assign may count a CPU twice, which is why it
states `>=`. Equality is `CountExact`, for the library pattern.

`LiveWindowsTracked` needs no more than types and the fact that only masters have
mappings (`LiveInv`): with one master in a group no branch for group members is
taken (`NoGroupMemberFrees`), every other call changes a window's register and its
bit together, and a reset puts every CPU but its own on the way. For the library
pattern the invariant (`LibraryInv`) is the conjunction of the ownership
invariants, `LiveInv` and the three state properties. It is needed as a whole:
that a free gives back *all* windows of a blade (`EveryWindowFreed`) uses that the
count covers the mask and that the recorded windows are windows; that it gives
back *no other* (`OtherWindowsKept`) uses that no window is recorded twice; that a
live window shows no free blade follows from the other parts (it is used, so an
allocation records it, so it shows that allocation's blade, which is active).

**Barriers.** What the driver does while barriers are at work is first reduced to
shapes (`CallShape`): a call is one of the library's shapes or a group member
leaving (`LeftStep`), of which the careful ones leave between rounds and without a
window. One who is not careful clears window 0 of its CPU; that CPU is then none
of `SyncCpus`. So what the library's invariant says of the hardware survives on
`SyncCpus` (`SyncInHardware`), which is where it is needed, without one master per
process. The state of
the hardware is then tied to the program by a number per allocation. `InRound(k, n)`
says that all CPUs of allocation `k` have arrived at round `n`, one of them has
not arrived at `n + 1`, every other has arrived at one or the other, and none has
left `n + 1`; that LBSY and the BST bit of a CPU together tell which of the two a
CPU has arrived at (the bit equals LBSY until it has arrived at `n + 1`, and is
the opposite then); and that a task inside waits for the opposite of LBSY if its
round is `n + 1` and for LBSY itself if its round is `n`, that is, if it only has
to see that it is over. None of these parts is inductive by itself: that a CPU
begins round `n + 1` and no later one follows from its having left at most `n`;
that LBSY changes exactly at the last arrival needs the bits of *all* CPUs of
BST_MASK, hence `BladeProgrammed` (BST_MASK is the cpumask); that the arrival goes
into the bit of the blade needs `SyncInHardware` and that no window is taken
from a task inside (`Places`: it is on a CPU in `assign_mask`, with the window the
allocation records). When the last one arrives, `n + 1` takes the place of `n`.
An allocation that is new starts with `n = 0`, because `write_init_sync_bb`
clears its bits, whatever its blade has served before; one that a member leaves
is `Settled` and starts again likewise with the rounds it has.
`RoundSafety` is then two inequalities, and `NotAllStuck` the observation that of
CPUs that all wait the one that has arrived at `n` only waits for LBSY as it is.

**Clients.** `CallIsDriverStep` shows that every call, also one that fails, is a
call of `HwbDriver` or nothing, so `LibraryInv` and `TaskMapOwnership` hold. `Life`
adds that `active_count` is the number of open descriptions (`Descriptions`, a
finite set of pairs), that a task mapping keeps one open unless another task made
the last close (`closer`), and that a process that is gone has none: the count is
therefore positive in every close, and a close by the mapping's task always takes
the mapping. `MappingKept` is the step: a mapping that stays while the last
description goes was closed by somebody else. `Informed` is what a process knows, in
terms of its *allocations* and not of registers: a window it was told of is one
that an allocation of its own records. It is inductive relative to the other
two; `OwnShape` confines a call to the allocations of the caller, so the others
stay informed (`OthersMineKept`), and for the caller there is one lemma per call. A
refused call needs most: that it is right to forget uses that mapping and
allocation of a group are found whenever they exist (`TaskMapOwnership`), and that
a blade on a CPU is of one allocation only (`BladeOwnership`). `WindowsAnswered`
follows with `AssignedInHardware`.

**Scheduling.** The queue of the lock contains exactly the tasks inside a handler,
once each, and only its head is beyond the spin (`Queued`). Only a handler that
allocates comes to a `kmalloc`, only there does it give its CPU away, and what it
does after that until its unlock is where it can be found off its CPU
(`LosesCpu`). When its CPU runs a task that spins, that task is behind it in the
queue and cannot get the lock, the CPU is not preemptible, and the head of the
queue only changes at an unlock, for which the holder needs its CPU: so the
situation stays (`LockOutIsForEver`). That tasks run at home (`AtHome`) is needed to
know which CPU it is.

For `HwbLoad` the invariant (`LoadInv`) says of every point in insmod and rmmod
which CMGs have files, what their reference counts are, which CPUs have access
and that readers are in files that exist or are about to be drained; the failure
of one CMG and the way down after a success are the two cases of the same
formula. `TopologyInv` adds that the map is right as far as it is filled and that
`num_pes` is the number of PEs, which by `NoHoles` is also one more than the last
index (`CountRight`, by the cardinality of an interval): so the loops visit all
of them.

**Only model-checked.** Liveness (`WaitersLeave`, `CommandsEnd`,
`ReturnsUnlessLockedOut`) is out of the prover's reach; `NotAllStuck`,
`OnlySleepersLoseTheCpu` and `LockedOutForEver` are the safety behind two of them.
Each inductive invariant was checked on the instance of a run before it was proved.

## 6. Plan

What is left, in order of importance:

1. `HwbClient`: single threads that exit, inherited descriptions; what a mapping
   whose task is gone may be mistaken for.
2. `HwbLoad`: open and ioctl between `misc_register()` and the end of insmod.
3. Proofs: an abstract barrier (rounds of a set of CPUs, no registers) that
   `HwbBarrier` implements, from the invariant there is.

## 7. Not modelled

* The formatting of the sysfs files, and the reads of `bb_active`, `bw_map` and
  INIT_SYNC without a lock (single words, used for display); `core_map` is modelled.
* Logging; the timing code of the benchmark, and `barrier.c`, which does not use
  the module; the build files.
* The inside of the user-space library, whose sources are not part of this
  repository: `fhwb_sync()` is modelled from README.md, and the system calls from
  the handlers that take them.
* `get_cpu()` without `put_cpu()` in a group member's free (ioctl.c:556): the
  effect depends on how the kernel is configured.
* Descriptions that are inherited or passed on, and threads that exit before
  their process. What they lead to, a last close by a task other than the one of
  the mapping, is modelled; that the mapping then keeps a pointer to a task that is
  gone, and that its TGID is read there, is not.
* What is left of the kernel after insmod has died on the `Test` kobject.
* Early calls, before insmod is done (section 6).
* The data race of the benchmark on its shared variable `ret`
  (barrier_hwb.c:75-84).
* `GET_PE_INFO` changes no state; its answer is `CmgOf` and `PpeOf` of `HwbLoad`.
