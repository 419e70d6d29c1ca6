----------------------------- MODULE HwbClient ------------------------------
(***************************************************************************)
(* The driver seen by its clients: what the answers of the ioctls let a    *)
(* process know, and what is left of a process that ends.                  *)
(*                                                                         *)
(* An ioctl does its work and then copies the answer to user space; when   *)
(* the copy fails the caller gets -1 although the work is done.  The       *)
(* process then is in doubt, and may only find out by calling again.  The  *)
(* one failure that is answered with success is kmalloc() of an            *)
(* allocation, whose NULL oss_a64fx_hwb_allocate() does not look at.       *)
(*                                                                         *)
(* The clients are processes of any number of tasks, which share what they *)
(* know, call from any CPU and take windows with -1.  One task of each,    *)
(* its master, allocates and frees (the library's pattern); all assign and *)
(* unassign, and any may close a description.  A process that ends, or is  *)
(* killed, closes what it has open one description after the other, in     *)
(* whichever of its tasks comes last (exit_files()).  Descriptions are not *)
(* inherited (fork) or passed on, and no task ends before its process.     *)
(*                                                                         *)
(* Only the close by the mapping's task takes the mapping.  When another   *)
(* task makes the last close the mapping stays, with a pointer to a        *)
(* task_struct that is given back later.  The driver goes on reading its   *)
(* TGID there; here that memory keeps its contents, and no new process     *)
(* gets that TGID.                                                         *)
(***************************************************************************)
EXTENDS HwbDriver

CONSTANT Faulty  \* tasks whose calls may meet a failing kmalloc() or copy_to_user()

ASSUME ProcessAssumption ==
  /\ Faulty \subseteq Threads
  /\ Faulty # {} => KmallocMayFail
  /\ \A t, u \in Masters : tgid[t] = tgid[u] => t = u
  /\ Resetters = {}
  /\ WindowArgs = {-1}
  /\ CPUs # {}

VARIABLES
  status,    \* of a process: "runs", "exits" (only closes what it has open), "gone"
  closer,    \* the task that has made its last close, while it has nothing open
  known,     \* the blades a process has been told are its own
  doubt,     \* the blades it does not know about: the answer was lost
  phantom,   \* the blades it was told it got when kmalloc() had failed
  windows,   \* the windows it has been told: <<cpu, blade, window>>
  winDoubt   \* the windows it does not know about: <<cpu, blade>>

knowledge  == <<known, doubt, phantom, windows, winDoubt>>
clientVars == <<vars, status, closer, knowledge>>

Barriers == CMGs \X Blades

Barrier(k) == <<Cmg(k), Blade(k)>>

Held(p) == {Barrier(k) : k \in {j \in allocs : tgid[Task(j)] = p}}

Runs(t) == status[tgid[t]] = "runs"

\* Whether the answer of a call arrives.
Answers(t) == IF t \in Faulty THEN {TRUE, FALSE} ELSE {TRUE}

\* The CPU a handler runs on only decides which CPUs it has to wait for, and
\* without resets it never has to: one stands for all.
SomeCpu == CHOOSE c \in CPUs : TRUE

BladesUnchanged  == UNCHANGED <<known, doubt, phantom>>
WindowsUnchanged == UNCHANGED <<windows, winDoubt>>

\* Process p has learnt that it does not hold the blades X.
Forgets(p, X) ==
  /\ known'    = [known EXCEPT ![p] = @ \ X]
  /\ doubt'    = [doubt EXCEPT ![p] = @ \ X]
  /\ phantom'  = [phantom EXCEPT ![p] = @ \ X]
  /\ windows'  = [windows EXCEPT ![p] = {e \in @ : <<cmgOf[e[1]], e[2]>> \notin X}]
  /\ winDoubt' = [winDoubt EXCEPT ![p] = {e \in @ : <<cmgOf[e[1]], e[2]>> \notin X}]

-----------------------------------------------------------------------------
(***************************************************************************)
(* FUJITSU_HWB_IOC_BB_ALLOC                                                *)
(***************************************************************************)
\* Slip: the CMG is not filled in.
SlipCmgNotAnswered(g, b) == <<CHOOSE h \in CMGs : TRUE, b>>

\* The CMG and the blade in the answer.
Answered(g, b) == <<g, b>>

Allocate(t, g, mask, copied) ==
  LET new == {Answered(Cmg(k), Blade(k)) : k \in allocs' \ allocs} IN
  /\ Runs(t)
  /\ AllocateBlade(t, SomeCpu, g, mask)
  /\ IF copied
     THEN /\ known'   = [known EXCEPT ![tgid[t]] = @ \cup new]
          /\ phantom' = [phantom EXCEPT ![tgid[t]] = @ \ new]
          /\ UNCHANGED doubt
     ELSE /\ doubt' = [doubt EXCEPT ![tgid[t]] = @ \cup new]
          /\ UNCHANGED <<known, phantom>>
  /\ WindowsUnchanged
  /\ UNCHANGED <<status, closer>>

\* No blade is free: -ENODEV.
AllocateRefused(t, g) ==
  /\ Runs(t)
  /\ Blades \subseteq bb_active[g]
  /\ AllocateNothing(t, g)
  /\ UNCHANGED <<status, closer, knowledge>>

\* kmalloc() of the allocation fails: the answer names a blade that is still free.
AllocatePhantom(t, g) ==
  /\ Runs(t)
  /\ t \in Masters
  /\ opened[tgid[t]] > 0
  /\ ValidCpumask(PEs(g), g)
  /\ t \in Faulty
  /\ task_list' = task_list \cup RegisteredTaskMap(t)
  /\ \E bit \in Blades :
       /\ IsFirstZeroBit(bit, bb_active[g], MAX_BB_PER_CMG)
       /\ known'   = [known EXCEPT ![tgid[t]] = @ \cup {<<g, bit>>}]
       /\ phantom' = [phantom EXCEPT ![tgid[t]] = @ \cup {<<g, bit>>}]
  /\ UNCHANGED <<opened, active_count, bookkeeping, registers, reset_ipi,
                 status, closer, doubt>>
  /\ WindowsUnchanged

-----------------------------------------------------------------------------
(***************************************************************************)
(* FUJITSU_HWB_IOC_BB_FREE by the master                                   *)
(***************************************************************************)
Free(t, x, copied) ==
  /\ Runs(t)
  /\ FreeByOwner(t, SomeCpu, x[1], x[2])
  /\ IF copied
     THEN Forgets(tgid[t], {x})
     ELSE /\ known' = [known EXCEPT ![tgid[t]] = @ \ {x}]
          /\ doubt' = [doubt EXCEPT ![tgid[t]] = @ \cup {x}]
          /\ windows' = [windows EXCEPT ![tgid[t]] =
                           {e \in @ : <<cmgOf[e[1]], e[2]>> # x}]
          /\ UNCHANGED <<phantom, winDoubt>>
  /\ UNCHANGED <<status, closer>>

\* The group has no such allocation: -EINVAL, from which the caller learns it.
FreeRefused(t, x) ==
  /\ Runs(t)
  /\ t \in Masters
  /\ opened[tgid[t]] > 0
  /\ x \in known[tgid[t]] \cup doubt[tgid[t]]
  /\ x \notin Held(tgid[t])
  /\ Forgets(tgid[t], {x})
  /\ UNCHANGED <<vars, status, closer>>

-----------------------------------------------------------------------------
(***************************************************************************)
(* FUJITSU_HWB_IOC_BW_ASSIGN with -1, FUJITSU_HWB_IOC_BW_UNASSIGN          *)
(***************************************************************************)
Assign(t, c, b, win, copied) ==
  /\ Runs(t)
  /\ \E m \in TaskMap(t) : AssignBlade(t, m, c, b, -1, win)
  /\ IF copied
     THEN /\ windows' = [windows EXCEPT ![tgid[t]] = @ \cup {<<c, b, win>>}]
          /\ UNCHANGED winDoubt
     ELSE /\ winDoubt' = [winDoubt EXCEPT ![tgid[t]] = @ \cup {<<c, b>>}]
          /\ UNCHANGED windows
  /\ BladesUnchanged
  /\ UNCHANGED <<status, closer>>

Unassign(t, c, b, copied) ==
  /\ Runs(t)
  /\ \E m \in TaskMap(t) : UnassignBlade(t, m, c, b)
  /\ windows'  = [windows EXCEPT ![tgid[t]] = {e \in @ : <<e[1], e[2]>> # <<c, b>>}]
  /\ winDoubt' = [winDoubt EXCEPT ![tgid[t]] =
                    IF copied THEN @ \ {<<c, b>>} ELSE @ \cup {<<c, b>>}]
  /\ BladesUnchanged
  /\ UNCHANGED <<status, closer>>

\* Nothing is assigned: an error, from which the caller learns it.
UnassignRefused(t, c, b) ==
  /\ Runs(t)
  /\ opened[tgid[t]] > 0
  /\ <<c, b>> \in winDoubt[tgid[t]]
  /\ ~ \E m \in TaskMap(t) : <<m, cmgOf[c], b>> \in allocs /\ window[<<m, cmgOf[c], b>>][c] \in Windows
  /\ winDoubt' = [winDoubt EXCEPT ![tgid[t]] = @ \ {<<c, b>>}]
  /\ UNCHANGED <<vars, status, closer, known, doubt, phantom, windows>>

-----------------------------------------------------------------------------
(***************************************************************************)
(* The life of a process                                                   *)
(***************************************************************************)
OpenDevice(t) ==
  /\ Runs(t)
  /\ Open(t)
  /\ closer' = [closer EXCEPT ![tgid[t]] = {}]
  /\ UNCHANGED <<status, knowledge>>

\* The process knows what the driver does: a close by the mapping's task drops
\* everything, also when other descriptions are open; one by another task nothing.
CloseDevice(t) ==
  LET p == tgid[t] IN
  /\ status[p] # "gone"
  /\ Close(t, SomeCpu)
  /\ closer' = [closer EXCEPT ![p] = IF opened'[p] = 0 THEN {t} ELSE @]
  /\ IF t \in task_list THEN Forgets(p, Barriers) ELSE UNCHANGED knowledge
  /\ UNCHANGED status

\* The process returns from main() or is killed.
Exit(p) ==
  /\ status[p] = "runs"
  /\ status' = [status EXCEPT ![p] = "exits"]
  /\ Forgets(p, Barriers)
  /\ UNCHANGED <<vars, closer>>

Gone(p) ==
  /\ status[p] = "exits"
  /\ opened[p] = 0
  /\ status' = [status EXCEPT ![p] = "gone"]
  /\ UNCHANGED <<vars, closer, knowledge>>

Start(p) ==
  /\ status[p] = "gone"
  /\ \A m \in task_list : tgid[m] # p
  /\ status' = [status EXCEPT ![p] = "runs"]
  /\ UNCHANGED <<vars, closer, knowledge>>

-----------------------------------------------------------------------------
ClientInit ==
  /\ Init
  /\ status   = [p \in Groups |-> "gone"]
  /\ closer   = [p \in Groups |-> {}]
  /\ known    = [p \in Groups |-> {}]
  /\ doubt    = [p \in Groups |-> {}]
  /\ phantom  = [p \in Groups |-> {}]
  /\ windows  = [p \in Groups |-> {}]
  /\ winDoubt = [p \in Groups |-> {}]

BladeCall(t) ==
  \/ \E g \in CMGs, copied \in Answers(t) : \E mask \in SUBSET CPUs :
       Allocate(t, g, mask, copied)
  \/ \E g \in CMGs : AllocateRefused(t, g)
  \/ \E g \in CMGs : AllocatePhantom(t, g)
  \/ \E x \in Barriers, copied \in Answers(t) : Free(t, x, copied)
  \/ \E x \in Barriers : FreeRefused(t, x)

WindowCall(t) ==
  \/ \E c \in CPUs, b \in Blades, win \in Windows, copied \in Answers(t) :
       Assign(t, c, b, win, copied)
  \/ \E c \in CPUs, b \in Blades, copied \in Answers(t) : Unassign(t, c, b, copied)
  \/ \E c \in CPUs, b \in Blades : UnassignRefused(t, c, b)

ClientNext ==
  \/ \E t \in Threads : \/ BladeCall(t)
                       \/ WindowCall(t)
                       \/ OpenDevice(t)
                       \/ CloseDevice(t)
  \/ \E p \in Groups : Exit(p) \/ Gone(p) \/ Start(p)

ClientSpec == ClientInit /\ [][ClientNext]_clientVars

-----------------------------------------------------------------------------
(***************************************************************************)
(* Properties                                                              *)
(***************************************************************************)
RunningGroups == {p \in Groups : status[p] = "runs"}

\* Answers and bookkeeping agree: a process holds every blade it was told it got
\* unless kmalloc() failed behind the answer, and the driver keeps no blade for
\* it that it was neither told of nor has a lost answer to inquire about: with a
\* retry after every failed call no blade is lost.
BladesAnswered ==
  \A p \in RunningGroups :
    /\ known[p] \subseteq Held(p) \cup phantom[p]
    /\ Held(p) \subseteq known[p] \cup doubt[p]

\* A window a process was told shows the blade it was told for, which the process
\* holds; and a CPU that has a window on a blade of the process is one the process
\* knows about or has a lost answer for.
WindowsAnswered ==
  \A p \in RunningGroups :
    /\ \A e \in windows[p] :
         /\ assign_sync[e[1]][e[3]] = [valid |-> TRUE, blade |-> e[2]]
         /\ <<cmgOf[e[1]], e[2]>> \in Held(p)
    /\ \A k \in allocs : \A c \in assign_mask[k] :
         tgid[Task(k)] = p =>
           \/ <<c, Blade(k), window[k][c]>> \in windows[p]
           \/ <<c, Blade(k)>> \in winDoubt[p]

\* The mappings of processes that have nothing open any more.
Orphaned == {m \in task_list : opened[tgid[m]] = 0}

\* Whenever and with whatever in hand a process of several tasks is killed, and
\* however many descriptions it had: a task mapping outlives its last description
\* only if a task other than the mapping's has closed that one.  When nobody has
\* the device open, every blade and window that is still in use, in the
\* bookkeeping or in the hardware, is one of such a mapping; so where the masters
\* close last, nothing is left of anybody.
NothingOutlives ==
  /\ \A m \in Orphaned : \E t \in Threads \ {m} : closer[tgid[m]] = {t}
  /\ (\A p \in Groups : opened[p] = 0) =>
       /\ active_count = 0
       /\ \A g \in CMGs : \A b \in bb_active[g] :
            \E k \in allocs : Task(k) \in Orphaned /\ Barrier(k) = <<g, b>>
       /\ \A c \in CPUs, w \in Windows :
            w \in bw_map[c] \/ assign_sync[c][w].valid =>
              \E k \in allocs : /\ Task(k) \in Orphaned
                               /\ c \in assign_mask[k] /\ window[k][c] = w

\* ioctl.c:405, on oss_a64fx_hwb_allocate(): "It returns the barrier blade
\* allocated to be used by the user-space library".  A blade that is returned has
\* been allocated.
ReturnedBladeIsAllocated == \A p \in Groups : known[p] \subseteq Held(p)

=============================================================================
