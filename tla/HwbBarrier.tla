----------------------------- MODULE HwbBarrier -----------------------------
(***************************************************************************)
(* The barrier at work: pinned tasks that synchronise through the windows  *)
(* and blades HwbDriver has programmed (README.md, steps 2 to 5), while    *)
(* the same tasks and other processes go on calling the driver.            *)
(*                                                                         *)
(* Synchronising is three accesses to BST_SYNC, without the kernel: read   *)
(* LBSY and invert it (BeginSync), write the result to the own BST bit     *)
(* (Arrive), poll until LBSY equals it (Leave).  LBSY is the hardware's.   *)
(*                                                                         *)
(* The tasks in Syncers run a program that uses the library the way        *)
(* benchmark/barrier_hwb.c does: all CPUs of a barrier run the same number *)
(* of rounds, one barrier at a time; a task does not unassign while others *)
(* wait for it, a blade is freed and the device closed between rounds.     *)
(* With AssignFirst a round begins only once all participants have a       *)
(* window (there, the implicit barrier behind the assigns sees to it).     *)
(*                                                                         *)
(* One call can take a window away from somebody else: the free by a group *)
(* member that is still assigned invalidates window 0 of its CPU           *)
(* (HwbDriver.FreeByGroupMember).  The tasks in Careful never make it so:  *)
(* they free their share of a barrier between rounds and after unassigning *)
(* it, the order of the benchmark.  All other tasks, and all other calls,  *)
(* are under no rule; nobody resets (Resetters is not used here).          *)
(***************************************************************************)
EXTENDS HwbDriver

CONSTANTS
  Syncers,       \* tasks that synchronise
  pin,           \* the CPU a task is pinned to
  Careful,       \* tasks that unassign before they free as a group member
  AssignFirst,   \* whether rounds wait until all participants have a window
  MaxRounds      \* bound: rounds on one allocation

ASSUME SyncAssumption ==
  /\ Syncers \subseteq Threads
  /\ pin \in [Threads -> CPUs]
  /\ Careful \subseteq Threads
  /\ AssignFirst \in BOOLEAN
  /\ MaxRounds \in Nat

VARIABLES
  bst,    \* hardware: the BST bits of every blade
  lbsy,   \* hardware: LBSY of every blade
  sync,   \* where a task is in fhwb_sync(), on which allocation and window
  rounds  \* the rounds a CPU has begun on an allocation

barrier == <<bst, lbsy, sync, rounds>>
barrierVars == <<vars, barrier>>

NoRounds == [c \in CPUs |-> 0]

Outside == [at |-> "out"]

IsInside(t)    == sync[t].at # "out"
Inside(k)      == {t \in Syncers : IsInside(t) /\ sync[t].alloc = k}
GroupAllocs(t) == {k \in allocs : tgid[Task(k)] = tgid[t]}

\* Between two rounds: nobody is in one and nobody has to do one more.
Settled(k) ==
  /\ Inside(k) = {}
  /\ \A c, d \in cpumask[k] : rounds[k][c] = rounds[k][d]

\* Others have begun a round on k that t has not.
IsBehind(t, k) ==
  /\ pin[t] \in cpumask[k]
  /\ \E d \in cpumask[k] : rounds[k][pin[t]] < rounds[k][d]

-----------------------------------------------------------------------------
(***************************************************************************)
(* fhwb_sync() on the window that the allocation k has on the task's CPU   *)
(***************************************************************************)
\* Slip: the value read is not inverted.
SlipNotInverted(read) == read

\* Step 4: "read LBSY, invert it".
Target(read) == 1 - read

BeginSync(t, k) ==
  LET c == pin[t]
      w == window[k][c]
  IN
  /\ t \in Syncers
  /\ ~ IsInside(t)
  /\ k \in GroupAllocs(t)
  /\ c \in assign_mask[k]
  /\ AssignFirst => cpumask[k] \subseteq assign_mask[k]
  /\ rounds[k][c] < MaxRounds
  /\ \A j \in GroupAllocs(t) \ {k} : Settled(j)
  /\ sync' = [sync EXCEPT ![t] =
                [at |-> "read", alloc |-> k, window |-> w,
                 sense |-> Target(LbsyRead(assign_sync[c], w, lbsy[cmgOf[c]]))]]
  /\ rounds' = [rounds EXCEPT ![k][c] = @ + 1]
  /\ UNCHANGED <<vars, bst, lbsy>>

\* Step 4: "write its updated BST bit"; the hardware updates LBSY.
Arrive(t) ==
  LET c    == pin[t]
      g    == cmgOf[c]
      bits == BstWritten(assign_sync[c], sync[t].window, bst[g], c, sync[t].sense)
  IN
  /\ sync[t].at = "read"
  /\ sync' = [sync EXCEPT ![t].at = "wait"]
  /\ bst'  = [bst EXCEPT ![g] = bits]
  /\ lbsy' = [lbsy EXCEPT ![g] = [b \in Blades |->
                LbsyAfter(lbsy[g][b], init_sync[g][b], bits[b])]]
  /\ UNCHANGED <<vars, rounds>>

\* Step 5: the LBSY a waiting task polls has the value it waits for.
Released(t) ==
  LET c == pin[t] IN
  LbsyRead(assign_sync[c], sync[t].window, lbsy[cmgOf[c]]) = sync[t].sense

Leave(t) ==
  /\ sync[t].at = "wait"
  /\ Released(t)
  /\ sync' = [sync EXCEPT ![t] = Outside]
  /\ UNCHANGED <<vars, bst, lbsy, rounds>>

-----------------------------------------------------------------------------
(***************************************************************************)
(* Calls to the driver                                                     *)
(***************************************************************************)
\* write_init_sync_bb() writes the whole register: the BST bits and LBSY of a
\* blade it is called for become 0.
IsRewritten(g, b) ==
  \E k \in allocs' : /\ Cmg(k) = g /\ Blade(k) = b
                     /\ k \notin allocs \/ cpumask'[k] # cpumask[k]

HardwareFollows ==
  /\ bst'  = [g \in CMGs |-> [b \in Blades |-> IF IsRewritten(g, b) THEN {} ELSE bst[g][b]]]
  /\ lbsy' = [g \in CMGs |-> [b \in Blades |-> IF IsRewritten(g, b) THEN 0 ELSE lbsy[g][b]]]
  /\ rounds' = [k \in Keys |-> IF k \in allocs \cap allocs' THEN rounds[k] ELSE NoRounds]
  /\ UNCHANGED sync

\* fhwb_assign(), with -1 or with a window number.
Assign(t, k) ==
  /\ ~ IsInside(t)
  /\ \E arg \in WindowArgs, win \in Windows :
       AssignBlade(t, Task(k), pin[t], Blade(k), arg, win)
  /\ HardwareFollows

\* fhwb_unassign().
Unassign(t, k) ==
  /\ ~ IsInside(t)
  /\ k \in allocs /\ Cmg(k) = cmgOf[pin[t]]
  /\ ~ IsBehind(t, k)
  /\ UnassignBlade(t, Task(k), pin[t], Blade(k))
  /\ HardwareFollows

\* fhwb_init(), and open() before it.
Initialise(t) ==
  /\ ~ IsInside(t)
  /\ \/ Open(t)
     \/ \E g \in CMGs : \/ \E mask \in SUBSET CPUs : AllocateBlade(t, pin[t], g, mask)
                        \/ AllocateNothing(t, g)
  /\ HardwareFollows

\* fhwb_fini(), by the task that owns the mapping or by another of the group.
Finish(t, k) ==
  /\ ~ IsInside(t)
  /\ k \in GroupAllocs(t)
  /\ \/ /\ Settled(k)
        /\ FreeByOwner(t, pin[t], Cmg(k), Blade(k))
     \/ /\ t \in Careful => Settled(k) /\ pin[t] \notin assign_mask[k]
        /\ FreeByGroupMember(t, Task(k), pin[t], Cmg(k), Blade(k))
  /\ HardwareFollows

CloseDevice(t) ==
  /\ ~ IsInside(t)
  /\ t \in Syncers => \A k \in GroupAllocs(t) : assign_mask[k] = {}
  /\ Close(t, pin[t])
  /\ HardwareFollows

-----------------------------------------------------------------------------
BarrierInit ==
  /\ Init
  /\ bst    = [g \in CMGs |-> [b \in Blades |-> {}]]
  /\ lbsy   = [g \in CMGs |-> [b \in Blades |-> 0]]
  /\ sync   = [t \in Threads |-> Outside]
  /\ rounds = [k \in Keys |-> NoRounds]

BarrierNext ==
  \E t \in Threads :
    \/ \E k \in allocs : BeginSync(t, k)
    \/ Arrive(t)
    \/ Leave(t)
    \/ Initialise(t)
    \/ \E k \in allocs : Assign(t, k) \/ Unassign(t, k) \/ Finish(t, k)
    \/ CloseDevice(t)

BarrierSpec == BarrierInit /\ [][BarrierNext]_barrierVars

(***************************************************************************)
(* The program goes on: a task in fhwb_sync() keeps executing, and a CPU   *)
(* that owes a round to the others joins.  Nothing is assumed of rounds    *)
(* nobody has begun, nor of any call to the driver.                        *)
(***************************************************************************)
FairBarrierSpec ==
  /\ BarrierSpec
  /\ \A t \in Syncers :
       /\ WF_barrierVars(Arrive(t))
       /\ WF_barrierVars(Leave(t))
       /\ WF_barrierVars(\E k \in allocs : IsBehind(t, k) /\ BeginSync(t, k))

-----------------------------------------------------------------------------
(***************************************************************************)
(* Properties                                                              *)
(***************************************************************************)
\* The rounds CPU c has arrived at, and those it has left again.
RunsOn(c, k) == {t \in Inside(k) : pin[t] = c}
ArrivedAt(c, k) ==
  IF \E t \in RunsOn(c, k) : sync[t].at = "read" THEN rounds[k][c] - 1 ELSE rounds[k][c]
HasLeft(c, k) == IF RunsOn(c, k) = {} THEN rounds[k][c] ELSE rounds[k][c] - 1

\* The barrier separates rounds: nobody leaves a round before every participant
\* has arrived at it, although the next round may begin before the last poll of
\* this one, the blade has served others before, and processes with windows on
\* the same CPU come and go.
RoundSafety ==
  \A k \in allocs : \A c, d \in cpumask[k] : HasLeft(c, k) <= ArrivedAt(d, k)

\* It does not happen that all participants of a barrier wait and none is
\* released: the BST bits they have written are not lost under them
\* (write_init_sync_bb clears them).
NotAllStuck ==
  \A k \in allocs :
    (\A c \in cpumask[k] : \E t \in RunsOn(c, k) : sync[t].at = "wait")
      => \E t \in Inside(k) : Released(t)

\* While a task synchronises, the window number it was given shows it the blade
\* of its own barrier, although other processes assign, unassign, free and close
\* on its CPU meanwhile, and although group members elsewhere free shares they are
\* still assigned to.  (Such a free on the task's own CPU may take its window away,
\* ioctl.c:566-577: the tasks of that CPU have to be in Careful.)
SyncThroughOwnBlade ==
  \A k \in allocs : \A t \in Inside(k) :
    assign_sync[pin[t]][sync[t].window] = [valid |-> TRUE, blade |-> Blade(k)]

\* Nobody waits for ever, once all participants had a window before the first of
\* them began (AssignFirst): what other processes do with the windows that are
\* left, or have run out, does not keep the missing CPU from joining.
WaitersLeave == \A t \in Syncers : sync[t].at = "wait" ~> sync[t].at = "out"

=============================================================================
