-------------------------- MODULE HwbBarrierProofs ---------------------------
(***************************************************************************)
(* Proofs about barriers at work, for every number of tasks, processes,    *)
(* CPUs, blades, windows and rounds.  The processes that synchronise keep  *)
(* to the program HwbBarrier describes, with at most one task of a process *)
(* on a CPU, and whoever shares a CPU with one of their tasks unassigns    *)
(* before it frees as a group member.  All others call the driver as they  *)
(* like, also to free a share they are assigned to (and to take window 0   *)
(* of their CPU away by that), and with any window numbers.                *)
(*                                                                         *)
(* The rounds of an allocation are kept apart by a number n: the rounds    *)
(* all of its CPUs have arrived at.  Every CPU has arrived at n or n + 1,  *)
(* at least one at n only, none has left more than n, and the BST bits and *)
(* LBSY say which CPU is where.                                            *)
(***************************************************************************)
EXTENDS HwbBarrier, HwbLibraryProofs

SyncPattern ==
  /\ \A t \in Syncers, u \in Threads :
       tgid[u] = tgid[t] => u \in Syncers /\ (pin[u] = pin[t] => u = t)
  /\ \A t \in Syncers, u \in Threads : pin[u] = pin[t] => u \in Careful

\* The CPUs on which somebody synchronises.
SyncCpus == {pin[t] : t \in Syncers}

-----------------------------------------------------------------------------
(***************************************************************************)
(* Calls to the driver                                                     *)
(***************************************************************************)
DriverCall(t) ==
  \/ Initialise(t)
  \/ \E k \in allocs : Assign(t, k) \/ Unassign(t, k) \/ Finish(t, k)
  \/ CloseDevice(t)

\* All of them are calls HwbDriver knows.
LEMMA CallIsClientStep ==
  ASSUME TypeOK, NEW t \in Threads, DriverCall(t)
  PROVE  ClientStep(t) /\ HardwareFollows /\ ~ IsInside(t)
<1>1. pin[t] \in CPUs
  BY SyncAssumption
<1>2. \A k \in allocs : Task(k) \in Threads /\ Cmg(k) \in CMGs /\ Blade(k) \in Blades
  BY KeyFacts DEF TypeOK
<1>3. CASE Initialise(t)
  BY <1>1, <1>3 DEF Initialise, ClientStep
<1>4. ASSUME NEW k \in allocs, Assign(t, k)
      PROVE  ClientStep(t) /\ HardwareFollows /\ ~ IsInside(t)
  BY <1>1, <1>2, <1>4 DEF Assign, ClientStep
<1>5. ASSUME NEW k \in allocs, Unassign(t, k)
      PROVE  ClientStep(t) /\ HardwareFollows /\ ~ IsInside(t)
  BY <1>1, <1>2, <1>5 DEF Unassign, ClientStep
<1>6. ASSUME NEW k \in allocs, Finish(t, k)
      PROVE  ClientStep(t) /\ HardwareFollows /\ ~ IsInside(t)
  BY <1>1, <1>2, <1>6 DEF Finish, ClientStep
<1>7. CASE CloseDevice(t)
  BY <1>1, <1>7 DEF CloseDevice, ClientStep
<1> QED
  BY <1>3, <1>4, <1>5, <1>6, <1>7 DEF DriverCall

\* Synchronising is not a call.
SyncStep(t) == (\E k \in allocs : BeginSync(t, k)) \/ Arrive(t) \/ Leave(t)

LEMMA NextIsStep ==
  ASSUME TypeOK, [BarrierNext]_barrierVars
  PROVE  \/ UNCHANGED barrierVars
         \/ \E t \in Threads : SyncStep(t) \/ DriverCall(t)
BY DEF BarrierNext, SyncStep, DriverCall

LEMMA DriverStep ==
  ASSUME TypeOK, [BarrierNext]_barrierVars
  PROVE  [Next]_vars
<1>1. ASSUME NEW t \in Threads, SyncStep(t) PROVE UNCHANGED vars
  BY <1>1 DEF SyncStep, BeginSync, Arrive, Leave
<1>2. ASSUME NEW t \in Threads, DriverCall(t) PROVE Next
  BY <1>2, CallIsClientStep DEF Next
<1>3. CASE UNCHANGED barrierVars
  BY <1>3 DEF barrierVars
<1> QED
  BY <1>1, <1>2, <1>3, NextIsStep

LEMMA BarrierOwnership == BarrierSpec => []Ownership
<1>1. BarrierInit => Ownership
  BY InitOwnership DEF BarrierInit
<1>2. Ownership /\ [BarrierNext]_barrierVars => Ownership'
  BY DriverStep, NextOwnership DEF Ownership
<1> QED
  BY <1>1, <1>2, PTL DEF BarrierSpec

\* Programs that synchronise are clients of the driver like all others: whatever
\* is proved of HwbDriver holds while barriers are at work.
THEOREM BarrierUsesDriver == BarrierSpec => Spec
<1>1. BarrierInit => Init
  BY DEF BarrierInit
<1>2. Ownership /\ [BarrierNext]_barrierVars => [Next]_vars
  BY DriverStep DEF Ownership
<1> QED
  BY <1>1, <1>2, BarrierOwnership, PTL DEF BarrierSpec, Spec

-----------------------------------------------------------------------------
(***************************************************************************)
(* What a call may do to the barriers                                      *)
(***************************************************************************)
\* Allocation k gets a free window, whether or not it has one on the CPU.
GivenStep(k, c, win) == Assigned(k, c, win) /\ WindowSet(c, win, Blade(k))

\* A group member leaves, or is the last to leave; if it takes a window away it
\* is not one of a CPU on which somebody synchronises.
MemberStep(k, c) ==
  /\ Left(k, c) \/ Freed({k})
  /\ \A d \in SyncCpus : assign_sync'[d] = assign_sync[d]

\* Only allocations nobody synchronises on are freed or left.
CallShape(t) ==
  \/ QuietStep
  \/ \E K \in SUBSET allocs : FreedStep(K) /\ \A k \in K : Own(t, k) /\ Inside(k) = {}
  \/ \E k \in Keys, mask \in SUBSET CPUs : AllocatedStep(k, mask)
  \/ \E k \in allocs :
       /\ Own(t, k)
       /\ \/ UnassignedStep(k, pin[t])
          \/ \E win \in Windows : GivenStep(k, pin[t], win)
          \/ MemberStep(k, pin[t]) /\ Settled(k)

LEMMA GivenShape ==
  ASSUME TypeOK, NEW t \in Threads, NEW m \in Threads, NEW c \in CPUs,
         NEW b \in Blades, NEW arg, NEW win \in Windows,
         AssignBlade(t, m, c, b, arg, win)
  PROVE  LET k == <<m, cmgOf[c], b>> IN
         k \in allocs /\ Own(t, k) /\ GivenStep(k, c, win)
<1> DEFINE k == <<m, cmgOf[c], b>>
<1>1. k \in allocs /\ Own(t, k) /\ Blade(k) = b
  BY KeyFacts, TopologyAssumption DEF AssignBlade, TaskMap, Own
<1>2. Assigned(k, c, win)
  BY AssignBladeAssigned
<1>3. WindowSet(c, win, b)
  BY DEF AssignBlade, WindowSet
<1> HIDE DEF k
<1>4. k \in allocs /\ Own(t, k) /\ GivenStep(k, c, win)
  BY <1>1, <1>2, <1>3 DEF GivenStep
<1> QED
  BY <1>4 DEF k

\* A free by a group member writes a window register only on its own CPU, and only
\* if it is assigned.
LEMMA FreeByMemberShape ==
  ASSUME TypeOK, BladeProgrammed, NEW t \in Threads, NEW m \in Threads, NEW c \in CPUs,
         NEW g \in CMGs, NEW b \in Blades, FreeByGroupMember(t, m, c, g, b)
  PROVE  /\ Left(<<m, g, b>>, c) \/ Freed({<<m, g, b>>})
         /\ \A d \in CPUs : d # c \/ c \notin assign_mask[<<m, g, b>>] =>
                             assign_sync'[d] = assign_sync[d]
<1> DEFINE k  == <<m, g, b>>
           assigned == c \in assign_mask[k]
           am == [assign_mask EXCEPT ![k] = @ \ {c}]
           ac == [assign_count EXCEPT ![k] = CountWithout(k, c)]
           bm == [bw_map EXCEPT ![c] = IF assigned THEN @ \ {window[k][c]} ELSE @]
           as == [assign_sync EXCEPT ![c] =
                    IF assigned THEN AssignSyncWritten(@, 0, FALSE, 0) ELSE @]
<1>1. Left(k, c) \/ Freed({k})
  BY LastMemberFreed, MemberLeft
<1>2. k \in Keys /\ k \in allocs
  BY KeyFacts DEF FreeByGroupMember
<1>3. \A d \in CPUs : d # c \/ ~ assigned => as[d] = assign_sync[d]
  BY DEF TypeOK
<1>4. CASE RemainingCpus(k, c) # {}
  <2>1. assign_sync' = as
    BY <1>4 DEF FreeByGroupMember
  <2> QED
    BY <1>1, <1>3, <2>1
<1>5. CASE RemainingCpus(k, c) = {}
  <2>1. FreeAllocations({k}, am, ac, bm, as)
    BY <1>5 DEF FreeByGroupMember
  <2>2. am[k] = {}
    BY <1>2, <1>5 DEF RemainingCpus, BladeProgrammed, TypeOK
  <2> HIDE DEF k, am, ac, bm, as
  <2>3. \A d \in CPUs : FreedWindows({k}, am, ac, d) = {}
    BY <2>2 DEF FreedWindows
  <2>4. \A d \in CPUs : assign_sync'[d] = [w \in Windows |-> as[d][w]]
    BY <2>1, <2>3 DEF FreeAllocations
  <2>5. \A d \in CPUs : assign_sync[d] = [w \in Windows |-> assign_sync[d][w]]
    BY DEF TypeOK
  <2>6. \A d \in CPUs : d # c \/ ~ assigned => assign_sync'[d] = assign_sync[d]
    BY <1>3, <2>4, <2>5
  <2> QED
    BY <1>1, <2>6 DEF k
<1>6. /\ Left(k, c) \/ Freed({k})
      /\ \A d \in CPUs : d # c \/ c \notin assign_mask[k] => assign_sync'[d] = assign_sync[d]
  BY <1>4, <1>5
<1> QED
  BY <1>6

-----------------------------------------------------------------------------
(***************************************************************************)
(* Where tasks are                                                         *)
(***************************************************************************)
Place ==
  [at : {"out"}] \cup
  [at : {"read", "wait"}, alloc : Keys, window : Windows, sense : {0, 1}]

SyncTypeOK ==
  /\ bst    \in [CMGs -> [Blades -> SUBSET CPUs]]
  /\ lbsy   \in [CMGs -> [Blades -> {0, 1}]]
  /\ sync   \in [Threads -> Place]
  /\ rounds \in [Keys -> [CPUs -> Nat]]

\* A task inside synchronises on an allocation of its group, through the window
\* the allocation has on its CPU.
WellPlaced(t) ==
  IsInside(t) =>
    LET k == sync[t].alloc IN
    /\ t \in Syncers
    /\ k \in allocs
    /\ tgid[Task(k)] = tgid[t]
    /\ pin[t] \in assign_mask[k]
    /\ sync[t].window = window[k][pin[t]]

Places == \A t \in Threads : WellPlaced(t)

\* Processes without tasks that synchronise begin no rounds.
Idle ==
  \A k \in allocs : (\A u \in Syncers : tgid[u] # tgid[Task(k)]) => rounds[k] = NoRounds

LEMMA OutsiderSettled ==
  ASSUME SyncPattern, TypeOK, Places, Idle, NEW t \in Threads \ Syncers,
         NEW k \in allocs, Own(t, k)
  PROVE  Settled(k)
<1>1. \A u \in Syncers : tgid[u] # tgid[Task(k)]
  BY DEF SyncPattern, Own
<1>2. Inside(k) = {}
  BY <1>1, SyncAssumption DEF Inside, Places, WellPlaced
<1>3. rounds[k] = NoRounds /\ cpumask[k] \subseteq CPUs
  BY <1>1 DEF Idle, TypeOK
<1> QED
  BY <1>2, <1>3 DEF Settled, NoRounds

LEMMA DriverCallShape ==
  ASSUME SyncPattern, Ownership, Places, Idle, NEW t \in Threads, DriverCall(t)
  PROVE  CallShape(t)
<1>1. TypeOK /\ WindowOwnership /\ BladeOwnership /\ BladeProgrammed /\ pin[t] \in CPUs
  BY SyncAssumption DEF Ownership
<1>2. \A k \in allocs : /\ k \in Keys /\ k = <<Task(k), Cmg(k), Blade(k)>>
                        /\ Task(k) \in Threads /\ Cmg(k) \in CMGs /\ Blade(k) \in Blades
  BY <1>1, KeyFacts DEF TypeOK
<1>3. ASSUME NEW K \in SUBSET allocs, FreedStep(K), \A k \in K : Own(t, k) /\ Inside(k) = {}
      PROVE  CallShape(t)
  BY <1>3 DEF CallShape
<1>5. CASE Initialise(t)
  <2>1. CASE Open(t) \/ \E g \in CMGs : AllocateNothing(t, g)
    BY <2>1, QuietShape DEF CallShape
  <2>2. ASSUME NEW g \in CMGs, NEW mask \in SUBSET CPUs, AllocateBlade(t, pin[t], g, mask)
        PROVE  CallShape(t)
    <3>1. PICK k \in Keys : AllocatedStep(k, mask)
      BY <1>1, <2>2, AllocateShape
    <3> QED
      BY <3>1 DEF CallShape
  <2> QED
    BY <1>5, <2>1, <2>2 DEF Initialise
<1>6. ASSUME NEW k \in allocs, Assign(t, k) PROVE CallShape(t)
  <2>1. PICK arg \in WindowArgs, win \in Windows :
               AssignBlade(t, Task(k), pin[t], Blade(k), arg, win)
    BY <1>6 DEF Assign
  <2> DEFINE j == <<Task(k), cmgOf[pin[t]], Blade(k)>>
  <2>2. j \in allocs /\ Own(t, j) /\ GivenStep(j, pin[t], win)
    BY <1>1, <1>2, <2>1, GivenShape
  <2> HIDE DEF j
  <2> QED
    BY <2>2 DEF CallShape
<1>7. ASSUME NEW k \in allocs, Unassign(t, k) PROVE CallShape(t)
  <2>1. UnassignBlade(t, Task(k), pin[t], Blade(k))
    BY <1>7 DEF Unassign
  <2> DEFINE j == <<Task(k), cmgOf[pin[t]], Blade(k)>>
  <2>2. j \in allocs /\ Own(t, j) /\ UnassignedStep(j, pin[t])
    BY <1>1, <1>2, <2>1, UnassignShape
  <2> HIDE DEF j
  <2> QED
    BY <2>2 DEF CallShape
<1>8. ASSUME NEW k \in allocs, Finish(t, k) PROVE CallShape(t)
  <2>1. CASE Settled(k) /\ FreeByOwner(t, pin[t], Cmg(k), Blade(k))
    <3> DEFINE j == <<t, Cmg(k), Blade(k)>>
    <3>1. j \in allocs /\ Own(t, j) /\ FreedStep({j}) /\ Cmg(j) = Cmg(k) /\ Blade(j) = Blade(k)
      BY <1>1, <1>2, <2>1, FreeByOwnerShape, KeyFacts
    <3> HIDE DEF j
    <3>2. j = k
      BY <1>1, <3>1 DEF BladeOwnership
    <3> QED
      BY <1>3, <2>1, <3>1, <3>2 DEF Settled
  <2>2. CASE /\ t \in Careful => Settled(k) /\ pin[t] \notin assign_mask[k]
             /\ FreeByGroupMember(t, Task(k), pin[t], Cmg(k), Blade(k))
    <3>1. Own(t, k)
      BY <1>8 DEF Finish, GroupAllocs, Own
    <3>2. Settled(k)
      <4>1. CASE t \notin Careful
        <5>1. t \notin Syncers
          BY <4>1 DEF SyncPattern
        <5> QED
          BY <1>1, <3>1, <5>1, OutsiderSettled
      <4> QED
        BY <2>2, <4>1
    <3> DEFINE MemberFacts(j) ==
          /\ Left(j, pin[t]) \/ Freed({j})
          /\ \A d \in CPUs : d # pin[t] \/ pin[t] \notin assign_mask[j] =>
                              assign_sync'[d] = assign_sync[d]
    <3>3. MemberFacts(k)
      <4>1. PICK m \in Threads, g \in CMGs, b \in Blades :
               k = <<m, g, b>> /\ FreeByGroupMember(t, m, pin[t], g, b)
        BY <1>2, <2>2
      <4>2. MemberFacts(<<m, g, b>>)
        BY <1>1, <4>1, FreeByMemberShape
      <4> QED
        BY <4>1, <4>2
    <3>4. \A d \in SyncCpus : d \in CPUs /\ (d # pin[t] \/ pin[t] \notin assign_mask[k])
      BY <2>2, SyncAssumption DEF SyncPattern, SyncCpus
    <3> QED
      BY <3>1, <3>2, <3>3, <3>4 DEF MemberStep, CallShape, MemberFacts
  <2> QED
    BY <1>8, <2>1, <2>2 DEF Finish
<1>9. CASE CloseDevice(t)
  <2>1. ASSUME NEW k \in Allocations(t), NEW u \in Inside(k) PROVE FALSE
    <3>1. /\ u \in Syncers /\ u \in Threads /\ sync[u].alloc = k /\ IsInside(u)
          /\ Task(k) = t /\ k \in allocs
      BY <2>1, SyncAssumption DEF Inside, Allocations
    <3>2. tgid[t] = tgid[u] /\ pin[u] \in assign_mask[k]
      BY <3>1 DEF Places, WellPlaced
    <3>3. t \in Syncers /\ k \in GroupAllocs(t)
      BY <3>1, <3>2 DEF SyncPattern, GroupAllocs
    <3> QED
      BY <1>9, <3>2, <3>3 DEF CloseDevice
  <2>2. Close(t, pin[t])
    BY <1>9 DEF CloseDevice
  <2>3. CASE QuietStep
    BY <2>3 DEF CallShape
  <2> QED
    BY <1>1, <1>3, <2>1, <2>2, <2>3, CloseShape
<1> QED
  BY <1>5, <1>6, <1>7, <1>8, <1>9 DEF DriverCall

\* Where somebody synchronises, the registers follow the bookkeeping.
SyncInHardware == \A k \in allocs, c \in SyncCpus : InHardware(k, c)

LEMMA CallInHardware ==
  ASSUME Ownership, SyncInHardware, NEW t \in Threads, CallShape(t)
  PROVE  SyncInHardware'
<1>1. /\ TypeOK /\ BladeOwnership /\ WindowOwnership /\ SyncCpus \subseteq CPUs
      /\ \A k \in allocs : k \in Keys /\ Blade(k) \in Blades
  BY SyncAssumption, KeyFacts DEF Ownership, TypeOK, SyncCpus
<1>2. SUFFICES ASSUME NEW k \in allocs', NEW c \in SyncCpus, c \in assign_mask'[k]
               PROVE  assign_sync'[c][window'[k][c]] = [valid |-> TRUE, blade |-> Blade(k)]
  BY DEF SyncInHardware, InHardware
<1>3. c \in CPUs
  BY <1>1
<1>4. ASSUME k \in allocs, c \in assign_mask[k], window'[k][c] = window[k][c],
             assign_sync'[c][window[k][c]] = assign_sync[c][window[k][c]]
      PROVE  assign_sync'[c][window'[k][c]] = [valid |-> TRUE, blade |-> Blade(k)]
  BY <1>2, <1>4 DEF SyncInHardware, InHardware
<1>5. CASE QuietStep
  BY <1>2, <1>4, <1>5 DEF QuietStep, Untouched
<1>6. ASSUME NEW K \in SUBSET allocs, FreedStep(K)
      PROVE  assign_sync'[c][window'[k][c]] = [valid |-> TRUE, blade |-> Blade(k)]
  <2>1. k \in allocs \ K /\ c \in assign_mask[k] /\ window'[k] = window[k]
    BY <1>2, <1>6 DEF FreedStep, Freed
  <2>2. window[k][c] \in Windows
    BY <1>1, <1>3, <2>1, WindowFacts
  <2>3. window[k][c] \notin FreedWindows(K, assign_mask, assign_count, c)
    BY <1>1, <1>3, <2>1, OtherWindowsKept
  <2>4. assign_sync'[c][window[k][c]] = assign_sync[c][window[k][c]]
    BY <1>3, <1>6, <2>2, <2>3 DEF FreedStep, WindowsOfFreed
  <2> QED
    BY <1>4, <2>1, <2>4
<1>7. ASSUME NEW j \in Keys, NEW mask \in SUBSET CPUs, AllocatedStep(j, mask)
      PROVE  assign_sync'[c][window'[k][c]] = [valid |-> TRUE, blade |-> Blade(k)]
  <2>1. k # j /\ k \in allocs
    BY <1>2, <1>7 DEF AllocatedStep, Allocated
  <2>2. assign_mask'[k] = assign_mask[k] /\ window'[k] = window[k]
    BY <1>1, <1>7, <2>1 DEF AllocatedStep, Allocated, OthersKept
  <2> QED
    BY <1>2, <1>4, <1>7, <2>1, <2>2 DEF AllocatedStep
<1>8. ASSUME NEW j \in allocs, NEW d \in CPUs, NEW win \in Windows, GivenStep(j, d, win)
      PROVE  assign_sync'[c][window'[k][c]] = [valid |-> TRUE, blade |-> Blade(k)]
  <2>1. /\ WindowSet(d, win, Blade(j)) /\ Blade(j) \in Blades
        /\ Assigned(j, d, win) /\ OnlyOn(j, d) /\ k \in allocs
    BY <1>1, <1>2, <1>8 DEF GivenStep, Assigned, OnlyOn
  <2>2. CASE k = j /\ c = d
    BY <1>1, <2>1, <2>2, WindowSetFacts DEF Assigned
  <2>3. CASE k # j \/ c # d
    <3>1. c \in assign_mask[k] /\ window'[k][c] = window[k][c]
      BY <1>1, <1>2, <1>3, <2>1, <2>3 DEF Assigned, OnlyOn, OthersKept
    <3>2. window[k][c] \in bw_map[c] /\ window[k][c] \in Windows
      BY <1>1, <1>3, <2>1, <3>1, WindowFacts
    <3>3. c = d => window[k][c] # win
      BY <2>1, <3>2 DEF Assigned
    <3>4. assign_sync'[c][window[k][c]] = assign_sync[c][window[k][c]]
      <4>1. /\ \A w \in Windows \ {win} : assign_sync'[d][w] = assign_sync[d][w]
            /\ \A e \in CPUs \ {d} : assign_sync'[e] = assign_sync[e]
        BY <1>1, <2>1, WindowSetFacts
      <4> QED
        BY <1>3, <3>2, <3>3, <4>1
    <3> QED
      BY <1>4, <2>1, <3>1, <3>4
  <2> QED
    BY <2>2, <2>3
<1>9. ASSUME NEW j \in allocs, NEW d \in CPUs, UnassignedStep(j, d)
      PROVE  assign_sync'[c][window'[k][c]] = [valid |-> TRUE, blade |-> Blade(k)]
  <2>1. /\ WindowCleared(d, window[j][d]) /\ window[j][d] \in Windows
        /\ d \in assign_mask[j]
        /\ Unassigned(j, d) /\ OnlyOn(j, d) /\ k \in allocs
    BY <1>1, <1>2, <1>9 DEF UnassignedStep, Unassigned, OnlyOn
  <2>2. ~ (k = j /\ c = d)
    BY <1>2, <2>1 DEF Unassigned
  <2>3. c \in assign_mask[k] /\ window'[k][c] = window[k][c]
    BY <1>1, <1>2, <1>3, <2>1, <2>2 DEF Unassigned, OnlyOn, OthersKept
  <2>4. window[k][c] \in Windows
    BY <1>1, <1>3, <2>1, <2>3, WindowFacts
  <2>5. c = d => window[k][c] # window[j][d]
    BY <1>1, <2>1, <2>2, <2>3 DEF WindowOwnership
  <2>6. assign_sync'[c][window[k][c]] = assign_sync[c][window[k][c]]
    BY <1>1, <1>3, <2>1, <2>4, <2>5, WindowClearedFacts
  <2> QED
    BY <1>4, <2>1, <2>3, <2>6
<1>10. ASSUME NEW j \in allocs, NEW d \in CPUs, MemberStep(j, d)
       PROVE  assign_sync'[c][window'[k][c]] = [valid |-> TRUE, blade |-> Blade(k)]
  <2>1. assign_sync'[c] = assign_sync[c]
    BY <1>10 DEF MemberStep
  <2>2. k \in allocs /\ c \in assign_mask[k] /\ window'[k][c] = window[k][c]
    <3>1. CASE Freed({j})
      BY <1>2, <3>1 DEF Freed
    <3>2. CASE Left(j, d)
      <4>1. k \in allocs /\ (k # j => assign_mask'[k] = assign_mask[k] /\ window'[k] = window[k])
        BY <1>1, <1>2, <3>2 DEF Left, OnlyOn, OthersKept
      <4>2. CASE k = j
        BY <1>2, <1>3, <3>2, <4>1, <4>2 DEF Left, OnlyOn
      <4> QED
        BY <1>2, <4>1, <4>2
    <3> QED
      BY <1>10, <3>1, <3>2 DEF MemberStep
  <2> QED
    BY <1>4, <2>1, <2>2
<1> QED
  BY <1>5, <1>6, <1>7, <1>8, <1>9, <1>10, SyncAssumption DEF CallShape

\* Whoever synchronises keeps allocation and window, and participants only
\* leave between rounds.
LEMMA CallKeeps ==
  ASSUME SyncPattern, Ownership, Places, NEW t \in Threads, ~ IsInside(t), CallShape(t)
  PROVE  /\ \A k \in allocs \cap allocs' :
              \/ cpumask'[k] = cpumask[k]
              \/ Settled(k) /\ cpumask'[k] \subseteq cpumask[k]
         /\ \A u \in Threads : IsInside(u) =>
              LET k == sync[u].alloc IN
              /\ k \in allocs'
              /\ pin[u] \in assign_mask'[k]
              /\ window'[k][pin[u]] = window[k][pin[u]]
<1>1. TypeOK /\ \A k \in allocs : k \in Keys
  BY DEF Ownership, TypeOK
<1> DEFINE Kept(k) == cpumask'[k] = cpumask[k] \/ (Settled(k) /\ cpumask'[k] \subseteq cpumask[k])
           Stays(u, k) == /\ k \in allocs'
                          /\ pin[u] \in assign_mask'[k]
                          /\ window'[k][pin[u]] = window[k][pin[u]]
<1>2. SUFFICES /\ \A k \in allocs \cap allocs' : Kept(k)
               /\ \A u \in Syncers, k \in allocs :
                    IsInside(u) /\ sync[u].alloc = k /\ WellPlaced(u) => Stays(u, k)
  BY DEF Places, WellPlaced
<1>3. CASE QuietStep
  BY <1>3 DEF QuietStep, Untouched, WellPlaced
<1>4. ASSUME NEW K \in SUBSET allocs, Freed(K), \A k \in K : Inside(k) = {}
      PROVE  /\ \A k \in allocs \cap allocs' : Kept(k)
             /\ \A u \in Syncers, k \in allocs :
                  IsInside(u) /\ sync[u].alloc = k /\ WellPlaced(u) => Stays(u, k)
  BY <1>4 DEF Freed, Inside, WellPlaced
<1>5. ASSUME NEW j \in Keys, NEW mask, AllocatedStep(j, mask)
      PROVE  /\ \A k \in allocs \cap allocs' : Kept(k)
             /\ \A u \in Syncers, k \in allocs :
                  IsInside(u) /\ sync[u].alloc = k /\ WellPlaced(u) => Stays(u, k)
  <2>1. j \notin allocs
    BY <1>5 DEF AllocatedStep, Allocated, Ownership, BladeOwnership
  <2> QED
    BY <1>1, <1>5, <2>1 DEF AllocatedStep, Allocated, OthersKept, WellPlaced
<1>6. ASSUME NEW j \in allocs, NEW c \in CPUs, OnlyOn(j, c), Kept(j),
             \A d \in CPUs \ {c} : d \in assign_mask[j] => d \in assign_mask'[j],
             \A u \in Inside(j) : pin[u] # c
      PROVE  /\ \A k \in allocs \cap allocs' : Kept(k)
             /\ \A u \in Syncers, k \in allocs :
                  IsInside(u) /\ sync[u].alloc = k /\ WellPlaced(u) => Stays(u, k)
  <2>1. allocs' = allocs
    BY <1>6 DEF OnlyOn
  <2>2. ASSUME NEW k \in allocs, k # j
        PROVE  Kept(k) /\ assign_mask'[k] = assign_mask[k] /\ window'[k] = window[k]
    BY <1>1, <1>6, <2>2 DEF OnlyOn, OthersKept
  <2>3. ASSUME NEW u \in Syncers, IsInside(u), sync[u].alloc = j, WellPlaced(u)
        PROVE  Stays(u, j)
    <3>1. pin[u] \in CPUs \ {c} /\ pin[u] \in assign_mask[j]
      BY <1>6, <2>3, SyncAssumption DEF Inside, WellPlaced
    <3> QED
      BY <1>6, <2>1, <3>1 DEF OnlyOn
  <2> HIDE DEF Kept
  <2> QED
    BY <1>6, <2>1, <2>2, <2>3 DEF WellPlaced
<1>7. ASSUME NEW j \in allocs, Own(t, j), NEW u \in Inside(j)
      PROVE  pin[u] # pin[t]
  <2>1. u \in Syncers /\ u \in Threads /\ IsInside(u) /\ sync[u].alloc = j
    BY <1>7, SyncAssumption DEF Inside
  <2>2. tgid[u] = tgid[t]
    BY <1>7, <2>1 DEF Own, Places, WellPlaced
  <2> QED
    BY <2>1, <2>2 DEF SyncPattern
<1>8. ASSUME NEW j \in allocs, Own(t, j), NEW win \in Windows, GivenStep(j, pin[t], win)
      PROVE  /\ \A k \in allocs \cap allocs' : Kept(k)
             /\ \A u \in Syncers, k \in allocs :
                  IsInside(u) /\ sync[u].alloc = k /\ WellPlaced(u) => Stays(u, k)
  <2>1. /\ OnlyOn(j, pin[t]) /\ cpumask'[j] = cpumask[j]
        /\ assign_mask'[j] = assign_mask[j] \cup {pin[t]}
    BY <1>8 DEF GivenStep, Assigned
  <2>2. \A u \in Inside(j) : pin[u] # pin[t]
    BY <1>7, <1>8
  <2> QED
    BY <1>6, <2>1, <2>2, SyncAssumption
<1>9. ASSUME NEW j \in allocs, Own(t, j), UnassignedStep(j, pin[t])
      PROVE  /\ \A k \in allocs \cap allocs' : Kept(k)
             /\ \A u \in Syncers, k \in allocs :
                  IsInside(u) /\ sync[u].alloc = k /\ WellPlaced(u) => Stays(u, k)
  <2>1. /\ OnlyOn(j, pin[t]) /\ cpumask'[j] = cpumask[j]
        /\ assign_mask'[j] = assign_mask[j] \ {pin[t]}
    BY <1>9 DEF UnassignedStep, Unassigned
  <2>2. \A u \in Inside(j) : pin[u] # pin[t]
    BY <1>7, <1>9
  <2> QED
    BY <1>6, <2>1, <2>2, SyncAssumption
<1>10. ASSUME NEW j \in allocs, MemberStep(j, pin[t]), Settled(j)
       PROVE  /\ \A k \in allocs \cap allocs' : Kept(k)
              /\ \A u \in Syncers, k \in allocs :
                   IsInside(u) /\ sync[u].alloc = k /\ WellPlaced(u) => Stays(u, k)
  <2>1. Inside(j) = {}
    BY <1>10 DEF Settled
  <2>2. CASE Freed({j})
    BY <1>4, <2>1, <2>2
  <2>3. CASE Left(j, pin[t])
    <3>1. /\ OnlyOn(j, pin[t]) /\ cpumask'[j] \subseteq cpumask[j]
          /\ assign_mask'[j] = assign_mask[j] \ {pin[t]}
      BY <2>3 DEF Left
    <3> QED
      BY <1>6, <1>10, <2>1, <3>1, SyncAssumption
  <2> QED
    BY <1>10, <2>2, <2>3 DEF MemberStep
<1> HIDE DEF Kept, Stays
<1> QED
  BY <1>3, <1>4, <1>5, <1>8, <1>9, <1>10, SyncAssumption DEF CallShape, FreedStep

-----------------------------------------------------------------------------
(***************************************************************************)
(* Where CPUs are                                                          *)
(***************************************************************************)
Bits(k) == bst[Cmg(k)][Blade(k)]
Done(k) == lbsy[Cmg(k)][Blade(k)]

\* All have arrived at round n, CPU c perhaps at the next; its BST bit tells.
CpuInRound(c, k, n) ==
  /\ ArrivedAt(c, k) \in {n, n + 1}
  /\ HasLeft(c, k) <= n
  /\ c \in Bits(k) <=> (Done(k) = 1 <=> ArrivedAt(c, k) = n)

\* A task waits for LBSY to change, or only has to see that it has.
TaskInRound(t, k, n) ==
  sync[t].sense = IF rounds[k][pin[t]] = n THEN Done(k) ELSE 1 - Done(k)

InRound(k, n) ==
  /\ \E c \in cpumask[k] : ArrivedAt(c, k) = n
  /\ \A c \in cpumask[k] : CpuInRound(c, k, n)
  /\ \A t \in Inside(k) : TaskInRound(t, k, n)

InRounds == \A k \in allocs : \E n \in Nat : InRound(k, n)

SyncInv ==
  /\ Ownership
  /\ SyncInHardware
  /\ SyncTypeOK
  /\ Places
  /\ Idle
  /\ InRounds

\* A CPU has one task at most for an allocation.
LEMMA NobodyElse ==
  ASSUME SyncPattern, Places, NEW t \in Syncers, NEW k, tgid[Task(k)] = tgid[t]
  PROVE  RunsOn(pin[t], k) \subseteq {t}
<1>1. ASSUME NEW u \in RunsOn(pin[t], k) PROVE u = t
  <2>1. /\ u \in Threads /\ u \in Syncers /\ pin[u] = pin[t]
        /\ IsInside(u) /\ sync[u].alloc = k
    BY <1>1, SyncAssumption DEF RunsOn, Inside
  <2>2. tgid[u] = tgid[t]
    BY <2>1 DEF Places, WellPlaced
  <2> QED
    BY <2>1, <2>2 DEF SyncPattern
<1> QED
  BY <1>1

LEMMA FreeSeat ==
  ASSUME NEW c, NEW k, RunsOn(c, k) = {}
  PROVE  ArrivedAt(c, k) = rounds[k][c] /\ HasLeft(c, k) = rounds[k][c]
BY DEF ArrivedAt, HasLeft

\* The CPU of a task that is inside.
LEMMA TakenSeat ==
  ASSUME SyncPattern, Ownership, SyncTypeOK, Places, NEW t \in Threads, IsInside(t),
         NEW k, k = sync[t].alloc
  PROVE  /\ t \in Syncers /\ t \in Inside(k) /\ k \in allocs /\ k \in Keys
         /\ pin[t] \in CPUs /\ pin[t] \in assign_mask[k] /\ pin[t] \in cpumask[k]
         /\ Cmg(k) = cmgOf[pin[t]] /\ tgid[Task(k)] = tgid[t]
         /\ sync[t].window = window[k][pin[t]]
         /\ sync[t].at \in {"read", "wait"} /\ sync[t].sense \in {0, 1}
         /\ RunsOn(pin[t], k) = {t}
         /\ rounds[k][pin[t]] \in Nat
         /\ HasLeft(pin[t], k) = rounds[k][pin[t]] - 1
         /\ ArrivedAt(pin[t], k) = IF sync[t].at = "read" THEN rounds[k][pin[t]] - 1
                                                          ELSE rounds[k][pin[t]]
<1>1. /\ t \in Syncers /\ k \in allocs /\ k \in Keys /\ tgid[Task(k)] = tgid[t]
      /\ pin[t] \in CPUs /\ pin[t] \in assign_mask[k]
      /\ sync[t].window = window[k][pin[t]]
  BY SyncAssumption DEF Places, WellPlaced, Ownership, TypeOK
<1>2. pin[t] \in cpumask[k] /\ Cmg(k) = cmgOf[pin[t]]
  BY <1>1 DEF Ownership, BladeProgrammed, PEs
<1>3. sync[t].at \in {"read", "wait"} /\ sync[t].sense \in {0, 1}
  <2>1. sync[t] \in Place /\ sync[t].at # "out"
    BY DEF SyncTypeOK, IsInside
  <2> QED
    BY <2>1 DEF Place
<1>4. t \in Inside(k) /\ t \in RunsOn(pin[t], k)
  BY <1>1 DEF Inside, RunsOn
<1>5. RunsOn(pin[t], k) = {t}
  BY <1>1, <1>4, NobodyElse
<1>6. rounds[k][pin[t]] \in Nat
  BY <1>1 DEF SyncTypeOK
<1>7. HasLeft(pin[t], k) = rounds[k][pin[t]] - 1
  BY <1>5 DEF HasLeft
<1>8. ArrivedAt(pin[t], k) = IF sync[t].at = "read" THEN rounds[k][pin[t]] - 1
                                                    ELSE rounds[k][pin[t]]
  BY <1>5 DEF ArrivedAt
<1> QED
  BY <1>1, <1>2, <1>3, <1>4, <1>5, <1>6, <1>7, <1>8

\* What the window of an allocation shows to a task that synchronises.
LEMMA OwnWindow ==
  ASSUME Ownership, SyncInHardware, NEW k \in allocs, NEW t \in Syncers,
         pin[t] \in assign_mask[k]
  PROVE  /\ Cmg(k) = cmgOf[pin[t]] /\ pin[t] \in CPUs
         /\ Blade(k) \in Blades /\ Cmg(k) \in CMGs
         /\ assign_sync[pin[t]][window[k][pin[t]]] = [valid |-> TRUE, blade |-> Blade(k)]
         /\ LbsyRead(assign_sync[pin[t]], window[k][pin[t]], lbsy[cmgOf[pin[t]]]) = Done(k)
<1>1. assign_sync[pin[t]][window[k][pin[t]]] = [valid |-> TRUE, blade |-> Blade(k)]
  BY DEF SyncInHardware, InHardware, SyncCpus
<1>2. /\ Cmg(k) = cmgOf[pin[t]] /\ pin[t] \in CPUs
      /\ Blade(k) \in Blades /\ Cmg(k) \in CMGs
  BY KeyFacts DEF Ownership, BladeProgrammed, PEs, TypeOK
<1>3. LbsyRead(assign_sync[pin[t]], window[k][pin[t]], lbsy[cmgOf[pin[t]]]) = Done(k)
  BY <1>1, <1>2 DEF LbsyRead, Done
<1> QED
  BY <1>1, <1>2, <1>3

-----------------------------------------------------------------------------
(***************************************************************************)
(* What stays when a task moves                                            *)
(***************************************************************************)
SeatKept(c, k) ==
  /\ RunsOn(c, k)' = RunsOn(c, k)
  /\ \A u \in RunsOn(c, k) : sync'[u] = sync[u]
  /\ rounds'[k][c] = rounds[k][c]

LEMMA SeatKeptFacts ==
  ASSUME NEW c, NEW k, SeatKept(c, k)
  PROVE  ArrivedAt(c, k)' = ArrivedAt(c, k) /\ HasLeft(c, k)' = HasLeft(c, k)
BY DEF SeatKept, ArrivedAt, HasLeft

LEMMA RoundKept ==
  ASSUME TypeOK, NEW k \in allocs, NEW n, InRound(k, n),
         cpumask'[k] = cpumask[k], Bits(k)' = Bits(k), Done(k)' = Done(k),
         \A c \in CPUs : SeatKept(c, k)
  PROVE  InRound(k, n)'
<1>1. cpumask[k] \subseteq CPUs
  BY DEF TypeOK
<1>2. \A c \in cpumask[k] : ArrivedAt(c, k)' = ArrivedAt(c, k) /\ HasLeft(c, k)' = HasLeft(c, k)
  BY <1>1, SeatKeptFacts
<1>3. (\E c \in cpumask[k] : ArrivedAt(c, k) = n)'
  BY <1>2 DEF InRound
<1>4. (\A c \in cpumask[k] : CpuInRound(c, k, n))'
  BY <1>2 DEF InRound, CpuInRound
<1>5. (\A t \in Inside(k) : TaskInRound(t, k, n))'
  <2>1. SUFFICES ASSUME NEW t \in Inside(k)' PROVE TaskInRound(t, k, n)'
    OBVIOUS
  <2>2. t \in RunsOn(pin[t], k)' /\ pin[t] \in CPUs
    BY <2>1, SyncAssumption DEF RunsOn, Inside
  <2>3. t \in Inside(k) /\ sync'[t] = sync[t] /\ rounds'[k][pin[t]] = rounds[k][pin[t]]
    BY <2>2 DEF SeatKept, RunsOn
  <2> QED
    BY <2>3 DEF InRound, TaskInRound
<1> QED
  BY <1>3, <1>4, <1>5 DEF InRound

\* One task moves: nothing changes on other CPUs, nor for allocations it neither
\* enters nor leaves.
LEMMA OneMoves ==
  ASSUME NEW t \in Threads, \A u \in Threads \ {t} : sync'[u] = sync[u],
         NEW c \in CPUs, NEW k
  PROVE  /\ RunsOn(c, k)' \ {t} = RunsOn(c, k) \ {t}
         /\ \A u \in RunsOn(c, k) \ {t} : sync'[u] = sync[u]
         /\ t \in RunsOn(c, k)' <=> /\ t \in Syncers /\ pin[t] = c
                                    /\ sync'[t].at # "out" /\ sync'[t].alloc = k
BY SyncAssumption DEF RunsOn, Inside, IsInside

-----------------------------------------------------------------------------
(***************************************************************************)
(* The steps of fhwb_sync()                                                *)
(***************************************************************************)
\* Beginning a round: the CPU has left all rounds the others have arrived at.
LEMMA BeginRounds ==
  ASSUME SyncPattern, SyncInv, NEW t \in Threads, NEW k \in allocs, BeginSync(t, k)
  PROVE  InRounds'
<1> DEFINE c == pin[t]
<1>1. /\ t \in Syncers /\ ~ IsInside(t) /\ tgid[Task(k)] = tgid[t]
      /\ c \in CPUs /\ c \in assign_mask[k] /\ c \in cpumask[k]
      /\ k \in Keys /\ Blade(k) \in Blades /\ UNCHANGED <<allocs, cpumask, bst, lbsy>>
  BY SyncAssumption, KeyFacts
  DEF BeginSync, GroupAllocs, SyncInv, Ownership, TypeOK, BladeProgrammed, vars, bookkeeping
<1>2. /\ sync'[t].at = "read" /\ sync'[t].alloc = k /\ sync'[t].sense = 1 - Done(k)
      /\ \A u \in Threads \ {t} : sync'[u] = sync[u]
  <2>1. LbsyRead(assign_sync[c], window[k][c], lbsy[cmgOf[c]]) = Done(k)
    BY <1>1, OwnWindow DEF Done, SyncInv
  <2> QED
    BY <2>1 DEF BeginSync, Target, SyncInv, SyncTypeOK
<1>3. rounds' = [rounds EXCEPT ![k][c] = @ + 1]
  BY DEF BeginSync
<1>4. /\ SyncTypeOK /\ TypeOK /\ rounds[k][c] \in Nat
      /\ rounds'[k][c] = rounds[k][c] + 1
      /\ \A j \in Keys, d \in CPUs : j # k \/ d # c => rounds'[j][d] = rounds[j][d]
  BY <1>1, <1>3 DEF SyncInv, SyncTypeOK, Ownership
<1>5. RunsOn(c, k) = {} /\ \A d \in CPUs : \A j : t \notin RunsOn(d, j)
  <2>1. \A d \in CPUs : \A j : t \notin RunsOn(d, j)
    BY <1>1 DEF RunsOn, Inside
  <2> QED
    BY <1>1, <2>1, NobodyElse DEF SyncInv
<1>7. ASSUME NEW d \in CPUs, NEW j \in Keys, j # k \/ d # c PROVE SeatKept(d, j)
  <2>1. t \notin RunsOn(d, j) /\ t \notin RunsOn(d, j)'
    BY <1>2, <1>5, <1>7, OneMoves
  <2>2. RunsOn(d, j)' = RunsOn(d, j) /\ \A u \in RunsOn(d, j) : sync'[u] = sync[u]
    BY <1>2, <2>1, OneMoves
  <2>3. rounds'[j][d] = rounds[j][d]
    BY <1>4, <1>7
  <2> QED
    BY <2>2, <2>3 DEF SeatKept
<1>8. RunsOn(c, k)' = {t}
  BY <1>1, <1>2, <1>5, OneMoves
<1> HIDE DEF c
<1>9. SUFFICES ASSUME NEW j \in allocs PROVE \E n \in Nat : InRound(j, n)'
  BY <1>1 DEF InRounds
<1>10. PICK n \in Nat : InRound(j, n)
  BY DEF SyncInv, InRounds
<1>11. Bits(j)' = Bits(j) /\ Done(j)' = Done(j) /\ cpumask'[j] = cpumask[j] /\ j \in Keys
  BY <1>1, <1>4 DEF Bits, Done, TypeOK
<1>12. CASE j # k
  <2>1. \A d \in CPUs : SeatKept(d, j)
    BY <1>7, <1>11, <1>12
  <2> QED
    BY <1>4, <1>10, <1>11, <2>1, RoundKept
<1>13. CASE j = k
  <2>1. rounds[k][c] = n /\ ArrivedAt(c, k) = n
    <3>1. ArrivedAt(c, k) = rounds[k][c] /\ HasLeft(c, k) = rounds[k][c]
      BY <1>5, FreeSeat
    <3>2. ArrivedAt(c, k) \in {n, n + 1} /\ HasLeft(c, k) <= n
      BY <1>1, <1>10, <1>13 DEF InRound, CpuInRound
    <3> QED
      BY <1>4, <3>1, <3>2
  <2>2. ArrivedAt(c, k)' = n /\ HasLeft(c, k)' = n
    BY <1>2, <1>4, <1>8, <2>1 DEF ArrivedAt, HasLeft
  <2>3. \A d \in cpumask[k] \ {c} :
          d \in CPUs /\ ArrivedAt(d, k)' = ArrivedAt(d, k) /\ HasLeft(d, k)' = HasLeft(d, k)
    BY <1>1, <1>4, <1>7, SeatKeptFacts DEF TypeOK
  <2>4. \E d \in cpumask'[k] : ArrivedAt(d, k)' = n
    BY <1>1, <1>11, <1>13, <2>2
  <2>5. \A d \in cpumask'[k] : CpuInRound(d, k, n)'
    <3>1. CpuInRound(c, k, n)'
      BY <1>1, <1>10, <1>11, <1>13, <2>1, <2>2 DEF InRound, CpuInRound
    <3>2. \A d \in cpumask[k] \ {c} : CpuInRound(d, k, n)'
      BY <1>10, <1>11, <1>13, <2>3 DEF InRound, CpuInRound
    <3> QED
      BY <1>11, <1>13, <3>1, <3>2
  <2>6. ASSUME NEW u \in Inside(k)' PROVE TaskInRound(u, k, n)'
    <3>1. u \in RunsOn(pin[u], k)' /\ pin[u] \in CPUs
      BY <2>6, SyncAssumption DEF RunsOn, Inside
    <3>2. CASE u = t
      BY <1>2, <1>4, <1>11, <1>13, <2>1, <3>2 DEF TaskInRound, c
    <3>3. CASE u # t
      <4>1. pin[u] # c
        BY <1>8, <3>1, <3>3
      <4>2. u \in Inside(k) /\ sync'[u] = sync[u] /\ rounds'[k][pin[u]] = rounds[k][pin[u]]
        BY <1>1, <1>7, <3>1, <4>1 DEF SeatKept, RunsOn
      <4> QED
        BY <1>10, <1>11, <1>13, <4>2 DEF InRound, TaskInRound
    <3> QED
      BY <3>2, <3>3
  <2> QED
    BY <1>13, <2>4, <2>5, <2>6 DEF InRound
<1> QED
  BY <1>12, <1>13

\* Leaving: only a CPU that all others have arrived with is released.
LEMMA LeaveRounds ==
  ASSUME SyncPattern, SyncInv, NEW t \in Threads, Leave(t)
  PROVE  InRounds'
<1> DEFINE c == pin[t]
<1>1. IsInside(t) /\ sync[t].at = "wait"
  BY DEF Leave, IsInside
<1> PICK k : k = sync[t].alloc
  OBVIOUS
<1>2. /\ t \in Syncers /\ t \in Inside(k) /\ k \in allocs /\ k \in Keys
      /\ c \in CPUs /\ c \in assign_mask[k] /\ c \in cpumask[k]
      /\ sync[t].window = window[k][c] /\ Cmg(k) = cmgOf[c]
      /\ RunsOn(c, k) = {t} /\ rounds[k][c] \in Nat
      /\ ArrivedAt(c, k) = rounds[k][c] /\ HasLeft(c, k) = rounds[k][c] - 1
  BY <1>1, TakenSeat DEF SyncInv
<1>3. sync[t].sense = Done(k) /\ Done(k) \in {0, 1}
  <2>1. Done(k) \in {0, 1}
    BY <1>2, OwnWindow DEF SyncInv, SyncTypeOK, Done
  <2>2. LbsyRead(assign_sync[c], sync[t].window, lbsy[cmgOf[c]]) = Done(k)
    BY <1>2, OwnWindow DEF SyncInv, Done
  <2> QED
    BY <2>1, <2>2 DEF Leave, Released
<1>4. /\ sync'[t].at = "out" /\ \A u \in Threads \ {t} : sync'[u] = sync[u]
      /\ UNCHANGED <<allocs, cpumask, bst, lbsy, rounds>>
      /\ SyncTypeOK /\ TypeOK
  BY DEF Leave, Outside, SyncInv, SyncTypeOK, Ownership, vars, bookkeeping
<1>5. ASSUME NEW d \in CPUs, NEW j \in Keys, j # k \/ d # c PROVE SeatKept(d, j)
  <2>1. t \notin RunsOn(d, j)
    BY <1>5 DEF RunsOn, Inside
  <2> QED
    BY <1>4, <2>1, OneMoves DEF SeatKept
<1>6. RunsOn(c, k)' = {}
  BY <1>2, <1>4, OneMoves
<1>7. SUFFICES ASSUME NEW j \in allocs PROVE \E n \in Nat : InRound(j, n)'
  BY <1>4 DEF InRounds
<1>8. PICK n \in Nat : InRound(j, n)
  BY DEF SyncInv, InRounds
<1>9. Bits(j)' = Bits(j) /\ Done(j)' = Done(j) /\ cpumask'[j] = cpumask[j] /\ j \in Keys
  BY <1>4 DEF Bits, Done, TypeOK
<1>10. CASE j # k
  <2>1. \A d \in CPUs : SeatKept(d, j)
    BY <1>5, <1>9, <1>10
  <2> QED
    BY <1>4, <1>8, <1>9, <2>1, RoundKept
<1>11. CASE j = k
  <2>1. rounds[k][c] = n
    <3>1. TaskInRound(t, k, n)
      BY <1>2, <1>8, <1>11 DEF InRound
    <3> QED
      BY <1>3, <3>1 DEF TaskInRound
  <2>2. ArrivedAt(c, k)' = n /\ HasLeft(c, k)' = n
    BY <1>4, <1>6, <2>1 DEF ArrivedAt, HasLeft
  <2>3. \A d \in cpumask[k] \ {c} :
          ArrivedAt(d, k)' = ArrivedAt(d, k) /\ HasLeft(d, k)' = HasLeft(d, k)
    BY <1>2, <1>4, <1>5, SeatKeptFacts DEF TypeOK
  <2>4. \E d \in cpumask'[k] : ArrivedAt(d, k)' = n
    BY <1>2, <1>9, <1>11, <2>2
  <2>5. \A d \in cpumask'[k] : CpuInRound(d, k, n)'
    <3>1. CpuInRound(c, k, n)'
      BY <1>2, <1>8, <1>9, <1>11, <2>1, <2>2 DEF InRound, CpuInRound
    <3>2. \A d \in cpumask[k] \ {c} : CpuInRound(d, k, n)'
      BY <1>8, <1>9, <1>11, <2>3 DEF InRound, CpuInRound
    <3> QED
      BY <1>9, <1>11, <3>1, <3>2
  <2>6. ASSUME NEW u \in Inside(k)' PROVE TaskInRound(u, k, n)'
    <3>1. u \in RunsOn(pin[u], k)' /\ pin[u] \in CPUs
      BY <2>6, SyncAssumption DEF RunsOn, Inside
    <3>2. pin[u] # c
      BY <1>6, <3>1
    <3>3. u \in Inside(k) /\ sync'[u] = sync[u] /\ rounds'[k][pin[u]] = rounds[k][pin[u]]
      BY <1>2, <1>5, <3>1, <3>2 DEF SeatKept, RunsOn
    <3> QED
      BY <1>8, <1>9, <1>11, <3>3 DEF InRound, TaskInRound
  <2> QED
    BY <1>11, <2>4, <2>5, <2>6 DEF InRound
<1> QED
  BY <1>10, <1>11

\* Arriving changes one BST bit; the hardware looks at all bits of every blade of
\* the CMG again.
BitWritten(k, c, set) ==
  /\ \A b \in Blades : b # Blade(k) => bst'[Cmg(k)][b] = bst[Cmg(k)][b]
  /\ bst'[Cmg(k)][Blade(k)] = IF set THEN Bits(k) \cup {c} ELSE Bits(k) \ {c}
  /\ \A b \in Blades : lbsy'[Cmg(k)][b] =
       LbsyAfter(lbsy[Cmg(k)][b], init_sync[Cmg(k)][b], bst'[Cmg(k)][b])
  /\ \A g \in CMGs \ {Cmg(k)} : bst'[g] = bst[g] /\ lbsy'[g] = lbsy[g]

LEMMA ArriveWrites ==
  ASSUME SyncPattern, SyncInv, NEW t \in Threads, Arrive(t), NEW k, k = sync[t].alloc
  PROVE  BitWritten(k, pin[t], sync[t].sense = 1)
<1> DEFINE c == pin[t]
           bits == BstWritten(assign_sync[c], sync[t].window, bst[Cmg(k)], c, sync[t].sense)
<1>1. IsInside(t)
  BY DEF Arrive, IsInside
<1>2. /\ t \in Syncers /\ k \in allocs /\ c \in assign_mask[k]
      /\ sync[t].window = window[k][c] /\ Cmg(k) = cmgOf[c]
  BY <1>1, TakenSeat DEF SyncInv
<1>3. /\ Cmg(k) \in CMGs /\ Blade(k) \in Blades
      /\ bits = [b \in Blades |-> IF b # Blade(k) THEN bst[Cmg(k)][b]
                                  ELSE IF sync[t].sense = 1 THEN bst[Cmg(k)][b] \cup {c}
                                                            ELSE bst[Cmg(k)][b] \ {c}]
  <2>1. Cmg(k) \in CMGs /\ Blade(k) \in Blades
    BY <1>2, OwnWindow DEF SyncInv
  <2>2. assign_sync[c][sync[t].window] = [valid |-> TRUE, blade |-> Blade(k)]
    BY <1>2, OwnWindow DEF SyncInv
  <2> QED
    BY <2>1, <2>2 DEF BstWritten
<1>4. /\ bst'  = [bst EXCEPT ![Cmg(k)] = bits]
      /\ lbsy' = [lbsy EXCEPT ![Cmg(k)] = [b \in Blades |->
                    LbsyAfter(lbsy[Cmg(k)][b], init_sync[Cmg(k)][b], bits[b])]]
  BY <1>2 DEF Arrive
<1> HIDE DEF bits, c
<1>5. /\ bst \in [CMGs -> [Blades -> SUBSET CPUs]]
      /\ lbsy \in [CMGs -> [Blades -> {0, 1}]]
  BY DEF SyncInv, SyncTypeOK
<1>6. bst'[Cmg(k)] = bits
  BY <1>3, <1>4, <1>5
<1>7. \A b \in Blades : lbsy'[Cmg(k)][b] =
        LbsyAfter(lbsy[Cmg(k)][b], init_sync[Cmg(k)][b], bits[b])
  BY <1>3, <1>4, <1>5
<1>8. \A g \in CMGs \ {Cmg(k)} : bst'[g] = bst[g] /\ lbsy'[g] = lbsy[g]
  BY <1>4, <1>5
<1> QED
  BY <1>3, <1>6, <1>7, <1>8 DEF BitWritten, Bits, c

\* Looking again changes nothing where no bit has changed.
LEMMA LbsyStable ==
  ASSUME SyncInv, NEW k \in allocs, NEW n \in Nat, InRound(k, n)
  PROVE  LbsyAfter(Done(k), cpumask[k], Bits(k)) = Done(k)
<1>1. PICK c \in cpumask[k] : ArrivedAt(c, k) = n
  BY DEF InRound
<1>2. c \in Bits(k) <=> Done(k) = 1
  BY <1>1 DEF InRound, CpuInRound
<1>3. Done(k) \in {0, 1}
  BY KeyFacts DEF SyncInv, SyncTypeOK, Ownership, TypeOK, Done
<1> QED
  BY <1>1, <1>2, <1>3 DEF LbsyAfter

LEMMA ArriveRounds ==
  ASSUME SyncPattern, SyncInv, NEW t \in Threads, Arrive(t)
  PROVE  InRounds'
<1> DEFINE c == pin[t]
<1>1. IsInside(t) /\ sync[t].at = "read"
  BY DEF Arrive, IsInside
<1> PICK k : k = sync[t].alloc
  OBVIOUS
<1>2. /\ t \in Syncers /\ t \in Inside(k) /\ k \in allocs /\ k \in Keys
      /\ c \in CPUs /\ c \in assign_mask[k] /\ c \in cpumask[k]
      /\ RunsOn(c, k) = {t} /\ rounds[k][c] \in Nat
      /\ ArrivedAt(c, k) = rounds[k][c] - 1 /\ HasLeft(c, k) = rounds[k][c] - 1
  BY <1>1, TakenSeat DEF SyncInv
<1>3. Cmg(k) \in CMGs /\ Blade(k) \in Blades
  BY <1>2, KeyFacts
<1>4. Done(k) \in {0, 1}
  BY <1>3 DEF SyncInv, SyncTypeOK, Done
<1>5. /\ sync'[t].at = "wait" /\ sync'[t].alloc = k /\ sync'[t].sense = sync[t].sense
      /\ \A u \in Threads \ {t} : sync'[u] = sync[u]
      /\ UNCHANGED <<allocs, cpumask, init_sync, rounds>>
      /\ SyncTypeOK /\ TypeOK
  <2>1. sync' = [sync EXCEPT ![t].at = "wait"] /\ sync \in [Threads -> Place]
    BY DEF Arrive, SyncInv, SyncTypeOK
  <2>2. sync[t] \in [at : {"read", "wait"}, alloc : Keys, window : Windows, sense : {0, 1}]
    BY <1>1, <2>1 DEF Place
  <2>3. sync'[t] = [sync[t] EXCEPT !.at = "wait"]
    BY <2>1
  <2>4. sync'[t].at = "wait" /\ sync'[t].alloc = k /\ sync'[t].sense = sync[t].sense
    BY <2>2, <2>3
  <2>5. \A u \in Threads \ {t} : sync'[u] = sync[u]
    BY <2>1
  <2> QED
    BY <2>4, <2>5 DEF Arrive, SyncInv, Ownership, vars, bookkeeping, registers
<1>6. ASSUME NEW d \in CPUs, NEW j \in Keys, j # k \/ d # c PROVE SeatKept(d, j)
  <2>1. t \notin RunsOn(d, j)
    BY <1>6 DEF RunsOn, Inside
  <2>2. t \notin RunsOn(d, j)'
    BY <1>5, <1>6, OneMoves
  <2>3. RunsOn(d, j)' = RunsOn(d, j) /\ \A u \in RunsOn(d, j) : sync'[u] = sync[u]
    BY <1>5, <2>1, <2>2, OneMoves
  <2> QED
    BY <1>5, <2>3 DEF SeatKept
<1>7. RunsOn(c, k)' = {t}
  BY <1>2, <1>5, OneMoves
<1>8. \A j \in allocs : /\ j \in Keys /\ Cmg(j) \in CMGs /\ Blade(j) \in Blades
                        /\ init_sync[Cmg(j)][Blade(j)] = cpumask[j]
                        /\ j # k => Cmg(j) # Cmg(k) \/ Blade(j) # Blade(k)
  BY <1>2, KeyFacts DEF SyncInv, Ownership, TypeOK, BladeProgrammed, BladeOwnership
<1>9. BitWritten(k, c, sync[t].sense = 1)
  BY ArriveWrites
<1>10. SUFFICES ASSUME NEW j \in allocs PROVE \E n \in Nat : InRound(j, n)'
  BY <1>5 DEF InRounds
<1>11. PICK n \in Nat : InRound(j, n)
  BY DEF SyncInv, InRounds
<1>12. cpumask'[j] = cpumask[j] /\ j \in Keys
  BY <1>5, <1>8
<1>13. CASE j # k
  <2>1. \A d \in CPUs : SeatKept(d, j)
    BY <1>6, <1>12, <1>13
  <2>2. Bits(j)' = Bits(j)
    BY <1>8, <1>13, <1>9 DEF Bits, BitWritten
  <2>3. Done(j)' = Done(j)
    <3>1. CASE Cmg(j) = Cmg(k)
      <4>1. LbsyAfter(Done(j), cpumask[j], Bits(j)) = Done(j)
        BY <1>11, LbsyStable
      <4> QED
        BY <1>8, <1>13, <1>9, <3>1, <4>1 DEF Bits, Done, BitWritten
    <3>2. CASE Cmg(j) # Cmg(k)
      BY <1>8, <1>9, <3>2 DEF Done, BitWritten
    <3> QED
      BY <3>1, <3>2
  <2> QED
    BY <1>5, <1>11, <1>12, <2>1, <2>2, <2>3, RoundKept
<1>14. CASE j = k
  <2>1. rounds[k][c] = n + 1 /\ ArrivedAt(c, k) = n /\ sync[t].sense = 1 - Done(k)
    <3>1. rounds[k][c] = n + 1
      BY <1>2, <1>11, <1>14 DEF InRound, CpuInRound
    <3>2. TaskInRound(t, k, n)
      BY <1>2, <1>11, <1>14 DEF InRound
    <3> QED
      BY <1>2, <3>1, <3>2 DEF TaskInRound
  <2>2. ArrivedAt(c, k)' = n + 1 /\ HasLeft(c, k)' = n
    BY <1>5, <1>7, <2>1 DEF ArrivedAt, HasLeft
  <2>3. \A d \in cpumask[k] \ {c} :
          d \in CPUs /\ ArrivedAt(d, k)' = ArrivedAt(d, k) /\ HasLeft(d, k)' = HasLeft(d, k)
    BY <1>2, <1>5, <1>6, SeatKeptFacts DEF TypeOK
  <2>4. /\ c \in Bits(k)' <=> Done(k) # 1
        /\ \A d : d # c => (d \in Bits(k)' <=> d \in Bits(k))
    BY <1>4, <1>9, <2>1 DEF Bits, BitWritten
  <2>5. Done(k)' = LbsyAfter(Done(k), cpumask[k], Bits(k)')
    BY <1>2, <1>3, <1>8, <1>9 DEF Bits, Done, BitWritten
  <2>6. \A d \in cpumask[k] \ {c} : CpuInRound(d, k, n)
    BY <1>11, <1>14 DEF InRound
  <2>7. ASSUME NEW u \in Inside(k)', u # t
        PROVE  /\ u \in Inside(k) /\ pin[u] \in cpumask[k] \ {c}
               /\ sync'[u] = sync[u] /\ rounds'[k][pin[u]] = rounds[k][pin[u]]
               /\ rounds[k][pin[u]] \in Nat /\ HasLeft(pin[u], k) = rounds[k][pin[u]] - 1
               /\ rounds[k][pin[u]] \in {ArrivedAt(pin[u], k), ArrivedAt(pin[u], k) + 1}
    <3>1. u \in RunsOn(pin[u], k)' /\ pin[u] \in CPUs /\ u \in Threads
      BY <2>7, SyncAssumption DEF RunsOn, Inside
    <3>2. pin[u] # c
      BY <1>7, <2>7, <3>1
    <3>3. u \in Inside(k) /\ sync'[u] = sync[u] /\ rounds'[k][pin[u]] = rounds[k][pin[u]]
      BY <1>2, <1>6, <3>1, <3>2 DEF SeatKept, RunsOn
    <3>4. IsInside(u) /\ k = sync[u].alloc
      BY <3>3 DEF Inside
    <3>5. /\ pin[u] \in cpumask[k] /\ rounds[k][pin[u]] \in Nat
          /\ HasLeft(pin[u], k) = rounds[k][pin[u]] - 1
          /\ ArrivedAt(pin[u], k) = IF sync[u].at = "read" THEN rounds[k][pin[u]] - 1
                                                           ELSE rounds[k][pin[u]]
      BY <3>1, <3>4, TakenSeat DEF SyncInv
    <3> QED
      BY <3>2, <3>3, <3>5
  <2>8. ASSUME NEW d \in cpumask[k] \ {c}, ArrivedAt(d, k) = n
        PROVE  InRound(k, n)'
    <3>1. Done(k)' = Done(k)
      <4>1. d \in Bits(k)' <=> Done(k) = 1
        BY <2>4, <2>6, <2>8 DEF CpuInRound
      <4> QED
        BY <1>2, <2>4, <2>5, <2>8, <4>1 DEF LbsyAfter
    <3>2. \E e \in cpumask'[k] : ArrivedAt(e, k)' = n
      BY <1>12, <1>14, <2>3, <2>8
    <3>3. \A e \in cpumask'[k] : CpuInRound(e, k, n)'
      <4>1. CpuInRound(c, k, n)'
        BY <2>2, <2>4, <3>1 DEF CpuInRound
      <4>2. \A e \in cpumask[k] \ {c} : CpuInRound(e, k, n)'
        BY <2>3, <2>4, <2>6, <3>1 DEF CpuInRound
      <4> QED
        BY <1>12, <1>14, <4>1, <4>2
    <3>4. ASSUME NEW u \in Inside(k)' PROVE TaskInRound(u, k, n)'
      <4>1. CASE u = t
        BY <1>5, <2>1, <3>1, <4>1 DEF TaskInRound
      <4>2. CASE u # t
        BY <1>11, <1>14, <2>7, <3>1, <4>2 DEF InRound, TaskInRound
      <4> QED
        BY <4>1, <4>2
    <3> QED
      BY <3>2, <3>3, <3>4 DEF InRound
  <2>9. ASSUME \A d \in cpumask[k] \ {c} : ArrivedAt(d, k) # n
        PROVE  InRound(k, n + 1)'
    <3>1. \A d \in cpumask[k] \ {c} : /\ ArrivedAt(d, k)' = n + 1 /\ HasLeft(d, k)' <= n
                                      /\ d \in Bits(k)' <=> Done(k) # 1
      BY <2>3, <2>4, <2>6, <2>9 DEF CpuInRound
    <3>2. \A d \in cpumask[k] : d \in Bits(k)' <=> Done(k) # 1
      BY <2>4, <3>1
    <3>3. Done(k)' = 1 - Done(k)
      BY <1>2, <1>4, <2>5, <3>2 DEF LbsyAfter
    <3>4. \A d \in cpumask'[k] : CpuInRound(d, k, n + 1)'
      <4>1. \A d \in cpumask[k] : ArrivedAt(d, k)' = n + 1 /\ HasLeft(d, k)' <= n
        BY <2>2, <3>1
      <4>2. \A d \in cpumask[k] : HasLeft(d, k)' <= n + 1
        <5>1. ASSUME NEW d \in cpumask[k] \ {c} PROVE HasLeft(d, k) <= n + 1
          <6>1. HasLeft(d, k) <= n
            BY <2>6 DEF CpuInRound
          <6>2. HasLeft(d, k) \in Int
            BY <1>2, <1>5, <2>3 DEF HasLeft, SyncTypeOK
          <6> QED
            BY <6>1, <6>2
        <5> QED
          BY <2>2, <2>3, <5>1
      <4> QED
        BY <1>4, <1>12, <1>14, <3>2, <3>3, <4>1, <4>2 DEF CpuInRound
    <3>5. \E d \in cpumask'[k] : ArrivedAt(d, k)' = n + 1
      BY <1>2, <1>12, <1>14, <2>2
    <3>6. ASSUME NEW u \in Inside(k)' PROVE TaskInRound(u, k, n + 1)'
      <4>1. CASE u = t
        BY <1>4, <1>5, <2>1, <3>3, <4>1 DEF TaskInRound
      <4>2. CASE u # t
        <5>1. rounds[k][pin[u]] = n + 1
          BY <2>6, <2>7, <2>9, <4>2 DEF CpuInRound
        <5>2. sync[u].sense = 1 - Done(k)
          BY <1>11, <1>14, <2>7, <4>2, <5>1 DEF InRound, TaskInRound
        <5> QED
          BY <2>7, <3>3, <4>2, <5>1, <5>2 DEF TaskInRound
      <4> QED
        BY <4>1, <4>2
    <3> QED
      BY <3>4, <3>5, <3>6 DEF InRound
  <2> QED
    BY <1>14, <2>8, <2>9
<1> QED
  BY <1>13, <1>14

-----------------------------------------------------------------------------
(***************************************************************************)
(* The calls to the driver                                                 *)
(***************************************************************************)
\* The register of a blade is written when the blade is handed out and when a
\* group member leaves.
LEMMA Rewritten ==
  ASSUME BladeOwnership', NEW k \in allocs'
  PROVE  IsRewritten(Cmg(k), Blade(k)) <=> k \notin allocs \/ cpumask'[k] # cpumask[k]
<1>1. \A j \in allocs' : Cmg(j) = Cmg(k) /\ Blade(j) = Blade(k) => j = k
  BY DEF BladeOwnership
<1> QED
  BY <1>1 DEF IsRewritten

\* A new barrier is between rounds, a barrier somebody has left starts again
\* between rounds, and the others do not notice.
LEMMA CallRounds ==
  ASSUME SyncPattern, SyncInv, Ownership', NEW t \in Threads, ~ IsInside(t),
         CallShape(t), HardwareFollows
  PROVE  InRounds'
<1>1. /\ \A k \in allocs \cap allocs' :
           \/ cpumask'[k] = cpumask[k]
           \/ Settled(k) /\ cpumask'[k] \subseteq cpumask[k]
      /\ TypeOK /\ SyncTypeOK /\ sync' = sync
  BY CallKeeps DEF SyncInv, Ownership, HardwareFollows
<1>2. SUFFICES ASSUME NEW k \in allocs' PROVE \E n \in Nat : InRound(k, n)'
  BY DEF InRounds
<1>3. /\ k \in Keys /\ Cmg(k) \in CMGs /\ Blade(k) \in Blades
      /\ cpumask'[k] # {} /\ cpumask'[k] \subseteq CPUs
  BY KeyFacts DEF Ownership, TypeOK, BladeProgrammed
<1>4. /\ Bits(k)' = IF k \notin allocs \/ cpumask'[k] # cpumask[k] THEN {} ELSE Bits(k)
      /\ Done(k)' = IF k \notin allocs \/ cpumask'[k] # cpumask[k] THEN 0 ELSE Done(k)
      /\ rounds'[k] = IF k \in allocs THEN rounds[k] ELSE NoRounds
  <2>1. IsRewritten(Cmg(k), Blade(k)) <=> k \notin allocs \/ cpumask'[k] # cpumask[k]
    BY Rewritten DEF Ownership
  <2> QED
    BY <1>3, <2>1 DEF HardwareFollows, Bits, Done
<1>5. Inside(k)' = Inside(k) /\ \A c : RunsOn(c, k)' = RunsOn(c, k)
  BY <1>1 DEF Inside, RunsOn, IsInside
<1>6. ASSUME NEW n \in Nat, Inside(k) = {}, Bits(k)' = {}, Done(k)' = 0,
             \A c \in cpumask'[k] : rounds'[k][c] = n
      PROVE  InRound(k, n)'
  <2>1. \A c : RunsOn(c, k)' = {}
    BY <1>5, <1>6 DEF RunsOn
  <2>2. \A c \in cpumask'[k] : ArrivedAt(c, k)' = n /\ HasLeft(c, k)' = n
    BY <1>6, <2>1 DEF ArrivedAt, HasLeft
  <2>3. \A c \in cpumask'[k] : CpuInRound(c, k, n)'
    BY <1>6, <2>2 DEF CpuInRound
  <2> QED
    BY <1>3, <1>5, <1>6, <2>2, <2>3 DEF InRound
<1>7. CASE k \notin allocs
  <2>1. Inside(k) = {}
    BY <1>7, SyncAssumption DEF SyncInv, Places, WellPlaced, Inside
  <2>2. \A c \in cpumask'[k] : rounds'[k][c] = 0
    BY <1>3, <1>4, <1>7 DEF NoRounds
  <2> QED
    BY <1>4, <1>6, <1>7, <2>1, <2>2
<1>8. CASE k \in allocs /\ cpumask'[k] = cpumask[k]
  <2>1. PICK n \in Nat : InRound(k, n)
    BY <1>8 DEF SyncInv, InRounds
  <2>2. \A c \in CPUs : SeatKept(c, k)
    BY <1>1, <1>4, <1>5, <1>8 DEF SeatKept
  <2> QED
    BY <1>1, <1>4, <1>8, <2>1, <2>2, RoundKept
<1>9. CASE k \in allocs /\ cpumask'[k] # cpumask[k]
  <2>1. Settled(k) /\ cpumask'[k] \subseteq cpumask[k]
    BY <1>1, <1>9
  <2>2. PICK c \in cpumask'[k] : TRUE
    BY <1>3
  <2>3. rounds[k][c] \in Nat /\ \A d \in cpumask'[k] : rounds[k][d] = rounds[k][c]
    BY <1>1, <1>3, <2>1 DEF Settled, SyncTypeOK
  <2>4. Inside(k) = {}
    BY <2>1 DEF Settled
  <2> QED
    BY <1>4, <1>6, <1>9, <2>3, <2>4
<1> QED
  BY <1>7, <1>8, <1>9

LEMMA CallPlaces ==
  ASSUME SyncPattern, SyncInv, NEW t \in Threads, ~ IsInside(t),
         CallShape(t), HardwareFollows
  PROVE  Places'
<1>1. \A u \in Threads : IsInside(u) =>
        LET k == sync[u].alloc IN
        /\ k \in allocs'
        /\ pin[u] \in assign_mask'[k]
        /\ window'[k][pin[u]] = window[k][pin[u]]
  BY CallKeeps DEF SyncInv
<1>2. sync' = sync /\ Places
  BY DEF HardwareFollows, SyncInv
<1> QED
  BY <1>1, <1>2 DEF Places, WellPlaced, IsInside

LEMMA CallIdle ==
  ASSUME Idle, HardwareFollows, TypeOK'
  PROVE  Idle'
BY DEF Idle, HardwareFollows, TypeOK

LEMMA CallType ==
  ASSUME SyncTypeOK, HardwareFollows
  PROVE  SyncTypeOK'
<1>1. bst' \in [CMGs -> [Blades -> SUBSET CPUs]] /\ lbsy' \in [CMGs -> [Blades -> {0, 1}]]
  BY DEF SyncTypeOK, HardwareFollows
<1>2. rounds' \in [Keys -> [CPUs -> Nat]]
  BY DEF SyncTypeOK, HardwareFollows, NoRounds
<1>3. sync' \in [Threads -> Place]
  BY DEF SyncTypeOK, HardwareFollows
<1> QED
  BY <1>1, <1>2, <1>3 DEF SyncTypeOK

-----------------------------------------------------------------------------
(***************************************************************************)
(* Types and places while tasks synchronise                                *)
(***************************************************************************)
LEMMA SyncStepIdle ==
  ASSUME SyncInv, NEW t \in Threads, SyncStep(t)
  PROVE  Idle'
<1>1. allocs' = allocs /\ Idle /\ SyncTypeOK /\ TypeOK
  BY DEF SyncInv, Ownership, SyncStep, BeginSync, Arrive, Leave, vars, bookkeeping
<1>2. ASSUME NEW k \in allocs, BeginSync(t, k) PROVE Idle'
  <2>1. t \in Syncers /\ tgid[t] = tgid[Task(k)]
    BY <1>2 DEF BeginSync, GroupAllocs
  <2>2. \A j \in allocs \ {k} : rounds'[j] = rounds[j]
    BY <1>1, <1>2 DEF BeginSync, SyncTypeOK, TypeOK
  <2> QED
    BY <1>1, <2>1, <2>2 DEF Idle
<1>3. CASE Arrive(t) \/ Leave(t)
  BY <1>1, <1>3 DEF Arrive, Leave, Idle
<1> QED
  BY <1>2, <1>3 DEF SyncStep

LEMMA SyncStepType ==
  ASSUME SyncPattern, SyncInv, NEW t \in Threads, SyncStep(t)
  PROVE  SyncTypeOK' /\ Places'
<1>1. SyncTypeOK /\ TypeOK /\ Places
  BY DEF SyncInv, Ownership
<1>2. UNCHANGED <<allocs, assign_mask, window>>
  BY DEF SyncStep, BeginSync, Arrive, Leave, vars, bookkeeping
<1>3. ASSUME \A u \in Threads \ {t} : sync'[u] = sync[u], WellPlaced(t)' PROVE Places'
  BY <1>1, <1>2, <1>3 DEF Places, WellPlaced, IsInside
<1>4. ASSUME NEW k \in allocs, BeginSync(t, k) PROVE SyncTypeOK' /\ Places'
  <2>1. /\ t \in Syncers /\ pin[t] \in assign_mask[k] /\ tgid[Task(k)] = tgid[t]
        /\ k \in Keys /\ pin[t] \in CPUs
    BY <1>1, <1>4, SyncAssumption DEF BeginSync, GroupAllocs, TypeOK
  <2>2. window[k][pin[t]] \in Windows
    BY <2>1, WindowFacts DEF SyncInv, Ownership
  <2>3. Done(k) \in {0, 1}
    BY <2>1, OwnWindow DEF SyncInv, SyncTypeOK, Done
  <2>4. LbsyRead(assign_sync[pin[t]], window[k][pin[t]], lbsy[cmgOf[pin[t]]]) = Done(k)
    BY <2>1, OwnWindow DEF Done, SyncInv
  <2> DEFINE v == [at |-> "read", alloc |-> k, window |-> window[k][pin[t]],
                   sense |-> 1 - Done(k)]
  <2>5. v \in Place
    BY <2>1, <2>2, <2>3 DEF Place
  <2>6. sync' = [sync EXCEPT ![t] = v]
    BY <1>4, <2>4 DEF BeginSync, Target
  <2>7. sync' \in [Threads -> Place]
    BY <1>1, <2>5, <2>6 DEF SyncTypeOK
  <2>8. rounds' \in [Keys -> [CPUs -> Nat]]
    BY <1>1, <1>4, <2>1 DEF SyncTypeOK, BeginSync
  <2>9. sync'[t] = v /\ \A u \in Threads \ {t} : sync'[u] = sync[u]
    BY <1>1, <2>6 DEF SyncTypeOK
  <2>10. WellPlaced(t)'
    BY <1>2, <2>1, <2>9 DEF WellPlaced
  <2> QED
    BY <1>1, <1>3, <1>4, <2>7, <2>8, <2>9, <2>10 DEF SyncTypeOK, BeginSync
<1>5. CASE Arrive(t)
  <2>1. IsInside(t) /\ sync[t].at = "read"
    BY <1>5 DEF Arrive, IsInside
  <2>2. PICK k : k = sync[t].alloc
    OBVIOUS
  <2>3. k \in allocs /\ pin[t] \in CPUs /\ Cmg(k) \in CMGs /\ Blade(k) \in Blades
    BY <2>1, <2>2, TakenSeat, KeyFacts DEF SyncInv
  <2>4. \A b \in Blades : lbsy'[Cmg(k)][b] \in {0, 1} /\ bst'[Cmg(k)][b] \in SUBSET CPUs
    <3>1. BitWritten(k, pin[t], sync[t].sense = 1)
      BY <1>5, <2>2, ArriveWrites
    <3>2. ASSUME NEW b \in Blades
          PROVE  /\ bst'[Cmg(k)][b] \in SUBSET CPUs
                 /\ lbsy'[Cmg(k)][b] \in {0, 1}
      <4>1. bst[Cmg(k)][b] \in SUBSET CPUs /\ lbsy[Cmg(k)][b] \in {0, 1}
        BY <1>1, <2>3 DEF SyncTypeOK
      <4>2. bst'[Cmg(k)][b] \in SUBSET CPUs
        BY <2>3, <3>1, <4>1 DEF BitWritten, Bits
      <4>3. lbsy'[Cmg(k)][b] \in {0, 1}
        BY <3>1, <4>1 DEF BitWritten, LbsyAfter
      <4> QED
        BY <4>2, <4>3
    <3> QED
      BY <3>2
  <2>5. bst' \in [CMGs -> [Blades -> SUBSET CPUs]] /\ lbsy' \in [CMGs -> [Blades -> {0, 1}]]
    <3>1. Cmg(k) = cmgOf[pin[t]]
      BY <2>1, <2>2, TakenSeat DEF SyncInv
    <3> QED
      BY <1>1, <1>5, <2>3, <2>4, <3>1 DEF SyncTypeOK, Arrive, BstWritten
  <2>6. sync[t] \in [at : {"read", "wait"}, alloc : Keys, window : Windows, sense : {0, 1}]
    BY <1>1, <2>1 DEF SyncTypeOK, Place
  <2>7. sync'[t] = [sync[t] EXCEPT !.at = "wait"] /\ \A u \in Threads \ {t} : sync'[u] = sync[u]
    BY <1>1, <1>5 DEF SyncTypeOK, Arrive
  <2>8. sync'[t] \in Place /\ sync'[t].alloc = sync[t].alloc /\ sync'[t].window = sync[t].window
    BY <2>6, <2>7 DEF Place
  <2>9. sync' \in [Threads -> Place]
    BY <1>1, <1>5, <2>7, <2>8 DEF SyncTypeOK, Arrive
  <2>10. WellPlaced(t)'
    BY <1>1, <1>2, <2>1, <2>8 DEF Places, WellPlaced
  <2> QED
    BY <1>1, <1>3, <1>5, <2>5, <2>7, <2>9, <2>10 DEF SyncTypeOK, Arrive
<1>6. CASE Leave(t)
  <2>1. Outside \in Place /\ Outside.at = "out"
    BY DEF Outside, Place
  <2>2. sync' \in [Threads -> Place] /\ sync'[t] = Outside
        /\ \A u \in Threads \ {t} : sync'[u] = sync[u]
    BY <1>1, <1>6, <2>1 DEF SyncTypeOK, Leave
  <2>3. WellPlaced(t)'
    BY <2>1, <2>2 DEF WellPlaced, IsInside
  <2> QED
    BY <1>1, <1>3, <1>6, <2>2, <2>3 DEF SyncTypeOK, Leave
<1> QED
  BY <1>4, <1>5, <1>6 DEF SyncStep

-----------------------------------------------------------------------------
(***************************************************************************)
(* The theorems                                                            *)
(***************************************************************************)
LEMMA InitSync == BarrierInit => SyncInv
<1> SUFFICES ASSUME BarrierInit PROVE SyncInv
  OBVIOUS
<1>1. Ownership /\ allocs = {}
  BY InitOwnership DEF BarrierInit, Init
<1>2. SyncInHardware /\ Idle /\ InRounds
  BY <1>1 DEF SyncInHardware, Idle, InRounds
<1>3. SyncTypeOK
  <2>1. Outside \in Place
    BY DEF Outside, Place
  <2> QED
    BY <2>1 DEF BarrierInit, SyncTypeOK, NoRounds
<1>4. Places
  BY DEF BarrierInit, Places, WellPlaced, IsInside, Outside
<1> QED
  BY <1>1, <1>2, <1>3, <1>4 DEF SyncInv

LEMMA NextSync ==
  ASSUME SyncPattern, SyncInv, [BarrierNext]_barrierVars
  PROVE  SyncInv'
<1>1. TypeOK /\ Ownership' /\ TypeOK'
  BY DriverStep, NextOwnership DEF SyncInv, Ownership
<1>2. ASSUME NEW t \in Threads, SyncStep(t) PROVE SyncInv'
  <2>1. SyncInHardware'
    BY <1>2 DEF SyncInv, SyncInHardware, InHardware, SyncStep, BeginSync, Arrive, Leave,
                vars, bookkeeping, registers
  <2>2. InRounds'
    BY <1>2, BeginRounds, ArriveRounds, LeaveRounds DEF SyncStep
  <2> QED
    BY <1>1, <1>2, <2>1, <2>2, SyncStepType, SyncStepIdle DEF SyncInv
<1>3. ASSUME NEW t \in Threads, DriverCall(t) PROVE SyncInv'
  <2>1. CallShape(t) /\ HardwareFollows /\ ~ IsInside(t)
    BY <1>1, <1>3, CallIsClientStep, DriverCallShape DEF SyncInv
  <2> QED
    BY <1>1, <2>1, CallInHardware, CallRounds, CallPlaces, CallIdle, CallType DEF SyncInv
<1>4. CASE UNCHANGED barrierVars
  <2>1. /\ UNCHANGED <<allocs, cpumask, assign_mask, window, assign_sync>>
        /\ UNCHANGED <<bst, lbsy, sync, rounds>>
    BY <1>4 DEF barrierVars, barrier, vars, bookkeeping, registers
  <2>2. SyncInHardware' /\ SyncTypeOK' /\ Places' /\ Idle'
    BY <2>1 DEF SyncInv, SyncInHardware, InHardware, SyncTypeOK, Places, WellPlaced,
                IsInside, Idle
  <2>3. InRounds'
    <3>1. SUFFICES ASSUME NEW k \in allocs PROVE \E n \in Nat : InRound(k, n)'
      BY <2>1 DEF InRounds
    <3>2. PICK n \in Nat : InRound(k, n)
      BY DEF SyncInv, InRounds
    <3>3. \A c \in CPUs : SeatKept(c, k)
      BY <2>1 DEF SeatKept, RunsOn, Inside, IsInside
    <3>4. Bits(k)' = Bits(k) /\ Done(k)' = Done(k) /\ cpumask'[k] = cpumask[k]
      BY <2>1 DEF Bits, Done
    <3> QED
      BY <1>1, <3>2, <3>3, <3>4, RoundKept
  <2> QED
    BY <1>1, <2>2, <2>3 DEF SyncInv
<1> QED
  BY <1>1, <1>2, <1>3, <1>4, NextIsStep

LEMMA SyncInvariant ==
  ASSUME SyncPattern
  PROVE  BarrierSpec => []SyncInv
<1>1. SyncInv /\ [BarrierNext]_barrierVars => SyncInv'
  BY NextSync
<1> QED
  BY <1>1, InitSync, PTL DEF BarrierSpec

\* No CPU leaves a round of a barrier before every participant has arrived at
\* it: with any number of CPUs, barriers and processes, through blades and
\* windows that have served others, with any window numbers, and however the calls
\* of open, assign, unassign, free and close are ordered between the rounds, as
\* long as who shares a CPU with a task that synchronises unassigns before it
\* frees (SyncPattern).
THEOREM BarrierSeparatesRounds ==
  ASSUME SyncPattern
  PROVE  BarrierSpec => []RoundSafety
<1>1. ASSUME SyncInv PROVE RoundSafety
  <2>1. SUFFICES ASSUME NEW k \in allocs, NEW c \in cpumask[k], NEW d \in cpumask[k]
                 PROVE  HasLeft(c, k) <= ArrivedAt(d, k)
    BY DEF RoundSafety
  <2>2. PICK n \in Nat : InRound(k, n)
    BY <1>1 DEF SyncInv, InRounds
  <2>3. HasLeft(c, k) <= n /\ ArrivedAt(d, k) \in {n, n + 1}
    BY <2>2 DEF InRound, CpuInRound
  <2>4. HasLeft(c, k) \in Int
    BY <1>1 DEF HasLeft, SyncInv, SyncTypeOK, Ownership, TypeOK
  <2> QED
    BY <2>3, <2>4
<1> QED
  BY <1>1, SyncInvariant, PTL

\* When all participants wait, one of them is released: no BST bit is lost.
THEOREM SomebodyIsReleased ==
  ASSUME SyncPattern
  PROVE  BarrierSpec => []NotAllStuck
<1>1. ASSUME SyncInv PROVE NotAllStuck
  <2>1. SUFFICES ASSUME NEW k \in allocs,
                        \A c \in cpumask[k] : \E t \in RunsOn(c, k) : sync[t].at = "wait"
                 PROVE  \E t \in Inside(k) : Released(t)
    BY DEF NotAllStuck
  <2>2. PICK n \in Nat : InRound(k, n)
    BY <1>1 DEF SyncInv, InRounds
  <2>3. PICK c \in cpumask[k] : ArrivedAt(c, k) = n
    BY <2>2 DEF InRound
  <2>4. PICK t \in RunsOn(c, k) : sync[t].at = "wait"
    BY <2>1, <2>3
  <2>5. /\ t \in Threads /\ t \in Inside(k) /\ IsInside(t) /\ k = sync[t].alloc
        /\ pin[t] = c
    BY <2>4, SyncAssumption DEF RunsOn, Inside
  <2>6. /\ rounds[k][c] = n /\ c \in assign_mask[k]
        /\ sync[t].window = window[k][c]
    BY <1>1, <2>3, <2>4, <2>5, TakenSeat DEF SyncInv
  <2>7. sync[t].sense = Done(k)
    BY <2>2, <2>5, <2>6 DEF InRound, TaskInRound
  <2>8. LbsyRead(assign_sync[c], window[k][c], lbsy[cmgOf[c]]) = Done(k)
    BY <1>1, <2>5, <2>6, OwnWindow, TakenSeat DEF SyncInv, Done
  <2> QED
    BY <2>5, <2>6, <2>7, <2>8 DEF Released
<1> QED
  BY <1>1, SyncInvariant, PTL

\* The window a task synchronises through stays its own, whatever other processes
\* call on its CPU, but for a group member's free of a share it is still assigned
\* to, which SyncPattern keeps off the CPUs on which somebody synchronises: there
\* the code (ioctl.c:566-577) may invalidate it.
THEOREM WindowStaysOwn ==
  ASSUME SyncPattern
  PROVE  BarrierSpec => []SyncThroughOwnBlade
<1>1. ASSUME SyncInv PROVE SyncThroughOwnBlade
  <2>1. SUFFICES ASSUME NEW k \in allocs, NEW t \in Inside(k)
                 PROVE  assign_sync[pin[t]][sync[t].window] =
                          [valid |-> TRUE, blade |-> Blade(k)]
    BY DEF SyncThroughOwnBlade
  <2>2. t \in Threads /\ IsInside(t) /\ k = sync[t].alloc
    BY <2>1, SyncAssumption DEF Inside
  <2>3. /\ t \in Syncers /\ pin[t] \in assign_mask[k]
        /\ sync[t].window = window[k][pin[t]]
    BY <1>1, <2>2, TakenSeat DEF SyncInv
  <2> QED
    BY <1>1, <2>3, OwnWindow DEF SyncInv
<1> QED
  BY <1>1, SyncInvariant, PTL

=============================================================================
