-------------------------- MODULE HwbLibraryProofs --------------------------
(***************************************************************************)
(* What the driver adds when the clients keep to the library's pattern.    *)
(* With one allocating task per process no group member frees, and the     *)
(* driver knows of every live window up to late resets.  Without resets    *)
(* and explicit window numbers bookkeeping and registers agree exactly,    *)
(* and nothing leaks.                                                      *)
(***************************************************************************)
EXTENDS HwbOwnershipProofs

OneMaster == \A t, u \in Masters : tgid[t] = tgid[u] => t = u

LibraryPattern ==
  /\ OneMaster
  /\ Resetters = {}
  /\ \A arg \in WindowArgs : arg < 0

-----------------------------------------------------------------------------
(***************************************************************************)
(* Live windows                                                            *)
(***************************************************************************)
LiveInv ==
  /\ TypeOK
  /\ task_list \subseteq Masters
  /\ LiveWindowsTracked

LEMMA InitLive == Init => LiveInv
BY InitTypeOK, IndexFacts DEF Init, LiveInv, LiveWindowsTracked, NotAssigned

\* Only masters have task mappings.
LEMMA MastersStep ==
  ASSUME TypeOK, task_list \subseteq Masters, [Next]_vars
  PROVE  (task_list \subseteq Masters)'
<1>1. ASSUME NEW t \in Threads, ClientStep(t) PROVE task_list' \subseteq Masters
  <2>1. ASSUME NEW c \in CPUs, NEW g \in CMGs, NEW mask \in SUBSET CPUs,
               AllocateBlade(t, c, g, mask)
        PROVE  task_list' \subseteq Masters
    BY <2>1 DEF AllocateBlade, RegisteredTaskMap, TaskMap
  <2>2. ASSUME NEW g \in CMGs, AllocateNothing(t, g) PROVE task_list' \subseteq Masters
    BY <2>2 DEF AllocateNothing
  <2>3. ASSUME NEW c \in CPUs, Open(t) \/ Close(t, c) PROVE task_list' \subseteq Masters
    BY <2>3 DEF Open, Close
  <2>4. ASSUME NEW m \in Threads, NEW c \in CPUs, NEW g \in CMGs, NEW b \in Blades,
               FreeByOwner(t, c, g, b) \/ FreeByGroupMember(t, m, c, g, b)
        PROVE  task_list' \subseteq Masters
    BY <2>4 DEF FreeByOwner, FreeByGroupMember, UnregisterIfUnused
  <2>5. ASSUME NEW m \in Threads, NEW c \in CPUs, NEW b \in Blades, NEW arg, NEW win,
               AssignBlade(t, m, c, b, arg, win) \/ UnassignBlade(t, m, c, b)
        PROVE  task_list' \subseteq Masters
    BY <2>5 DEF AssignBlade, UnassignBlade
  <2>6. CASE Open(t)
    BY <2>6 DEF Open
  <2> QED
    BY <1>1, <2>1, <2>2, <2>3, <2>4, <2>5, <2>6 DEF ClientStep
<1>2. ASSUME NEW t \in Threads, NEW c \in CPUs, Reset(t, c) PROVE task_list' \subseteq Masters
  BY <1>2 DEF Reset
<1>3. ASSUME NEW s \in CPUs, NEW d \in CPUs, ResetCpu(s, d)
      PROVE  task_list' \subseteq Masters
  BY <1>3 DEF ResetCpu
<1>4. CASE UNCHANGED vars
  BY <1>4 DEF vars
<1> QED
  BY <1>1, <1>2, <1>3, <1>4 DEF Next

\* With one master per process nobody is the "other task of the group".
LEMMA NoGroupMemberFrees ==
  ASSUME OneMaster, TypeOK, task_list \subseteq Masters,
         NEW t \in Threads, NEW m \in Threads, NEW c \in CPUs, NEW g \in CMGs,
         NEW b \in Blades
  PROVE  ~ FreeByGroupMember(t, m, c, g, b)
BY DEF OneMaster, FreeByGroupMember, TaskMap

\* What a step of a client may do to the windows, as registers and as bits.
WindowsKept == UNCHANGED <<assign_sync, bw_map>>

WindowSet(c, win, b) ==
  /\ assign_sync' = [assign_sync EXCEPT ![c] = AssignSyncWritten(@, win, TRUE, b)]
  /\ bw_map' = [bw_map EXCEPT ![c] = @ \cup {win}]

WindowCleared(c, win) ==
  /\ assign_sync' = [assign_sync EXCEPT ![c] = AssignSyncWritten(@, win, FALSE, 0)]
  /\ bw_map' = [bw_map EXCEPT ![c] = @ \ {win}]

WindowsOfFreed(K) ==
  /\ bw_map' = [d \in CPUs |-> bw_map[d] \ FreedWindows(K, assign_mask, assign_count, d)]
  /\ assign_sync' = [d \in CPUs |-> [w \in Windows |->
                       IF w \in FreedWindows(K, assign_mask, assign_count, d)
                       THEN NotAssigned ELSE assign_sync[d][w]]]

WindowShape ==
  \/ WindowsKept
  \/ \E c \in CPUs, win \in Windows, b \in Blades : WindowSet(c, win, b)
  \/ \E c \in CPUs, win \in Windows : WindowCleared(c, win)
  \/ \E K \in SUBSET allocs : WindowsOfFreed(K)

LEMMA ClientWindowShape ==
  ASSUME OneMaster, TypeOK, task_list \subseteq Masters, NEW t \in Threads, ClientStep(t)
  PROVE  WindowShape /\ reset_ipi' = reset_ipi
<1>1. CASE Open(t)
  BY <1>1 DEF Open, WindowShape, WindowsKept, bookkeeping, registers
<1>2. ASSUME NEW c \in CPUs, Close(t, c) PROVE WindowShape /\ reset_ipi' = reset_ipi
  <2>1. CASE active_count > 0 /\ t \in task_list
    <3>1. WindowsOfFreed(Allocations(t)) /\ Allocations(t) \in SUBSET allocs
      BY <1>2, <2>1 DEF Close, FreeAllocations, WindowsOfFreed, Allocations
    <3> QED
      BY <1>2, <3>1 DEF WindowShape, Close
  <2>2. CASE ~ (active_count > 0 /\ t \in task_list)
    BY <1>2, <2>2 DEF Close, WindowShape, WindowsKept, bookkeeping
  <2> QED
    BY <2>1, <2>2
<1>3. ASSUME NEW c \in CPUs, NEW g \in CMGs, NEW mask \in SUBSET CPUs,
             AllocateBlade(t, c, g, mask)
      PROVE  WindowShape /\ reset_ipi' = reset_ipi
  BY <1>3 DEF AllocateBlade, WindowShape, WindowsKept
<1>4. ASSUME NEW g \in CMGs, AllocateNothing(t, g)
      PROVE  WindowShape /\ reset_ipi' = reset_ipi
  BY <1>4 DEF AllocateNothing, WindowShape, WindowsKept, bookkeeping, registers
<1>5. ASSUME NEW c \in CPUs, NEW g \in CMGs, NEW b \in Blades, FreeByOwner(t, c, g, b)
      PROVE  WindowShape /\ reset_ipi' = reset_ipi
  <2>1. WindowsOfFreed({<<t, g, b>>}) /\ {<<t, g, b>>} \in SUBSET allocs
    BY <1>5 DEF FreeByOwner, FreeAllocations, WindowsOfFreed
  <2> QED
    BY <1>5, <2>1 DEF WindowShape, FreeByOwner
<1>6. ASSUME NEW m \in Threads, NEW c \in CPUs, NEW b \in Blades, NEW arg,
             NEW win \in Windows, AssignBlade(t, m, c, b, arg, win)
      PROVE  WindowShape /\ reset_ipi' = reset_ipi
  BY <1>6 DEF AssignBlade, WindowShape, WindowSet
<1>7. ASSUME NEW m \in Threads, NEW c \in CPUs, NEW b \in Blades, UnassignBlade(t, m, c, b)
      PROVE  WindowShape /\ reset_ipi' = reset_ipi
  BY <1>7 DEF UnassignBlade, WindowShape, WindowCleared
<1> QED
  BY <1>1, <1>2, <1>3, <1>4, <1>5, <1>6, <1>7, NoGroupMemberFrees DEF ClientStep

LEMMA ClientLive ==
  ASSUME OneMaster, LiveInv, NEW t \in Threads, ClientStep(t)
  PROVE  LiveWindowsTracked'
<1>1. WindowShape /\ reset_ipi' = reset_ipi
  BY ClientWindowShape DEF LiveInv
<1>2. /\ assign_sync \in [CPUs -> [Windows -> AssignSync]]
      /\ bw_map \in [CPUs -> SUBSET Windows]
      /\ \A c \in CPUs, w \in Windows :
           assign_sync[c][w].valid => w \in bw_map[c] \/ ~ Reachable(c)
  BY DEF LiveInv, TypeOK, LiveWindowsTracked
<1>3. \A c \in CPUs : Reachable(c)' = Reachable(c)
  BY <1>1 DEF Reachable
<1>4. SUFFICES ASSUME NEW c \in CPUs, NEW w \in Windows, assign_sync'[c][w].valid
               PROVE  w \in bw_map'[c] \/ ~ Reachable(c)
  BY <1>3 DEF LiveWindowsTracked
<1>5. CASE WindowsKept
  BY <1>2, <1>4, <1>5 DEF WindowsKept
<1>6. ASSUME NEW d \in CPUs, NEW win \in Windows, NEW b \in Blades, WindowSet(d, win, b)
      PROVE  w \in bw_map'[c] \/ ~ Reachable(c)
  <2>1. CASE c = d
    <3>1. /\ assign_sync'[c] = AssignSyncWritten(assign_sync[c], win, TRUE, b)
          /\ bw_map'[c] = bw_map[c] \cup {win}
      BY <1>2, <1>6, <2>1 DEF WindowSet
    <3>2. w = win \/ assign_sync'[c][w] = assign_sync[c][w]
      <4>1. assign_sync[c] \in [Windows -> AssignSync] /\ TRUE \in BOOLEAN
        BY <1>2
      <4>2. \A x \in Windows \ {win} :
              AssignSyncWritten(assign_sync[c], win, TRUE, b)[x] = assign_sync[c][x]
        BY <4>1 DEF AssignSyncWritten
      <4> QED
        BY <3>1, <4>2
    <3> QED
      BY <1>2, <1>4, <3>1, <3>2
  <2>2. CASE c # d
    BY <1>2, <1>4, <1>6, <2>2 DEF WindowSet
  <2> QED
    BY <2>1, <2>2
<1>7. ASSUME NEW d \in CPUs, NEW win \in Windows, WindowCleared(d, win)
      PROVE  w \in bw_map'[c] \/ ~ Reachable(c)
  <2>1. CASE c = d
    <3>1. /\ assign_sync'[c] = AssignSyncWritten(assign_sync[c], win, FALSE, 0)
          /\ bw_map'[c] = bw_map[c] \ {win}
      BY <1>2, <1>7, <2>1 DEF WindowCleared
    <3>2. /\ assign_sync'[c][win] = [valid |-> FALSE, blade |-> 0]
          /\ w # win => assign_sync'[c][w] = assign_sync[c][w]
      <4>1. /\ assign_sync[c] \in [Windows -> AssignSync]
            /\ FALSE \in BOOLEAN /\ 0 \in Blades
        BY <1>2, IndexFacts
      <4>2. /\ AssignSyncWritten(assign_sync[c], win, FALSE, 0)[win]
                 = [valid |-> FALSE, blade |-> 0]
            /\ \A x \in Windows \ {win} :
                 AssignSyncWritten(assign_sync[c], win, FALSE, 0)[x] = assign_sync[c][x]
        BY <4>1 DEF AssignSyncWritten
      <4> QED
        BY <3>1, <4>2
    <3>3. w # win
      BY <1>4, <3>2
    <3> QED
      BY <1>2, <1>4, <3>1, <3>2, <3>3
  <2>2. CASE c # d
    BY <1>2, <1>4, <1>7, <2>2 DEF WindowCleared
  <2> QED
    BY <2>1, <2>2
<1>8. ASSUME NEW K \in SUBSET allocs, WindowsOfFreed(K)
      PROVE  w \in bw_map'[c] \/ ~ Reachable(c)
  <2> DEFINE F == FreedWindows(K, assign_mask, assign_count, c)
  <2>1. /\ bw_map'[c] = bw_map[c] \ F
        /\ assign_sync'[c][w] = IF w \in F THEN NotAssigned ELSE assign_sync[c][w]
    BY <1>8 DEF WindowsOfFreed
  <2> HIDE DEF F
  <2>2. w \notin F
    BY <1>4, <2>1 DEF NotAssigned
  <2> QED
    BY <1>2, <1>4, <2>1, <2>2
<1> QED
  BY <1>1, <1>5, <1>6, <1>7, <1>8 DEF WindowShape

\* A reset clears the windows of a CPU or is on its way there.
LEMMA ResetLive ==
  ASSUME LiveInv, NEW t \in Threads, NEW c \in CPUs, Reset(t, c)
  PROVE  LiveWindowsTracked'
<1>1. \A d \in CPUs \ {c} : ~ Reachable(d)'
  BY DEF Reset, Reachable
<1>2. \A w \in Windows : ~ assign_sync'[c][w].valid
  BY DEF Reset, ResetRegisters, WindowsReset, NotAssigned, LiveInv, TypeOK
<1> QED
  BY <1>1, <1>2 DEF LiveWindowsTracked

LEMMA ResetCpuLive ==
  ASSUME LiveInv, NEW s \in CPUs, NEW d \in CPUs, ResetCpu(s, d)
  PROVE  LiveWindowsTracked'
<1>1. \A w \in Windows : ~ assign_sync'[d][w].valid
  BY DEF ResetCpu, ResetRegisters, WindowsReset, NotAssigned, LiveInv, TypeOK
<1>2. \A c \in CPUs \ {d} : /\ assign_sync'[c] = assign_sync[c]
                            /\ bw_map'[c] = bw_map[c]
                            /\ Reachable(c)' = Reachable(c)
  BY DEF ResetCpu, ResetRegisters, bookkeeping, Reachable, LiveInv, TypeOK
<1> QED
  BY <1>1, <1>2 DEF LiveInv, LiveWindowsTracked

LEMMA NextLive ==
  ASSUME OneMaster, LiveInv, [Next]_vars
  PROVE  LiveInv'
<1>1. TypeOK' /\ (task_list \subseteq Masters)'
  BY NextTypeOK, MastersStep DEF LiveInv
<1>2. CASE UNCHANGED vars
  <2>1. LiveWindowsTracked'
    BY <1>2 DEF vars, bookkeeping, registers, LiveInv, LiveWindowsTracked, Reachable
  <2> QED
    BY <1>1, <2>1 DEF LiveInv
<1> QED
  BY <1>1, <1>2, ClientLive, ResetLive, ResetCpuLive DEF Next, LiveInv

\* With one allocating task per process the driver knows of every live window of
\* a CPU, or a reset of the CPU is on its way: whoever resets, whichever windows
\* are asked for, and however many processes, CPUs and windows there are.
THEOREM LiveWindows ==
  ASSUME OneMaster
  PROVE  Spec => []LiveWindowsTracked
<1>1. Init => LiveInv
  BY InitLive
<1>2. LiveInv /\ [Next]_vars => LiveInv'
  BY NextLive
<1>3. LiveInv => LiveWindowsTracked
  BY DEF LiveInv
<1> QED
  BY <1>1, <1>2, <1>3, PTL DEF Spec

-----------------------------------------------------------------------------
(***************************************************************************)
(* The library's pattern: bookkeeping and registers                        *)
(***************************************************************************)
\* The steps that are left, with what they do to the window registers.
QuietStep == Untouched /\ assign_sync' = assign_sync

FreedStep(K) == Freed(K) /\ WindowsOfFreed(K)

AllocatedStep(k, mask) == Allocated(k, mask) /\ assign_sync' = assign_sync

AssignedStep(k, c, win) ==
  /\ Assigned(k, c, win)
  /\ c \notin assign_mask[k]
  /\ WindowSet(c, win, Blade(k))

UnassignedStep(k, c) ==
  /\ Unassigned(k, c)
  /\ c \in assign_mask[k]
  /\ WindowCleared(c, window[k][c])

LibraryShape(t) ==
  \/ QuietStep
  \/ \E K \in SUBSET allocs : FreedStep(K) /\ \A k \in K : Own(t, k)
  \/ \E k \in Keys, mask \in SUBSET CPUs : AllocatedStep(k, mask)
  \/ \E k \in allocs, c \in CPUs :
       Own(t, k) /\ (UnassignedStep(k, c) \/ \E win \in Windows : AssignedStep(k, c, win))

\* The calls one by one; none depends on who else calls.
LEMMA CloseShape ==
  ASSUME TypeOK, NEW t \in Threads, NEW c \in CPUs, Close(t, c)
  PROVE  /\ QuietStep \/ FreedStep(Allocations(t))
         /\ Allocations(t) \in SUBSET allocs /\ \A k \in Allocations(t) : Own(t, k)
<1>1. Allocations(t) \in SUBSET allocs /\ \A k \in Allocations(t) : Own(t, k)
  BY DEF Allocations, Own
<1>2. CASE active_count > 0 /\ t \in task_list
  <2>1. FreeAllocations(Allocations(t), assign_mask, assign_count, bw_map, assign_sync)
    BY <1>2 DEF Close
  <2>2. WindowsOfFreed(Allocations(t)) /\ Freed(Allocations(t))
    BY <1>1, <2>1, FreeAllocationsFreed DEF FreeAllocations, WindowsOfFreed
  <2> QED
    BY <1>1, <2>2 DEF FreedStep
<1>3. CASE ~ (active_count > 0 /\ t \in task_list)
  BY <1>1, <1>3 DEF Close, QuietStep, Untouched, bookkeeping
<1> QED
  BY <1>2, <1>3

LEMMA AllocateShape ==
  ASSUME TypeOK, NEW t \in Threads, NEW c \in CPUs, NEW g \in CMGs,
         NEW mask \in SUBSET CPUs, AllocateBlade(t, c, g, mask)
  PROVE  \E k \in Keys : Task(k) \in RegisteredTaskMap(t) /\ AllocatedStep(k, mask)
<1>1. PICK k \in Keys : Task(k) \in RegisteredTaskMap(t) /\ Allocated(k, mask)
  BY AllocateBladeAllocated
<1>2. assign_sync' = assign_sync
  BY DEF AllocateBlade
<1> QED
  BY <1>1, <1>2 DEF AllocatedStep

LEMMA FreeByOwnerShape ==
  ASSUME TypeOK, NEW t \in Threads, NEW c \in CPUs, NEW g \in CMGs, NEW b \in Blades,
         FreeByOwner(t, c, g, b)
  PROVE  /\ <<t, g, b>> \in allocs /\ Own(t, <<t, g, b>>)
         /\ FreedStep({<<t, g, b>>})
<1> DEFINE k == <<t, g, b>>
<1>1. k \in allocs /\ Freed({k})
  BY FreeByOwnerFreed
<1>2. WindowsOfFreed({k})
  BY DEF FreeByOwner, FreeAllocations, WindowsOfFreed
<1>3. Own(t, k)
  BY KeyFacts DEF Own
<1> HIDE DEF k
<1>4. k \in allocs /\ Own(t, k) /\ FreedStep({k})
  BY <1>1, <1>2, <1>3 DEF FreedStep
<1> QED
  BY <1>4 DEF k

LEMMA AssignShape ==
  ASSUME TypeOK, WindowOwnership, NEW t \in Threads, NEW m \in Threads, NEW c \in CPUs,
         NEW b \in Blades, NEW arg, arg < 0, NEW win \in Windows,
         AssignBlade(t, m, c, b, arg, win)
  PROVE  LET k == <<m, cmgOf[c], b>> IN
         k \in allocs /\ Own(t, k) /\ AssignedStep(k, c, win)
<1> DEFINE k == <<m, cmgOf[c], b>>
<1>1. k \in allocs /\ Own(t, k) /\ Blade(k) = b
  BY KeyFacts, TopologyAssumption DEF AssignBlade, TaskMap, Own
<1>2. Assigned(k, c, win)
  BY AssignBladeAssigned
<1>3. window[k][c] = A64FX_HWB_UNASSIGNED_WIN
  BY DEF AssignBlade, IsNextFreeWindow
<1>4. WindowSet(c, win, b)
  BY DEF AssignBlade, WindowSet
<1> HIDE DEF k
<1>5. c \notin assign_mask[k]
  BY <1>1, <1>3 DEF WindowOwnership
<1>6. k \in allocs /\ Own(t, k) /\ AssignedStep(k, c, win)
  BY <1>1, <1>2, <1>4, <1>5 DEF AssignedStep
<1> QED
  BY <1>6 DEF k

LEMMA UnassignShape ==
  ASSUME TypeOK, WindowOwnership, NEW t \in Threads, NEW m \in Threads, NEW c \in CPUs,
         NEW b \in Blades, UnassignBlade(t, m, c, b)
  PROVE  LET k == <<m, cmgOf[c], b>> IN
         k \in allocs /\ Own(t, k) /\ UnassignedStep(k, c)
<1> DEFINE k == <<m, cmgOf[c], b>>
<1>1. k \in allocs /\ Own(t, k)
  BY KeyFacts, TopologyAssumption DEF UnassignBlade, TaskMap, Own
<1>2. Unassigned(k, c)
  BY UnassignBladeUnassigned
<1>3. WindowCleared(c, window[k][c])
  BY DEF UnassignBlade, WindowCleared
<1> HIDE DEF k
<1>4. c \in assign_mask[k]
  BY <1>1, <1>2, IndexFacts DEF Unassigned, WindowOwnership
<1>5. k \in allocs /\ Own(t, k) /\ UnassignedStep(k, c)
  BY <1>1, <1>2, <1>3, <1>4 DEF UnassignedStep
<1> QED
  BY <1>5 DEF k

LEMMA QuietShape ==
  ASSUME NEW t \in Threads, Open(t) \/ \E g \in CMGs : AllocateNothing(t, g)
  PROVE  QuietStep
BY DEF Open, AllocateNothing, QuietStep, Untouched, bookkeeping, registers

LEMMA LibraryStepShape ==
  ASSUME LibraryPattern, LiveInv, WindowOwnership, NEW t \in Threads, ClientStep(t)
  PROVE  LibraryShape(t)
<1> USE DEF LiveInv
<1>1. CASE Open(t) \/ \E g \in CMGs : AllocateNothing(t, g)
  BY <1>1, QuietShape DEF LibraryShape
<1>2. ASSUME NEW c \in CPUs, Close(t, c) PROVE LibraryShape(t)
  BY <1>2, CloseShape DEF LibraryShape
<1>3. ASSUME NEW c \in CPUs, NEW g \in CMGs, NEW mask \in SUBSET CPUs,
             AllocateBlade(t, c, g, mask)
      PROVE  LibraryShape(t)
  BY <1>3, AllocateShape DEF LibraryShape
<1>4. ASSUME NEW c \in CPUs, NEW g \in CMGs, NEW b \in Blades, FreeByOwner(t, c, g, b)
      PROVE  LibraryShape(t)
  <2> DEFINE k == <<t, g, b>>
  <2>1. k \in allocs /\ Own(t, k) /\ FreedStep({k})
    BY <1>4, FreeByOwnerShape
  <2> HIDE DEF k
  <2> QED
    BY <2>1 DEF LibraryShape
<1>5. ASSUME NEW m \in Threads, NEW c \in CPUs, NEW b \in Blades, NEW arg \in WindowArgs,
             NEW win \in Windows, AssignBlade(t, m, c, b, arg, win)
      PROVE  LibraryShape(t)
  <2> DEFINE k == <<m, cmgOf[c], b>>
  <2>1. arg < 0
    BY DEF LibraryPattern
  <2>2. k \in allocs /\ Own(t, k) /\ AssignedStep(k, c, win)
    BY <1>5, <2>1, AssignShape
  <2> HIDE DEF k
  <2> QED
    BY <2>2 DEF LibraryShape
<1>6. ASSUME NEW m \in Threads, NEW c \in CPUs, NEW b \in Blades, UnassignBlade(t, m, c, b)
      PROVE  LibraryShape(t)
  <2> DEFINE k == <<m, cmgOf[c], b>>
  <2>1. k \in allocs /\ Own(t, k) /\ UnassignedStep(k, c)
    BY <1>6, UnassignShape
  <2> HIDE DEF k
  <2> QED
    BY <2>1 DEF LibraryShape
<1>7. \A m \in Threads, c \in CPUs, g \in CMGs, b \in Blades :
        ~ FreeByGroupMember(t, m, c, g, b)
  BY NoGroupMemberFrees DEF LibraryPattern
<1> QED
  BY <1>1, <1>2, <1>3, <1>4, <1>5, <1>6, <1>7 DEF ClientStep

\* free_allocation() visits every window of the allocations it frees.
LEMMA EveryWindowFreed ==
  ASSUME TypeOK, BladeOwnership, WindowOwnership, AssignCountCoversMask,
         NEW K \in SUBSET allocs, NEW k \in K, NEW c \in assign_mask[k]
  PROVE  window[k][c] \in FreedWindows(K, assign_mask, assign_count, c)
<1>1. k \in allocs /\ k \in Keys
  BY DEF TypeOK
<1>2. c \in CPUs
  BY <1>1 DEF TypeOK
<1>3. Blade(k) \in bb_active[Cmg(k)]
  BY <1>1 DEF BladeOwnership
<1>4. assign_count[k] > 0
  <2>1. Cardinality(assign_mask[k]) # 0
    BY <1>1, MaskFinite, FS_EmptySet
  <2>2. assign_count[k] >= Cardinality(assign_mask[k])
    BY <1>1 DEF AssignCountCoversMask
  <2> QED
    BY <1>1, <2>1, <2>2, MaskFinite
<1>5. window[k][c] \in Windows
  <2>1. window[k][c] \in Windows \cup {A64FX_HWB_UNASSIGNED_WIN}
    BY <1>1, <1>2 DEF TypeOK
  <2>2. window[k][c] # A64FX_HWB_UNASSIGNED_WIN
    BY <1>1, <1>2 DEF WindowOwnership
  <2> QED
    BY <2>1, <2>2
<1> QED
  BY <1>3, <1>4, <1>5 DEF FreedWindows

\* And no window of another allocation.
LEMMA OtherWindowsKept ==
  ASSUME WindowOwnership, NEW K \in SUBSET allocs, NEW k \in allocs \ K, NEW c \in CPUs,
         c \in assign_mask[k]
  PROVE  window[k][c] \notin FreedWindows(K, assign_mask, assign_count, c)
BY DEF FreedWindows, WindowOwnership

LibraryInv ==
  /\ Ownership
  /\ LiveInv
  /\ reset_ipi = {}
  /\ AssignedInHardware
  /\ WindowsAccounted
  /\ AssignCountExact

\* One window of the bookkeeping, for one allocation and CPU.
InHardware(k, c) ==
  c \in assign_mask[k] =>
    assign_sync[c][window[k][c]] = [valid |-> TRUE, blade |-> Blade(k)]

Accounted(c, w) ==
  w \in bw_map[c] => \E k \in allocs : c \in assign_mask[k] /\ window[k][c] = w

LEMMA LibraryParts ==
  ASSUME TypeOK
  PROVE  /\ AssignedInHardware <=> \A k \in allocs, c \in CPUs : InHardware(k, c)
         /\ WindowsAccounted <=> \A c \in CPUs, w \in Windows : Accounted(c, w)
<1>1. \A k \in allocs : assign_mask[k] \subseteq CPUs
  BY DEF TypeOK
<1>2. \A c \in CPUs : bw_map[c] \subseteq Windows
  BY DEF TypeOK
<1>3. AssignedInHardware <=> \A k \in allocs, c \in CPUs : InHardware(k, c)
  BY <1>1 DEF AssignedInHardware, InHardware
<1>4. WindowsAccounted <=> \A c \in CPUs, w \in Windows : Accounted(c, w)
  BY <1>2 DEF WindowsAccounted, Accounted
<1> QED
  BY <1>3, <1>4

LEMMA LibraryPartsNext ==
  ASSUME TypeOK'
  PROVE  /\ AssignedInHardware' <=> \A k \in allocs', c \in CPUs : InHardware(k, c)'
         /\ WindowsAccounted' <=> \A c \in CPUs, w \in Windows : Accounted(c, w)'
<1>1. \A k \in allocs' : assign_mask'[k] \subseteq CPUs
  BY DEF TypeOK
<1>2. \A c \in CPUs : bw_map'[c] \subseteq Windows
  BY DEF TypeOK
<1>3. AssignedInHardware' <=> \A k \in allocs', c \in CPUs : InHardware(k, c)'
  BY <1>1 DEF AssignedInHardware, InHardware
<1>4. WindowsAccounted' <=> \A c \in CPUs, w \in Windows : Accounted(c, w)'
  BY <1>2 DEF WindowsAccounted, Accounted
<1> QED
  BY <1>3, <1>4

\* What a recorded window is, and that nobody else records it.
LEMMA WindowFacts ==
  ASSUME TypeOK, WindowOwnership, NEW k \in allocs, NEW c \in CPUs, c \in assign_mask[k]
  PROVE  /\ window[k][c] \in bw_map[c] /\ window[k][c] \in Windows
         /\ \A j \in allocs : c \in assign_mask[j] /\ window[j][c] = window[k][c] => j = k
<1>1. window[k][c] \in bw_map[c] /\ bw_map[c] \subseteq Windows
  BY DEF WindowOwnership, TypeOK
<1> QED
  BY <1>1 DEF WindowOwnership

\* What the shapes of ASSIGN and UNASSIGN do, window by window.
LEMMA WindowSetFacts ==
  ASSUME TypeOK, NEW c \in CPUs, NEW win \in Windows, NEW b \in Blades, WindowSet(c, win, b)
  PROVE  /\ assign_sync'[c][win] = [valid |-> TRUE, blade |-> b]
         /\ \A w \in Windows \ {win} : assign_sync'[c][w] = assign_sync[c][w]
         /\ \A d \in CPUs \ {c} : assign_sync'[d] = assign_sync[d]
         /\ bw_map'[c] = bw_map[c] \cup {win}
         /\ \A d \in CPUs \ {c} : bw_map'[d] = bw_map[d]
<1>1. assign_sync[c] \in [Windows -> AssignSync]
  BY DEF TypeOK
<1>2. /\ assign_sync'[c] = AssignSyncWritten(assign_sync[c], win, TRUE, b)
      /\ \A d \in CPUs \ {c} : assign_sync'[d] = assign_sync[d]
      /\ bw_map'[c] = bw_map[c] \cup {win}
      /\ \A d \in CPUs \ {c} : bw_map'[d] = bw_map[d]
  BY DEF WindowSet, TypeOK
<1>3. /\ AssignSyncWritten(assign_sync[c], win, TRUE, b)[win] = [valid |-> TRUE, blade |-> b]
      /\ \A w \in Windows \ {win} :
           AssignSyncWritten(assign_sync[c], win, TRUE, b)[w] = assign_sync[c][w]
  BY <1>1 DEF AssignSyncWritten
<1> QED
  BY <1>2, <1>3

LEMMA WindowClearedFacts ==
  ASSUME TypeOK, NEW c \in CPUs, NEW win \in Windows, WindowCleared(c, win)
  PROVE  /\ \A w \in Windows \ {win} : assign_sync'[c][w] = assign_sync[c][w]
         /\ \A d \in CPUs \ {c} : assign_sync'[d] = assign_sync[d]
         /\ bw_map'[c] = bw_map[c] \ {win}
         /\ \A d \in CPUs \ {c} : bw_map'[d] = bw_map[d]
<1>1. assign_sync[c] \in [Windows -> AssignSync]
  BY DEF TypeOK
<1>2. /\ assign_sync'[c] = AssignSyncWritten(assign_sync[c], win, FALSE, 0)
      /\ \A d \in CPUs \ {c} : assign_sync'[d] = assign_sync[d]
      /\ bw_map'[c] = bw_map[c] \ {win}
      /\ \A d \in CPUs \ {c} : bw_map'[d] = bw_map[d]
  BY DEF WindowCleared, TypeOK
<1>3. \A w \in Windows \ {win} :
         AssignSyncWritten(assign_sync[c], win, FALSE, 0)[w] = assign_sync[c][w]
  BY <1>1 DEF AssignSyncWritten
<1> QED
  BY <1>2, <1>3

\* The registers follow the bookkeeping.
LEMMA InHardwareStep ==
  ASSUME Ownership, AssignedInHardware, NEW t \in Threads, LibraryShape(t), TypeOK'
  PROVE  AssignedInHardware'
<1>1. /\ TypeOK /\ BladeOwnership /\ WindowOwnership
      /\ \A k \in allocs : k \in Keys /\ Blade(k) \in Blades
      /\ \A k \in allocs, c \in CPUs : InHardware(k, c)
  BY LibraryParts, KeyFacts DEF Ownership, TypeOK
<1>2. SUFFICES ASSUME NEW k \in allocs', NEW c \in CPUs, c \in assign_mask'[k]
               PROVE  assign_sync'[c][window'[k][c]] = [valid |-> TRUE, blade |-> Blade(k)]
  BY LibraryPartsNext DEF InHardware
<1>3. CASE QuietStep
  BY <1>1, <1>2, <1>3 DEF QuietStep, Untouched, InHardware
<1>4. ASSUME NEW K \in SUBSET allocs, FreedStep(K)
      PROVE  assign_sync'[c][window'[k][c]] = [valid |-> TRUE, blade |-> Blade(k)]
  <2>1. k \in allocs \ K /\ c \in assign_mask[k] /\ window'[k] = window[k]
    BY <1>2, <1>4 DEF FreedStep, Freed
  <2>2. window[k][c] \in Windows
    BY <1>1, <2>1, WindowFacts
  <2>3. window[k][c] \notin FreedWindows(K, assign_mask, assign_count, c)
    BY <1>1, <2>1, OtherWindowsKept
  <2>4. assign_sync'[c][window[k][c]] = assign_sync[c][window[k][c]]
    BY <1>4, <2>2, <2>3 DEF FreedStep, WindowsOfFreed
  <2> QED
    BY <1>1, <2>1, <2>4 DEF InHardware
<1>5. ASSUME NEW j \in Keys, NEW mask \in SUBSET CPUs, AllocatedStep(j, mask)
      PROVE  assign_sync'[c][window'[k][c]] = [valid |-> TRUE, blade |-> Blade(k)]
  <2>1. k # j /\ k \in allocs
    BY <1>2, <1>5 DEF AllocatedStep, Allocated
  <2>2. assign_mask'[k] = assign_mask[k] /\ window'[k] = window[k]
    BY <1>1, <1>5, <2>1 DEF AllocatedStep, Allocated, OthersKept
  <2> QED
    BY <1>1, <1>2, <1>5, <2>1, <2>2 DEF AllocatedStep, InHardware
<1>6. ASSUME NEW j \in allocs, NEW d \in CPUs, NEW win \in Windows, AssignedStep(j, d, win)
      PROVE  assign_sync'[c][window'[k][c]] = [valid |-> TRUE, blade |-> Blade(k)]
  <2>1. /\ WindowSet(d, win, Blade(j)) /\ Blade(j) \in Blades
        /\ Assigned(j, d, win) /\ OnlyOn(j, d) /\ k \in allocs
    BY <1>1, <1>2, <1>6 DEF AssignedStep, Assigned, OnlyOn
  <2>2. CASE k = j /\ c = d
    BY <1>1, <2>1, <2>2, WindowSetFacts DEF Assigned
  <2>3. CASE k # j \/ c # d
    <3>1. c \in assign_mask[k] /\ window'[k][c] = window[k][c]
      BY <1>1, <1>2, <2>1, <2>3 DEF Assigned, OnlyOn, OthersKept
    <3>2. window[k][c] \in bw_map[c] /\ window[k][c] \in Windows
      BY <1>1, <2>1, <3>1, WindowFacts
    <3>3. c = d => window[k][c] # win
      BY <2>1, <3>2 DEF Assigned
    <3>4. assign_sync'[c][window[k][c]] = assign_sync[c][window[k][c]]
      <4>1. /\ \A w \in Windows \ {win} : assign_sync'[d][w] = assign_sync[d][w]
            /\ \A e \in CPUs \ {d} : assign_sync'[e] = assign_sync[e]
        BY <1>1, <2>1, WindowSetFacts
      <4> QED
        BY <3>2, <3>3, <4>1
    <3> QED
      BY <1>1, <2>1, <3>1, <3>4 DEF InHardware
  <2> QED
    BY <2>2, <2>3
<1>7. ASSUME NEW j \in allocs, NEW d \in CPUs, UnassignedStep(j, d)
      PROVE  assign_sync'[c][window'[k][c]] = [valid |-> TRUE, blade |-> Blade(k)]
  <2>1. /\ WindowCleared(d, window[j][d]) /\ window[j][d] \in Windows
        /\ d \in assign_mask[j]
        /\ Unassigned(j, d) /\ OnlyOn(j, d) /\ k \in allocs
    BY <1>1, <1>2, <1>7 DEF UnassignedStep, Unassigned, OnlyOn
  <2>2. ~ (k = j /\ c = d)
    BY <1>2, <2>1 DEF Unassigned
  <2>3. c \in assign_mask[k] /\ window'[k][c] = window[k][c]
    BY <1>1, <1>2, <2>1, <2>2 DEF Unassigned, OnlyOn, OthersKept
  <2>4. window[k][c] \in Windows
    BY <1>1, <2>1, <2>3, WindowFacts
  <2>5. c = d => window[k][c] # window[j][d]
    BY <1>1, <2>1, <2>2, <2>3 DEF WindowOwnership
  <2>6. assign_sync'[c][window[k][c]] = assign_sync[c][window[k][c]]
    BY <1>1, <2>1, <2>4, <2>5, WindowClearedFacts
  <2> QED
    BY <1>1, <2>1, <2>3, <2>6 DEF InHardware
<1> QED
  BY <1>3, <1>4, <1>5, <1>6, <1>7 DEF LibraryShape

\* Every window in use is still recorded.
LEMMA AccountedStep ==
  ASSUME LibraryInv, NEW t \in Threads, LibraryShape(t), TypeOK'
  PROVE  WindowsAccounted'
<1>1. /\ TypeOK /\ BladeOwnership /\ WindowOwnership /\ AssignCountCoversMask
      /\ \A k \in allocs : k \in Keys /\ Blade(k) \in Blades
      /\ \A c \in CPUs, w \in Windows : Accounted(c, w)
  BY LibraryParts, KeyFacts DEF LibraryInv, Ownership, TypeOK
<1>2. SUFFICES ASSUME NEW c \in CPUs, NEW w \in Windows, w \in bw_map'[c]
               PROVE  \E k \in allocs' : c \in assign_mask'[k] /\ window'[k][c] = w
  BY LibraryPartsNext DEF Accounted
<1>3. CASE QuietStep
  BY <1>1, <1>2, <1>3 DEF QuietStep, Untouched, Accounted
<1>4. ASSUME NEW K \in SUBSET allocs, FreedStep(K)
      PROVE  \E k \in allocs' : c \in assign_mask'[k] /\ window'[k][c] = w
  <2>1. w \in bw_map[c] /\ w \notin FreedWindows(K, assign_mask, assign_count, c)
    BY <1>2, <1>4 DEF FreedStep, WindowsOfFreed
  <2>2. PICK k \in allocs : c \in assign_mask[k] /\ window[k][c] = w
    BY <1>1, <2>1 DEF Accounted
  <2>3. k \notin K
    BY <1>1, <2>1, <2>2, EveryWindowFreed
  <2> QED
    BY <1>4, <2>2, <2>3 DEF FreedStep, Freed
<1>5. ASSUME NEW j \in Keys, NEW mask \in SUBSET CPUs, AllocatedStep(j, mask)
      PROVE  \E k \in allocs' : c \in assign_mask'[k] /\ window'[k][c] = w
  <2>1. PICK k \in allocs : c \in assign_mask[k] /\ window[k][c] = w
    BY <1>1, <1>2, <1>5 DEF AllocatedStep, Allocated, Accounted
  <2>2. k # j
    BY <1>1, <1>5 DEF AllocatedStep, Allocated, BladeOwnership
  <2> QED
    BY <1>1, <1>5, <2>1, <2>2 DEF AllocatedStep, Allocated, OthersKept
<1>6. ASSUME NEW j \in allocs, NEW d \in CPUs, NEW win \in Windows, AssignedStep(j, d, win)
      PROVE  \E k \in allocs' : c \in assign_mask'[k] /\ window'[k][c] = w
  <2>1. /\ allocs' = allocs
        /\ \A k \in allocs \ {j} : assign_mask'[k] = assign_mask[k] /\ window'[k] = window[k]
        /\ \A e \in CPUs \ {d} : window'[j][e] = window[j][e] /\ bw_map'[e] = bw_map[e]
        /\ d \notin assign_mask[j] /\ assign_mask'[j] = assign_mask[j] \cup {d}
        /\ window'[j][d] = win /\ bw_map'[d] = bw_map[d] \cup {win}
    BY <1>1, <1>6 DEF AssignedStep, Assigned, OnlyOn, OthersKept
  <2>2. CASE c = d /\ w = win
    BY <2>1, <2>2
  <2>3. CASE ~ (c = d /\ w = win)
    <3>1. w \in bw_map[c]
      BY <1>2, <2>1, <2>3
    <3>2. PICK k \in allocs : c \in assign_mask[k] /\ window[k][c] = w
      BY <1>1, <3>1 DEF Accounted
    <3> QED
      BY <2>1, <3>2
  <2> QED
    BY <2>2, <2>3
<1>7. ASSUME NEW j \in allocs, NEW d \in CPUs, UnassignedStep(j, d)
      PROVE  \E k \in allocs' : c \in assign_mask'[k] /\ window'[k][c] = w
  <2>1. /\ allocs' = allocs
        /\ \A k \in allocs \ {j} : assign_mask'[k] = assign_mask[k] /\ window'[k] = window[k]
        /\ \A e \in CPUs \ {d} : window'[j][e] = window[j][e] /\ bw_map'[e] = bw_map[e]
        /\ assign_mask'[j] = assign_mask[j] \ {d}
        /\ bw_map'[d] = bw_map[d] \ {window[j][d]}
    BY <1>1, <1>7 DEF UnassignedStep, Unassigned, OnlyOn, OthersKept
  <2>2. w \in bw_map[c] /\ (c = d => w # window[j][d])
    BY <1>2, <2>1
  <2>3. PICK k \in allocs : c \in assign_mask[k] /\ window[k][c] = w
    BY <1>1, <2>2 DEF Accounted
  <2> QED
    BY <2>1, <2>2, <2>3
<1> QED
  BY <1>3, <1>4, <1>5, <1>6, <1>7 DEF LibraryShape

\* The count goes with the mask.
LEMMA CountExactStep ==
  ASSUME LibraryInv, NEW t \in Threads, LibraryShape(t)
  PROVE  AssignCountExact'
<1>1. /\ TypeOK /\ \A k \in allocs : k \in Keys
      /\ \A k \in allocs : assign_count[k] = Cardinality(assign_mask[k])
  BY DEF LibraryInv, Ownership, AssignCountExact, TypeOK
<1>2. CASE QuietStep
  BY <1>1, <1>2 DEF QuietStep, Untouched, AssignCountExact
<1>3. ASSUME NEW K \in SUBSET allocs, FreedStep(K) PROVE AssignCountExact'
  BY <1>1, <1>3 DEF FreedStep, Freed, AssignCountExact
<1>4. ASSUME NEW j \in Keys, NEW mask \in SUBSET CPUs, AllocatedStep(j, mask)
      PROVE  AssignCountExact'
  <2>1. assign_count'[j] = Cardinality(assign_mask'[j])
    BY <1>4, FS_EmptySet DEF AllocatedStep, Allocated
  <2>2. \A k \in allocs' \ {j} : assign_count'[k] = Cardinality(assign_mask'[k])
    BY <1>1, <1>4 DEF AllocatedStep, Allocated, OthersKept
  <2> QED
    BY <2>1, <2>2 DEF AssignCountExact
<1>5. ASSUME NEW j \in allocs, NEW d \in CPUs, OnlyOn(j, d),
             assign_count'[j] = Cardinality(assign_mask'[j])
      PROVE  AssignCountExact'
  BY <1>1, <1>5 DEF OnlyOn, OthersKept, AssignCountExact
<1>6. ASSUME NEW j \in allocs, NEW d \in CPUs, NEW win \in Windows, AssignedStep(j, d, win)
      PROVE  AssignCountExact'
  <2>1. /\ OnlyOn(j, d) /\ d \notin assign_mask[j]
        /\ assign_mask'[j] = assign_mask[j] \cup {d}
        /\ assign_count'[j] = assign_count[j] + 1
    BY <1>6 DEF AssignedStep, Assigned
  <2>2. Cardinality(assign_mask[j] \cup {d}) = Cardinality(assign_mask[j]) + 1
    BY <1>1, <2>1, MaskFinite, FS_AddElement
  <2> QED
    BY <1>1, <1>5, <2>1, <2>2
<1>7. ASSUME NEW j \in allocs, NEW d \in CPUs, UnassignedStep(j, d) PROVE AssignCountExact'
  <2>1. /\ OnlyOn(j, d) /\ d \in assign_mask[j]
        /\ assign_mask'[j] = assign_mask[j] \ {d}
        /\ assign_count'[j] = assign_count[j] - 1
    BY <1>7 DEF UnassignedStep, Unassigned
  <2>2. Cardinality(assign_mask[j] \ {d}) = Cardinality(assign_mask[j]) - 1
    BY <1>1, <2>1, MaskFinite, FS_RemoveElement
  <2> QED
    BY <1>1, <1>5, <2>1, <2>2
<1> QED
  BY <1>2, <1>3, <1>4, <1>6, <1>7 DEF LibraryShape

-----------------------------------------------------------------------------
(***************************************************************************)
(* The library's pattern: the theorems                                     *)
(***************************************************************************)
LEMMA LibraryInvariant ==
  ASSUME LibraryPattern
  PROVE  Spec => []LibraryInv
<1>1. ASSUME Init PROVE LibraryInv
  <2>1. allocs = {} /\ reset_ipi = {} /\ \A c \in CPUs : bw_map[c] = {}
    BY <1>1 DEF Init
  <2> QED
    BY <1>1, <2>1, InitOwnership, InitLive
    DEF LibraryInv, AssignedInHardware, WindowsAccounted, AssignCountExact
<1>2. ASSUME LibraryInv, [Next]_vars PROVE LibraryInv'
  <2>1. Ownership' /\ LiveInv' /\ TypeOK'
    BY <1>2, NextOwnership, NextLive DEF LibraryInv, LibraryPattern, Ownership
  <2>2. CASE UNCHANGED vars
    <3>1. reset_ipi' = {} /\ AssignedInHardware' /\ WindowsAccounted' /\ AssignCountExact'
      BY <1>2, <2>2 DEF vars, bookkeeping, registers, LibraryInv, AssignedInHardware,
                        WindowsAccounted, AssignCountExact
    <3> QED
      BY <2>1, <3>1 DEF LibraryInv
  <2>3. ASSUME NEW t \in Threads, ClientStep(t) PROVE LibraryInv'
    <3>1. LibraryShape(t)
      BY <1>2, <2>3, LibraryStepShape DEF LibraryInv, Ownership
    <3>2. AssignedInHardware' /\ WindowsAccounted' /\ AssignCountExact'
      BY <1>2, <2>1, <3>1, InHardwareStep, AccountedStep, CountExactStep DEF LibraryInv
    <3>3. reset_ipi' = {}
      BY <1>2, <2>3, ClientWindowShape DEF LibraryInv, LiveInv, LibraryPattern
    <3> QED
      BY <2>1, <3>2, <3>3 DEF LibraryInv
  <2>4. ~ (\E t \in Threads, c \in CPUs : Reset(t, c)) /\ ~ (\E s, d \in CPUs : ResetCpu(s, d))
    BY <1>2 DEF LibraryPattern, LibraryInv, Reset, ResetCpu
  <2> QED
    BY <1>2, <2>2, <2>3, <2>4 DEF Next
<1> QED
  BY <1>1, <1>2, PTL DEF Spec

\* A window an allocation records is valid in the register of its CPU and looks
\* at the allocation's blade, so the barrier works and UNASSIGN succeeds.
THEOREM WindowsInHardware ==
  ASSUME LibraryPattern
  PROVE  Spec => []AssignedInHardware
<1>1. LibraryInv => AssignedInHardware
  BY DEF LibraryInv
<1> QED
  BY <1>1, LibraryInvariant, PTL

\* No window marked in use is without an allocation: none leaks.
THEOREM WindowsNotLeaked ==
  ASSUME LibraryPattern
  PROVE  Spec => []WindowsAccounted
<1>1. LibraryInv => WindowsAccounted
  BY DEF LibraryInv
<1> QED
  BY <1>1, LibraryInvariant, PTL

\* assign_count is the number of CPUs that have a window on the blade.
THEOREM CountExact ==
  ASSUME LibraryPattern
  PROVE  Spec => []AssignCountExact
<1>1. LibraryInv => AssignCountExact
  BY DEF LibraryInv
<1> QED
  BY <1>1, LibraryInvariant, PTL

\* A valid window never looks at a blade that is free: it is marked in use, so an
\* allocation records it, which is of the CPU's CMG and holds the blade.
THEOREM NoStaleWindow ==
  ASSUME LibraryPattern
  PROVE  Spec => []NoWindowOnFreeBlade
<1>1. ASSUME LibraryInv PROVE NoWindowOnFreeBlade
  <2>1. SUFFICES ASSUME NEW c \in CPUs, NEW w \in Windows, assign_sync[c][w].valid
                 PROVE  assign_sync[c][w].blade \in bb_active[cmgOf[c]]
    BY DEF NoWindowOnFreeBlade
  <2>2. w \in bw_map[c]
    BY <1>1, <2>1 DEF LibraryInv, LiveInv, LiveWindowsTracked, Reachable
  <2>3. PICK k \in allocs : c \in assign_mask[k] /\ window[k][c] = w
    BY <1>1, <2>2 DEF LibraryInv, WindowsAccounted
  <2>4. assign_sync[c][w] = [valid |-> TRUE, blade |-> Blade(k)]
    BY <1>1, <2>3 DEF LibraryInv, AssignedInHardware
  <2>5. Cmg(k) = cmgOf[c]
    BY <1>1, <2>3 DEF LibraryInv, Ownership, BladeProgrammed, PEs
  <2>6. Blade(k) \in bb_active[Cmg(k)]
    BY <1>1, <2>3 DEF LibraryInv, Ownership, BladeOwnership
  <2> QED
    BY <2>4, <2>5, <2>6
<1> QED
  BY <1>1, LibraryInvariant, PTL

\* No task changes a window register that another thread group has been given.
THEOREM WindowsIsolated ==
  ASSUME LibraryPattern
  PROVE  Spec => ForeignWindowsKept
<1> DEFINE Kept == \A t \in Threads :
                     (\E k \in allocs :
                        /\ tgid[Task(k)] # tgid[t]
                        /\ \E c \in assign_mask[k] : assign_sync'[c][window[k][c]]
                                                      # assign_sync[c][window[k][c]])
                       => ~ ClientStep(t)
<1>1. ASSUME LibraryInv, NEW t \in Threads, NEW k \in allocs, tgid[Task(k)] # tgid[t],
             NEW c \in assign_mask[k], ClientStep(t)
      PROVE  assign_sync'[c][window[k][c]] = assign_sync[c][window[k][c]]
  <2>1. LibraryShape(t) /\ TypeOK /\ WindowOwnership /\ k \in Keys /\ ~ Own(t, k)
    BY <1>1, LibraryStepShape DEF LibraryInv, Ownership, TypeOK, Own
  <2>2. c \in CPUs
    BY <2>1 DEF TypeOK
  <2>3. window[k][c] \in bw_map[c] /\ window[k][c] \in Windows
    BY <2>1, <2>2, WindowFacts
  <2>4. CASE QuietStep \/ \E j \in Keys, mask \in SUBSET CPUs : AllocatedStep(j, mask)
    BY <2>4 DEF QuietStep, AllocatedStep
  <2>5. ASSUME NEW K \in SUBSET allocs, FreedStep(K), \A j \in K : Own(t, j)
        PROVE  assign_sync'[c][window[k][c]] = assign_sync[c][window[k][c]]
    <3>1. window[k][c] \notin FreedWindows(K, assign_mask, assign_count, c)
      BY <2>1, <2>2, <2>5, OtherWindowsKept
    <3> QED
      BY <2>2, <2>3, <2>5, <3>1 DEF FreedStep, WindowsOfFreed
  <2>6. ASSUME NEW j \in allocs, NEW d \in CPUs, Own(t, j), NEW win \in Windows,
               AssignedStep(j, d, win)
        PROVE  assign_sync'[c][window[k][c]] = assign_sync[c][window[k][c]]
    <3>1. win \notin bw_map[d] /\ WindowSet(d, win, Blade(j)) /\ Blade(j) \in Blades
      BY <2>1, <2>6, KeyFacts DEF AssignedStep, Assigned, TypeOK
    <3>2. /\ \A w \in Windows \ {win} : assign_sync'[d][w] = assign_sync[d][w]
          /\ \A e \in CPUs \ {d} : assign_sync'[e] = assign_sync[e]
      BY <2>1, <3>1, WindowSetFacts
    <3> QED
      BY <2>2, <2>3, <3>1, <3>2
  <2>7. ASSUME NEW j \in allocs, NEW d \in CPUs, Own(t, j), UnassignedStep(j, d)
        PROVE  assign_sync'[c][window[k][c]] = assign_sync[c][window[k][c]]
    <3>1. d \in assign_mask[j] /\ window[j][d] \in Windows /\ WindowCleared(d, window[j][d])
      BY <2>7 DEF UnassignedStep, Unassigned
    <3>2. c = d => window[k][c] # window[j][d]
      BY <2>1, <2>2, <2>7, <3>1 DEF WindowOwnership
    <3>3. /\ \A w \in Windows \ {window[j][d]} : assign_sync'[d][w] = assign_sync[d][w]
          /\ \A e \in CPUs \ {d} : assign_sync'[e] = assign_sync[e]
      BY <2>1, <3>1, WindowClearedFacts
    <3> QED
      BY <2>2, <2>3, <3>2, <3>3
  <2> QED
    BY <2>1, <2>4, <2>5, <2>6, <2>7 DEF LibraryShape
<1>2. ASSUME LibraryInv, [Next]_vars PROVE [Kept]_vars
  BY <1>1, <1>2
<1> QED
  BY <1>2, LibraryInvariant, PTL DEF Spec, ForeignWindowsKept

=============================================================================
