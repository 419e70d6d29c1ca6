------------------------ MODULE HwbRefinementProofs -------------------------
(***************************************************************************)
(* Proof that HwbDriver implements HwbService.  Ownership says what a      *)
(* barrier looks like from outside (HeldSeen, FreeSeen); each shape of a   *)
(* step is then one step of the service, or none.                          *)
(***************************************************************************)
EXTENDS HwbRefinement, HwbOwnershipProofs

Barriers == CMGs \X Blades

\* The barrier x looks like this from outside.
Seen(x, p, mask, wins) == holder[x] = p /\ members[x] = mask /\ windows[x] = wins

\* The windows an allocation has, as the service sees them.
WindowsOf(k) == [c \in CPUs |-> IF c \in assign_mask[k] THEN {window[k][c]} ELSE {}]

Unattached == [c \in CPUs |-> {}]

HeldAsSeen ==
  \A k \in allocs : Seen(Barrier(k), {tgid[Task(k)]}, cpumask[k], WindowsOf(k))

FreeAsSeen ==
  \A x \in Barriers :
    (\A k \in allocs : Barrier(k) # x) => Seen(x, {}, {}, Unattached)

MappedFunctions ==
  /\ holder = [x \in Barriers |-> holder[x]]
  /\ members = [x \in Barriers |-> members[x]]
  /\ windows = [x \in Barriers |-> windows[x]]

LEMMA BarrierFacts ==
  \A k \in Keys : Barrier(k) \in Barriers /\ Barrier(k)[1] = Cmg(k) /\ Barrier(k)[2] = Blade(k)
BY KeyFacts DEF Barrier, Barriers

\* An allocation is the only one of its barrier, so the barrier shows its fields.
LEMMA HeldSeen == Ownership => HeldAsSeen
<1> SUFFICES ASSUME Ownership, NEW k \in allocs
             PROVE  Seen(Barrier(k), {tgid[Task(k)]}, cpumask[k], WindowsOf(k))
  BY DEF HeldAsSeen
<1> DEFINE x == Barrier(k)
<1>1. k \in Keys
  BY DEF Ownership, TypeOK
<1>2. x \in Barriers /\ x[1] = Cmg(k) /\ x[2] = Blade(k)
  BY <1>1, BarrierFacts
<1>3. AllocationsOf(x) = {k}
  <2>1. \A j \in allocs : Barrier(j) = Barrier(k) => j = k
    BY DEF Ownership, BladeOwnership, Barrier
  <2> QED BY <2>1 DEF AllocationsOf
<1>4. init_sync[Cmg(k)][Blade(k)] = cpumask[k]
  BY DEF Ownership, BladeProgrammed
<1> HIDE DEF x
<1>5. holder[x] = {tgid[Task(k)]}
  BY <1>2, <1>3 DEF holder, Barriers
<1>6. members[x] = cpumask[k]
  <2>1. UNION {init_sync[x[1]][x[2]] : j \in {k}} = init_sync[x[1]][x[2]]
    OBVIOUS
  <2> QED BY <1>2, <1>3, <1>4, <2>1 DEF members, Barriers
<1>7. windows[x] = WindowsOf(k)
  <2>1. \A c \in CPUs : {window[j][c] : j \in {i \in {k} : c \in assign_mask[i]}}
                          = IF c \in assign_mask[k] THEN {window[k][c]} ELSE {}
    OBVIOUS
  <2> QED BY <1>2, <1>3, <2>1 DEF windows, Barriers, WindowsOf
<1> QED BY <1>5, <1>6, <1>7 DEF Seen, x

LEMMA FreeSeen == FreeAsSeen
<1> SUFFICES ASSUME NEW x \in Barriers, \A k \in allocs : Barrier(k) # x
             PROVE  Seen(x, {}, {}, Unattached)
  BY DEF FreeAsSeen
<1>1. AllocationsOf(x) = {}
  BY DEF AllocationsOf
<1>2. holder[x] = {} /\ members[x] = {}
  BY <1>1 DEF holder, members, Barriers
<1>3. windows[x] = Unattached
  <2>1. \A c \in CPUs : {window[k][c] : k \in {j \in {} : c \in assign_mask[j]}} = {}
    OBVIOUS
  <2> QED BY <1>1, <2>1 DEF windows, Barriers, Unattached
<1> QED BY <1>2, <1>3 DEF Seen

LEMMA Mapped == MappedFunctions
BY DEF MappedFunctions, holder, members, windows, Barriers

\* The same of the next state.
LEMMA SeenNext == Ownership' => HeldAsSeen' /\ FreeAsSeen' /\ MappedFunctions'
BY HeldSeen, FreeSeen, Mapped, PTL

-----------------------------------------------------------------------------
(***************************************************************************)
(* What a step changes                                                     *)
(***************************************************************************)
Same(x) == holder'[x] = holder[x] /\ members'[x] = members[x] /\ windows'[x] = windows[x]

\* A barrier whose allocations do not change looks the same.
LEMMA SameSeen ==
  ASSUME Ownership, Ownership', NEW x \in Barriers,
         \A k \in Keys : Barrier(k) = x =>
           /\ k \in allocs <=> k \in allocs'
           /\ k \in allocs => /\ cpumask'[k] = cpumask[k]
                              /\ assign_mask'[k] = assign_mask[k]
                              /\ window'[k] = window[k]
  PROVE  Same(x)
<1>1. allocs \subseteq Keys /\ allocs' \subseteq Keys
  BY DEF Ownership, TypeOK
<1>2. HeldAsSeen /\ FreeAsSeen /\ HeldAsSeen' /\ FreeAsSeen'
  BY HeldSeen, FreeSeen, SeenNext
<1>3. CASE \E k \in allocs : Barrier(k) = x
  <2>1. PICK k \in allocs : Barrier(k) = x
    BY <1>3
  <2>2. k \in allocs' /\ cpumask'[k] = cpumask[k] /\ WindowsOf(k)' = WindowsOf(k)
    BY <1>1, <2>1 DEF WindowsOf
  <2>3. Seen(x, {tgid[Task(k)]}, cpumask[k], WindowsOf(k))
    BY <1>2, <2>1 DEF HeldAsSeen
  <2>4. /\ holder'[x] = {tgid[Task(k)]} /\ members'[x] = cpumask'[k]
        /\ windows'[x] = WindowsOf(k)'
    BY <1>2, <2>1, <2>2 DEF HeldAsSeen, Seen
  <2> QED BY <2>2, <2>3, <2>4 DEF Seen, Same
<1>4. CASE \A k \in allocs : Barrier(k) # x
  <2>1. \A k \in allocs' : Barrier(k) # x
    BY <1>1, <1>4
  <2>2. Seen(x, {}, {}, Unattached)
    BY <1>2, <1>4 DEF FreeAsSeen
  <2>3. holder'[x] = {} /\ members'[x] = {} /\ windows'[x] = Unattached
    BY <1>2, <2>1 DEF FreeAsSeen, Seen, Unattached
  <2> QED BY <2>2, <2>3 DEF Seen, Same
<1> QED BY <1>3, <1>4

\* Nothing is seen of a step that leaves the allocations alone.
LEMMA UntouchedStutters ==
  ASSUME Ownership, Ownership', Untouched
  PROVE  UNCHANGED Service!vars
<1>1. \A x \in Barriers : Same(x)
  BY SameSeen DEF Untouched
<1>2. MappedFunctions /\ MappedFunctions'
  BY Mapped, SeenNext
<1>3. holder' = holder /\ members' = members /\ windows' = windows
  BY <1>1, <1>2 DEF MappedFunctions, Same
<1> QED BY <1>3 DEF Service!vars

LEMMA DroppedResets ==
  ASSUME Ownership, Ownership', Dropped
  PROVE  Service!Reset
<1>1. \A x \in Barriers :
        holder'[x] = {} /\ members'[x] = {} /\ windows'[x] = Unattached
  BY SeenNext DEF Dropped, FreeAsSeen, Seen, Unattached
<1>2. MappedFunctions'
  BY SeenNext
<1> QED BY <1>1, <1>2 DEF MappedFunctions, Service!Reset, Service!Barriers, Barriers, Unattached

LEMMA FreedReleases ==
  ASSUME Ownership, Ownership', NEW K \in SUBSET allocs, Freed(K), NEW p,
         \A k \in K : tgid[Task(k)] = p
  PROVE  Service!Release(p, {Barrier(k) : k \in K}) /\ {Barrier(k) : k \in K} \in SUBSET Barriers
<1> DEFINE X == {Barrier(k) : k \in K}
<1>1. allocs \subseteq Keys /\ allocs' = allocs \ K
  BY DEF Ownership, TypeOK, Freed
<1>2. X \in SUBSET Barriers
  BY <1>1, BarrierFacts
<1>3. \A j, k \in allocs : Barrier(j) = Barrier(k) => j = k
  BY DEF Ownership, BladeOwnership, Barrier
<1>4. \A x \in X : holder[x] = {p}
  BY HeldSeen DEF HeldAsSeen, Seen
<1>5. ASSUME NEW x \in X PROVE holder'[x] = {} /\ members'[x] = {} /\ windows'[x] = Unattached
  <2>1. \A k \in allocs' : Barrier(k) # x
    BY <1>1, <1>3
  <2> QED BY <1>2, <2>1, SeenNext DEF FreeAsSeen, Seen, Unattached
<1>6. ASSUME NEW x \in Barriers \ X PROVE Same(x)
  <2>1. \A k \in Keys : Barrier(k) = x => (k \in allocs <=> k \in allocs') /\ k \notin K
    BY <1>1
  <2>2. \A k \in allocs \ K : /\ cpumask'[k] = cpumask[k]
                              /\ assign_mask'[k] = assign_mask[k]
                              /\ window'[k] = window[k]
    BY DEF Freed
  <2> QED BY <2>1, <2>2, SameSeen
<1>7. MappedFunctions'
  BY SeenNext
<1> HIDE DEF X
<1>8. /\ holder'  = [x \in Barriers |-> IF x \in X THEN {} ELSE holder[x]]
      /\ members' = [x \in Barriers |-> IF x \in X THEN {} ELSE members[x]]
      /\ windows' = [x \in Barriers |-> IF x \in X THEN Unattached ELSE windows[x]]
  BY <1>5, <1>6, <1>7 DEF MappedFunctions, Same
<1>9. Service!Release(p, X)
  BY <1>4, <1>8 DEF Service!Release, Service!Barriers, Barriers, Unattached
<1> QED BY <1>2, <1>9 DEF X

LEMMA AllocatedAcquires ==
  ASSUME Ownership, Ownership', NEW k \in Keys, NEW mask \in SUBSET CPUs, Allocated(k, mask)
  PROVE  Service!Acquire(tgid[Task(k)], Barrier(k), mask)
<1> DEFINE x == Barrier(k)
<1>1. /\ allocs' = allocs \cup {k} /\ k \in allocs'
      /\ cpumask'[k] = mask /\ assign_mask'[k] = {}
      /\ mask # {} /\ mask \subseteq PEs(Cmg(k))
      /\ OthersKept(k)
  BY DEF Allocated
<1>2. x \in Barriers /\ x[1] = Cmg(k)
  BY BarrierFacts
<1>3. \A j \in allocs : Barrier(j) # x
  BY DEF Allocated, Ownership, BladeOwnership, Barrier
<1>4. Seen(x, {}, {}, Unattached)
  BY <1>2, <1>3, FreeSeen DEF FreeAsSeen
<1>5. holder'[x] = {tgid[Task(k)]} /\ members'[x] = mask /\ windows'[x] = Unattached
  <2>1. Seen(Barrier(k), {tgid[Task(k)]}, cpumask[k], WindowsOf(k))'
    BY <1>1, SeenNext DEF HeldAsSeen
  <2>2. WindowsOf(k)' = Unattached
    BY <1>1 DEF WindowsOf, Unattached
  <2> QED BY <1>1, <2>1, <2>2 DEF Seen
<1>6. ASSUME NEW y \in Barriers \ {x} PROVE Same(y)
  <2>1. allocs \subseteq Keys
    BY DEF Ownership, TypeOK
  <2>2. \A j \in Keys : Barrier(j) = y => j \in Keys \ {k}
    OBVIOUS
  <2> QED BY <1>1, <2>1, <2>2, SameSeen DEF OthersKept
<1>7. MappedFunctions /\ MappedFunctions'
  BY Mapped, SeenNext
<1> HIDE DEF x
<1>8. /\ holder'  = [holder EXCEPT ![x] = {tgid[Task(k)]}]
      /\ members' = [members EXCEPT ![x] = mask]
      /\ windows' = windows
  BY <1>2, <1>4, <1>5, <1>6, <1>7 DEF MappedFunctions, Same, Seen
<1>9. \A c \in mask : cmgOf[c] = x[1]
  BY <1>1, <1>2 DEF PEs
<1>10. Service!Acquire(tgid[Task(k)], x, mask)
  BY <1>1, <1>4, <1>8, <1>9 DEF Service!Acquire, Seen
<1> QED BY <1>10 DEF x

\* A step that changes allocation k, on CPU c, changes one barrier, and of its
\* windows those of c.
LEMMA OneBarrierChanges ==
  ASSUME Ownership, Ownership', NEW k \in Keys, NEW c \in CPUs, OnlyOn(k, c),
         \A d \in CPUs \ {c} : d \in assign_mask'[k] <=> d \in assign_mask[k]
  PROVE  /\ Barrier(k) \in Barriers
         /\ Seen(Barrier(k), {tgid[Task(k)]}, cpumask[k], WindowsOf(k))
         /\ holder' = holder
         /\ members' = [members EXCEPT ![Barrier(k)] = cpumask'[k]]
         /\ windows' = [windows EXCEPT ![Barrier(k)][c] = WindowsOf(k)'[c]]
<1> DEFINE x == Barrier(k)
<1>1. k \in allocs /\ k \in allocs' /\ allocs' = allocs /\ OthersKept(k)
  BY DEF OnlyOn
<1>2. x \in Barriers
  BY BarrierFacts
<1>3. Seen(Barrier(k), {tgid[Task(k)]}, cpumask[k], WindowsOf(k))
  BY <1>1, HeldSeen DEF HeldAsSeen
<1>4. Seen(Barrier(k), {tgid[Task(k)]}, cpumask[k], WindowsOf(k))'
  BY <1>1, SeenNext DEF HeldAsSeen
<1>5. ASSUME NEW y \in Barriers \ {x} PROVE Same(y)
  <2>1. \A j \in Keys : Barrier(j) = y => j \in Keys \ {k}
    OBVIOUS
  <2> QED BY <1>1, <2>1, SameSeen DEF OthersKept
<1>6. WindowsOf(k)' = [WindowsOf(k) EXCEPT ![c] = WindowsOf(k)'[c]]
  <2>1. \A d \in CPUs \ {c} : window'[k][d] = window[k][d]
    BY DEF OnlyOn
  <2> QED BY <2>1 DEF WindowsOf
<1>7. MappedFunctions /\ MappedFunctions'
  BY Mapped, SeenNext
<1> HIDE DEF x
<1>8. /\ holder[x] = {tgid[Task(k)]} /\ holder'[x] = {tgid[Task(k)]}
      /\ members'[x] = cpumask'[k]
      /\ windows[x] = WindowsOf(k) /\ windows'[x] = WindowsOf(k)'
  BY <1>3, <1>4 DEF Seen, x
<1>9. holder' = holder
  BY <1>2, <1>5, <1>7, <1>8 DEF MappedFunctions, Same
<1>10. members' = [members EXCEPT ![x] = cpumask'[k]]
  BY <1>2, <1>5, <1>7, <1>8 DEF MappedFunctions, Same
<1>11. windows' = [windows EXCEPT ![x][c] = WindowsOf(k)'[c]]
  <2>1. windows'[x] = [windows[x] EXCEPT ![c] = WindowsOf(k)'[c]]
    BY <1>6, <1>8
  <2> QED BY <1>2, <1>5, <1>7, <2>1 DEF MappedFunctions, Same
<1> QED BY <1>2, <1>3, <1>9, <1>10, <1>11 DEF x

LEMMA LeftLeaves ==
  ASSUME Ownership, Ownership', NEW k \in allocs, NEW c \in CPUs, Left(k, c)
  PROVE  Service!Leave(tgid[Task(k)], Barrier(k), c)
<1>1. /\ OnlyOn(k, c)
      /\ c \in cpumask[k] /\ cpumask'[k] = cpumask[k] \ {c} /\ cpumask'[k] # {}
      /\ assign_mask'[k] = assign_mask[k] \ {c}
  BY DEF Left
<1>2. k \in Keys
  BY DEF Ownership, TypeOK
<1>3. WindowsOf(k)'[c] = {}
  BY <1>1 DEF WindowsOf
<1>4. /\ holder[Barrier(k)] = {tgid[Task(k)]} /\ members[Barrier(k)] = cpumask[k]
      /\ holder' = holder
      /\ members' = [members EXCEPT ![Barrier(k)] = cpumask'[k]]
      /\ windows' = [windows EXCEPT ![Barrier(k)][c] = {}]
  BY <1>1, <1>2, <1>3, OneBarrierChanges DEF Seen
<1> QED BY <1>1, <1>4 DEF Service!Leave

LEMMA UnassignedDetaches ==
  ASSUME Ownership, Ownership', NEW k \in allocs, NEW c \in CPUs, Unassigned(k, c)
  PROVE  Service!Detach(tgid[Task(k)], Barrier(k), c)
<1>1. /\ OnlyOn(k, c) /\ window[k][c] \in Windows
      /\ cpumask'[k] = cpumask[k] /\ assign_mask'[k] = assign_mask[k] \ {c}
  BY DEF Unassigned
<1>2. k \in Keys
  BY DEF Ownership, TypeOK
<1>3. c \in assign_mask[k]
  BY <1>1, IndexFacts DEF Ownership, WindowOwnership
<1>4. WindowsOf(k)'[c] = {} /\ WindowsOf(k)[c] # {}
  BY <1>1, <1>3 DEF WindowsOf
<1>5. /\ Seen(Barrier(k), {tgid[Task(k)]}, cpumask[k], WindowsOf(k))
      /\ holder' = holder
      /\ members' = [members EXCEPT ![Barrier(k)] = cpumask[k]]
      /\ windows' = [windows EXCEPT ![Barrier(k)][c] = {}]
  BY <1>1, <1>2, <1>4, OneBarrierChanges
<1>6. members' = members
  BY <1>5, Mapped DEF Seen, MappedFunctions
<1> QED BY <1>4, <1>5, <1>6 DEF Service!Detach, Seen

LEMMA AssignedAttaches ==
  ASSUME Ownership, Ownership', NEW k \in allocs, NEW c \in CPUs, NEW win \in Windows,
         Assigned(k, c, win)
  PROVE  Service!Attach(tgid[Task(k)], Barrier(k), c, win)
<1>1. /\ OnlyOn(k, c) /\ c \in cpumask[k] /\ win \notin bw_map[c]
      /\ window'[k][c] = win
      /\ cpumask'[k] = cpumask[k] /\ assign_mask'[k] = assign_mask[k] \cup {c}
  BY DEF Assigned
<1>2. k \in Keys
  BY DEF Ownership, TypeOK
<1>3. WindowsOf(k)'[c] = {win}
  BY <1>1 DEF WindowsOf
<1>4. /\ Seen(Barrier(k), {tgid[Task(k)]}, cpumask[k], WindowsOf(k))
      /\ holder' = holder
      /\ members' = [members EXCEPT ![Barrier(k)] = cpumask[k]]
      /\ windows' = [windows EXCEPT ![Barrier(k)][c] = {win}]
  BY <1>1, <1>2, <1>3, OneBarrierChanges
<1>5. members' = members
  BY <1>4, Mapped DEF Seen, MappedFunctions
<1>6. ASSUME NEW y \in Barriers PROVE win \notin windows[y][c]
  <2>1. CASE \E j \in allocs : Barrier(j) = y
    <3>1. PICK j \in allocs : Barrier(j) = y
      BY <2>1
    <3>2. windows[y] = WindowsOf(j)
      BY <3>1, HeldSeen DEF HeldAsSeen, Seen
    <3>3. c \in assign_mask[j] => window[j][c] # win
      BY <1>1 DEF Ownership, WindowOwnership
    <3> QED BY <3>2, <3>3 DEF WindowsOf
  <2>2. CASE \A j \in allocs : Barrier(j) # y
    BY <2>2, FreeSeen DEF FreeAsSeen, Seen, Unattached
  <2> QED BY <2>1, <2>2
<1> QED BY <1>1, <1>4, <1>5, <1>6 DEF Service!Attach, Service!Barriers, Barriers, Seen

-----------------------------------------------------------------------------
(***************************************************************************)
(* The refinement                                                          *)
(***************************************************************************)
LEMMA InitRefines == Init => Service!Init
<1> SUFFICES ASSUME Init PROVE Service!Init
  OBVIOUS
<1>1. \A x \in Barriers : Seen(x, {}, {}, Unattached)
  BY FreeSeen DEF FreeAsSeen, Init
<1>2. /\ holder  = [x \in Barriers |-> {}]
      /\ members = [x \in Barriers |-> {}]
      /\ windows = [x \in Barriers |-> Unattached]
  BY <1>1, Mapped DEF MappedFunctions, Seen
<1> QED BY <1>2 DEF Service!Init, Service!Barriers, Barriers, Unattached

\* What a task does is one step of its process, or none.
LEMMA ClientShapeRefines ==
  ASSUME Ownership, Ownership', NEW t \in Threads, ClientShape(t)
  PROVE  [Service!Next]_(Service!vars)
<1> DEFINE p == tgid[t]
<1>1. p \in Groups
  BY ClientAssumption
<1>2. allocs \subseteq Keys
  BY DEF Ownership, TypeOK
<1>3. \A k \in Keys : Barrier(k) \in Service!Barriers
  BY BarrierFacts DEF Barriers, Service!Barriers
<1> HIDE DEF p
<1>4. CASE Untouched
  BY <1>4, UntouchedStutters
<1>5. ASSUME NEW K \in SUBSET allocs, Freed(K), \A k \in K : Own(t, k)
      PROVE  Service!Next
  <2>1. \A k \in K : tgid[Task(k)] = p
    BY <1>5 DEF Own, p
  <2>2. \E X \in SUBSET Service!Barriers : Service!Release(p, X)
    BY <1>5, <2>1, FreedReleases DEF Barriers, Service!Barriers
  <2> QED BY <1>1, <2>2 DEF Service!Next
<1>6. ASSUME NEW k \in Keys, NEW mask \in SUBSET CPUs, Allocated(k, mask), Own(t, k)
      PROVE  Service!Next
  <2>1. Service!Acquire(p, Barrier(k), mask)
    BY <1>6, AllocatedAcquires DEF Own, p
  <2> QED BY <1>1, <1>3, <2>1 DEF Service!Next
<1>7. ASSUME NEW k \in allocs, NEW c \in CPUs, Own(t, k), Left(k, c)
      PROVE  Service!Next
  <2>1. Service!Leave(p, Barrier(k), c)
    BY <1>7, LeftLeaves DEF Own, p
  <2> QED BY <1>1, <1>2, <1>3, <2>1 DEF Service!Next
<1>8. ASSUME NEW k \in allocs, NEW c \in CPUs, Own(t, k), Unassigned(k, c)
      PROVE  Service!Next
  <2>1. Service!Detach(p, Barrier(k), c)
    BY <1>8, UnassignedDetaches DEF Own, p
  <2> QED BY <1>1, <1>2, <1>3, <2>1 DEF Service!Next
<1>9. ASSUME NEW k \in allocs, NEW c \in CPUs, NEW win \in Windows, Own(t, k),
             Assigned(k, c, win)
      PROVE  Service!Next
  <2>1. Service!Attach(p, Barrier(k), c, win)
    BY <1>9, AssignedAttaches DEF Own, p
  <2> QED BY <1>1, <1>2, <1>3, <2>1 DEF Service!Next
<1> QED
  BY <1>4, <1>5, <1>6, <1>7, <1>8, <1>9 DEF ClientShape

LEMMA NextRefines ==
  Ownership /\ Ownership' /\ [Next]_vars => [Service!Next]_(Service!vars)
<1> SUFFICES ASSUME Ownership, Ownership', [Next]_vars
             PROVE  [Service!Next]_(Service!vars)
  OBVIOUS
<1>1. TypeOK
  BY DEF Ownership
<1>2. CASE Untouched
  BY <1>2, UntouchedStutters
<1>3. CASE Dropped
  BY <1>3, DroppedResets DEF Service!Next
<1>4. ASSUME NEW t \in Threads, ClientShape(t) PROVE [Service!Next]_(Service!vars)
  BY <1>4, ClientShapeRefines
<1> QED BY <1>1, <1>2, <1>3, <1>4, StepShape

\* The driver implements the service it is there for: one process per blade,
\* the hardware set up for exactly the CPUs that have not left, and a window
\* that shows one blade at a time, for any number of tasks, processes, CPUs,
\* CMGs, blades and windows and whatever the clients do.
THEOREM ServiceImplemented == Spec => ImplementsService
<1>1. Spec => Service!Init /\ [][Service!Next]_(Service!vars)
  BY InitRefines, NextRefines, OwnershipInvariant, PTL DEF Spec
<1> QED BY <1>1 DEF ImplementsService, Service!Spec

=============================================================================
