--------------------------- MODULE HwbClientProofs ---------------------------
(***************************************************************************)
(* Proofs about what the clients of the driver know, and about what is     *)
(* left of them, for every number of processes, CPUs, CMGs, blades,        *)
(* windows and open file descriptions, whichever of the processes meet     *)
(* failing calls.                                                          *)
(*                                                                         *)
(* The processes use the driver in the library's pattern, so what          *)
(* HwbLibraryProofs shows holds.  Two things are added, each an inductive  *)
(* invariant: Life counts open file descriptions and follows who closes    *)
(* the last one of a process, which is what a process leaves behind hangs  *)
(* on; Informed keeps what a process knows in step with what the driver    *)
(* does for it, while other processes call.                                *)
(***************************************************************************)
EXTENDS HwbClient, HwbLibraryProofs

\* What a call does to the driver.
LEMMA CallIsDriverStep ==
  ASSUME TypeOK, NEW t \in Threads, BladeCall(t) \/ WindowCall(t)
  PROVE  ClientStep(t) \/ UNCHANGED vars
<1> USE ProcessAssumption
<1>1. SomeCpu \in CPUs /\ -1 \in WindowArgs /\ task_list \subseteq Threads
  BY DEF SomeCpu, TypeOK
<1>2. \A m \in TaskMap(t) : m \in Threads
  BY <1>1 DEF TaskMap
<1>3. \A x \in Barriers : x[1] \in CMGs /\ x[2] \in Blades
  BY DEF Barriers
<1>4. ASSUME NEW g \in CMGs, NEW mask \in SUBSET CPUs, NEW copied, Allocate(t, g, mask, copied)
      PROVE  ClientStep(t)
  BY <1>1, <1>4 DEF Allocate, ClientStep
<1>5. ASSUME NEW g \in CMGs, AllocateRefused(t, g) PROVE ClientStep(t)
  BY <1>5 DEF AllocateRefused, ClientStep
<1>6. ASSUME NEW g \in CMGs, AllocatePhantom(t, g) PROVE ClientStep(t) \/ UNCHANGED vars
  <2>1. CASE TaskMap(t) = {}
    <3>1. AllocateNothing(t, g)
      BY <1>6, <2>1 DEF AllocatePhantom, AllocateNothing, RegisteredTaskMap
    <3> QED
      BY <3>1 DEF ClientStep
  <2>2. CASE TaskMap(t) # {}
    <3>1. task_list' = task_list
      BY <1>6, <2>2 DEF AllocatePhantom, RegisteredTaskMap, TaskMap
    <3> QED
      BY <1>6, <3>1 DEF AllocatePhantom, vars
  <2> QED
    BY <2>1, <2>2
<1>7. ASSUME NEW x \in Barriers, NEW copied, Free(t, x, copied) PROVE ClientStep(t)
  BY <1>1, <1>3, <1>7 DEF Free, ClientStep
<1>8. ASSUME NEW x \in Barriers, FreeRefused(t, x) PROVE UNCHANGED vars
  BY <1>8 DEF FreeRefused
<1>9. ASSUME NEW c \in CPUs, NEW b \in Blades, NEW win \in Windows, NEW copied,
             Assign(t, c, b, win, copied)
      PROVE  ClientStep(t)
  BY <1>1, <1>2, <1>9 DEF Assign, ClientStep
<1>10. ASSUME NEW c \in CPUs, NEW b \in Blades, NEW copied, Unassign(t, c, b, copied)
       PROVE  ClientStep(t)
  BY <1>2, <1>10 DEF Unassign, ClientStep
<1>11. ASSUME NEW c \in CPUs, NEW b \in Blades, UnassignRefused(t, c, b)
       PROVE  UNCHANGED vars
  BY <1>11 DEF UnassignRefused
<1> QED
  BY <1>4, <1>5, <1>6, <1>7, <1>8, <1>9, <1>10, <1>11 DEF BladeCall, WindowCall

LEMMA ClientIsDriverStep ==
  ASSUME TypeOK, [ClientNext]_clientVars
  PROVE  [Next]_vars
<1>1. SomeCpu \in CPUs
  BY ProcessAssumption DEF SomeCpu
<1>2. ASSUME NEW t \in Threads, BladeCall(t) \/ WindowCall(t) PROVE [Next]_vars
  BY <1>2, CallIsDriverStep DEF Next
<1>3. ASSUME NEW t \in Threads, OpenDevice(t) PROVE Next
  BY <1>3 DEF OpenDevice, ClientStep, Next
<1>4. ASSUME NEW t \in Threads, CloseDevice(t) PROVE Next
  BY <1>1, <1>4 DEF CloseDevice, ClientStep, Next
<1>5. ASSUME NEW p \in Groups, Exit(p) \/ Gone(p) \/ Start(p) PROVE UNCHANGED vars
  BY <1>5 DEF Exit, Gone, Start
<1>6. CASE UNCHANGED clientVars
  BY <1>6 DEF clientVars
<1> QED
  BY <1>2, <1>3, <1>4, <1>5, <1>6 DEF ClientNext

LEMMA ClientType == ClientSpec => []TypeOK
<1>1. ClientInit => TypeOK
  BY InitTypeOK DEF ClientInit
<1>2. TypeOK /\ [ClientNext]_clientVars => TypeOK'
  BY ClientIsDriverStep, NextTypeOK
<1> QED
  BY <1>1, <1>2, PTL DEF ClientSpec

\* Processes whose calls fail, and that are killed at any time, are clients of the
\* driver like all others: what is proved of HwbDriver holds for them.
THEOREM ClientUsesDriver == ClientSpec => Spec
<1>1. ClientInit => Init
  BY DEF ClientInit
<1>2. TypeOK /\ [ClientNext]_clientVars => [Next]_vars
  BY ClientIsDriverStep
<1> QED
  BY <1>1, <1>2, ClientType, PTL DEF ClientSpec, Spec

DriverInv == LibraryInv /\ TaskMapOwnership

LEMMA ClientDriverInv == ClientSpec => []DriverInv
<1>1. LibraryPattern
  BY ProcessAssumption DEF LibraryPattern, OneMaster
<1>2. Spec => []LibraryInv
  BY <1>1, LibraryInvariant
<1>3. LibraryInv /\ TaskMapOwnership => DriverInv
  BY DEF DriverInv
<1> QED
  BY <1>2, <1>3, TaskMapsOwned, ClientUsesDriver, PTL

-----------------------------------------------------------------------------
(***************************************************************************)
(* The life of a process                                                   *)
(***************************************************************************)
ClientTypeOK ==
  /\ status   \in [Groups -> {"runs", "exits", "gone"}]
  /\ closer   \in [Groups -> SUBSET Threads]
  /\ known    \in [Groups -> SUBSET Barriers]
  /\ doubt    \in [Groups -> SUBSET Barriers]
  /\ phantom  \in [Groups -> SUBSET Barriers]
  /\ windows  \in [Groups -> SUBSET (CPUs \X Blades \X Windows)]
  /\ winDoubt \in [Groups -> SUBSET (CPUs \X Blades)]

\* The open file descriptions of all processes.
Descriptions == {d \in Groups \X Nat : 1 <= d[2] /\ d[2] <= opened[d[1]]}

\* A process that knows nothing.
Ignorant(p) ==
  /\ known[p] = {} /\ doubt[p] = {} /\ phantom[p] = {}
  /\ windows[p] = {} /\ winDoubt[p] = {}

\* A task mapping keeps a description open, unless another task of the process has
\* closed the last one.
MappingKept(m) ==
  \/ opened[tgid[m]] > 0
  \/ \E t \in Threads \ {m} : closer[tgid[m]] = {t}

\* A process that is gone has nothing open and, once it ends, knows nothing any more.
LifeOf(p) ==
  /\ status[p] = "gone" => opened[p] = 0
  /\ status[p] # "runs" => Ignorant(p)

\* The driver counts the descriptions.
Life ==
  /\ IsFiniteSet(Descriptions) /\ Cardinality(Descriptions) = active_count
  /\ \A m \in task_list : MappingKept(m)
  /\ \A p \in Groups : LifeOf(p)

KnowledgeKept(p) ==
  /\ known'[p] = known[p] /\ doubt'[p] = doubt[p] /\ phantom'[p] = phantom[p]
  /\ windows'[p] = windows[p] /\ winDoubt'[p] = winDoubt[p]

LEMMA TaskGroups == \A t \in Threads : tgid[t] \in Groups
BY ClientAssumption

\* Forgetting, and being told.
LEMMA ForgetsType ==
  ASSUME ClientTypeOK, NEW p \in Groups, NEW X, Forgets(p, X)
  PROVE  /\ known' \in [Groups -> SUBSET Barriers]
         /\ doubt' \in [Groups -> SUBSET Barriers]
         /\ phantom' \in [Groups -> SUBSET Barriers]
         /\ windows' \in [Groups -> SUBSET (CPUs \X Blades \X Windows)]
         /\ winDoubt' \in [Groups -> SUBSET (CPUs \X Blades)]
         /\ \A q \in Groups \ {p} : KnowledgeKept(q)
         /\ known'[p] = known[p] \ X /\ doubt'[p] = doubt[p] \ X
         /\ phantom'[p] = phantom[p] \ X
         /\ windows'[p] = {e \in windows[p] : <<cmgOf[e[1]], e[2]>> \notin X}
         /\ winDoubt'[p] = {e \in winDoubt[p] : <<cmgOf[e[1]], e[2]>> \notin X}
BY DEF ClientTypeOK, Forgets, KnowledgeKept

LEMMA ForgetsAll ==
  ASSUME ClientTypeOK, NEW p \in Groups, Forgets(p, Barriers)
  PROVE  /\ known'[p] = {} /\ doubt'[p] = {} /\ phantom'[p] = {}
         /\ windows'[p] = {} /\ winDoubt'[p] = {}
<1>1. \A c \in CPUs, b \in Blades : <<cmgOf[c], b>> \in Barriers
  BY TopologyAssumption DEF Barriers
<1>2. /\ \A e \in windows[p] : e[1] \in CPUs /\ e[2] \in Blades
      /\ \A e \in winDoubt[p] : e[1] \in CPUs /\ e[2] \in Blades
      /\ known[p] \subseteq Barriers /\ doubt[p] \subseteq Barriers
      /\ phantom[p] \subseteq Barriers
  BY DEF ClientTypeOK
<1>3. /\ known'[p] = known[p] \ Barriers /\ doubt'[p] = doubt[p] \ Barriers
      /\ phantom'[p] = phantom[p] \ Barriers
      /\ windows'[p] = {e \in windows[p] : <<cmgOf[e[1]], e[2]>> \notin Barriers}
      /\ winDoubt'[p] = {e \in winDoubt[p] : <<cmgOf[e[1]], e[2]>> \notin Barriers}
  BY ForgetsType
<1>4. known'[p] = {} /\ doubt'[p] = {} /\ phantom'[p] = {}
  BY <1>2, <1>3
<1>5. windows'[p] = {} /\ winDoubt'[p] = {}
  BY <1>1, <1>2, <1>3
<1> QED
  BY <1>4, <1>5

\* What all calls have in common.
CallEffect(t) ==
  /\ UNCHANGED <<status, closer, opened, active_count>>
  /\ opened[tgid[t]] > 0 /\ Runs(t)
  /\ task_list' \subseteq task_list \cup {t}
  /\ ClientTypeOK'
  /\ \A p \in Groups \ {tgid[t]} : KnowledgeKept(p)

LEMMA AllocateEffect ==
  ASSUME TypeOK, TypeOK', ClientTypeOK, NEW t \in Threads, NEW g \in CMGs,
         NEW mask \in SUBSET CPUs, NEW copied, Allocate(t, g, mask, copied)
  PROVE  CallEffect(t)
<1> DEFINE new == {Answered(Cmg(k), Blade(k)) : k \in allocs' \ allocs}
<1>1. new \subseteq Barriers
  BY KeyFacts DEF TypeOK, Answered, Barriers
<1>2. /\ UNCHANGED <<status, closer, opened, active_count, windows, winDoubt>>
      /\ opened[tgid[t]] > 0 /\ Runs(t)
  BY DEF Allocate, AllocateBlade, WindowsUnchanged
<1>3. task_list' \subseteq task_list \cup {t}
  <2>1. PICK m \in RegisteredTaskMap(t) : task_list' = task_list \cup {m}
    BY DEF Allocate, AllocateBlade
  <2> QED
    BY <2>1 DEF RegisteredTaskMap, TaskMap
<1>4. \/ /\ known'   = [known EXCEPT ![tgid[t]] = @ \cup new]
         /\ phantom' = [phantom EXCEPT ![tgid[t]] = @ \ new]
         /\ doubt'   = doubt
      \/ /\ doubt'   = [doubt EXCEPT ![tgid[t]] = @ \cup new]
         /\ known'   = known
         /\ phantom' = phantom
  BY DEF Allocate
<1> HIDE DEF new
<1>5. ClientTypeOK'
  BY <1>1, <1>2, <1>4, TaskGroups DEF ClientTypeOK
<1>6. \A p \in Groups \ {tgid[t]} : KnowledgeKept(p)
  BY <1>2, <1>4 DEF ClientTypeOK, KnowledgeKept
<1> QED
  BY <1>2, <1>3, <1>5, <1>6 DEF CallEffect

LEMMA AllocatePhantomEffect ==
  ASSUME TypeOK, ClientTypeOK, NEW t \in Threads, NEW g \in CMGs, AllocatePhantom(t, g)
  PROVE  CallEffect(t)
<1>1. PICK bit \in Blades :
        /\ known'   = [known EXCEPT ![tgid[t]] = @ \cup {<<g, bit>>}]
        /\ phantom' = [phantom EXCEPT ![tgid[t]] = @ \cup {<<g, bit>>}]
  BY DEF AllocatePhantom
<1>2. <<g, bit>> \in Barriers
  BY DEF Barriers
<1>3. /\ UNCHANGED <<status, closer, opened, active_count, doubt, windows, winDoubt>>
      /\ opened[tgid[t]] > 0 /\ Runs(t)
      /\ task_list' \subseteq task_list \cup {t}
  BY DEF AllocatePhantom, WindowsUnchanged, RegisteredTaskMap, TaskMap
<1>4. ClientTypeOK'
  BY <1>1, <1>2, <1>3, TaskGroups DEF ClientTypeOK
<1>5. \A p \in Groups \ {tgid[t]} : KnowledgeKept(p)
  BY <1>1, <1>3 DEF ClientTypeOK, KnowledgeKept
<1> QED
  BY <1>3, <1>4, <1>5 DEF CallEffect

LEMMA FreeEffect ==
  ASSUME TypeOK, ClientTypeOK, NEW t \in Threads, NEW x \in Barriers, NEW copied,
         Free(t, x, copied)
  PROVE  CallEffect(t)
<1>1. /\ UNCHANGED <<status, closer, opened, active_count>>
      /\ opened[tgid[t]] > 0 /\ Runs(t)
      /\ task_list' \subseteq task_list \cup {t}
  BY DEF Free, FreeByOwner, UnregisterIfUnused
<1>2. CASE Forgets(tgid[t], {x})
  BY <1>1, <1>2, ForgetsType, TaskGroups DEF CallEffect, ClientTypeOK
<1>3. CASE /\ known' = [known EXCEPT ![tgid[t]] = @ \ {x}]
           /\ doubt' = [doubt EXCEPT ![tgid[t]] = @ \cup {x}]
           /\ windows' = [windows EXCEPT ![tgid[t]] =
                            {e \in @ : <<cmgOf[e[1]], e[2]>> # x}]
           /\ UNCHANGED <<phantom, winDoubt>>
  <2>1. windows' \in [Groups -> SUBSET (CPUs \X Blades \X Windows)]
    BY <1>3, TaskGroups DEF ClientTypeOK
  <2>2. ClientTypeOK'
    BY <1>1, <1>3, <2>1, TaskGroups DEF ClientTypeOK
  <2>3. \A p \in Groups \ {tgid[t]} : KnowledgeKept(p)
    BY <1>3 DEF ClientTypeOK, KnowledgeKept
  <2> QED
    BY <1>1, <2>2, <2>3 DEF CallEffect
<1> QED
  BY <1>2, <1>3 DEF Free

LEMMA AssignEffect ==
  ASSUME TypeOK, ClientTypeOK, NEW t \in Threads, NEW c \in CPUs, NEW b \in Blades,
         NEW win \in Windows, NEW copied, Assign(t, c, b, win, copied)
  PROVE  CallEffect(t)
<1>1. /\ UNCHANGED <<status, closer, opened, active_count, task_list, known, doubt, phantom>>
      /\ opened[tgid[t]] > 0 /\ Runs(t)
  BY DEF Assign, AssignBlade, BladesUnchanged
<1>2. \/ /\ windows' = [windows EXCEPT ![tgid[t]] = @ \cup {<<c, b, win>>}]
         /\ winDoubt' = winDoubt
      \/ /\ winDoubt' = [winDoubt EXCEPT ![tgid[t]] = @ \cup {<<c, b>>}]
         /\ windows' = windows
  BY DEF Assign
<1>3. ClientTypeOK'
  BY <1>1, <1>2, TaskGroups DEF ClientTypeOK
<1>4. \A p \in Groups \ {tgid[t]} : KnowledgeKept(p)
  BY <1>1, <1>2 DEF ClientTypeOK, KnowledgeKept
<1> QED
  BY <1>1, <1>3, <1>4 DEF CallEffect

LEMMA UnassignEffect ==
  ASSUME TypeOK, ClientTypeOK, NEW t \in Threads, NEW c \in CPUs, NEW b \in Blades,
         NEW copied, Unassign(t, c, b, copied)
  PROVE  CallEffect(t)
<1>1. /\ UNCHANGED <<status, closer, opened, active_count, task_list, known, doubt, phantom>>
      /\ opened[tgid[t]] > 0 /\ Runs(t)
  BY DEF Unassign, UnassignBlade, BladesUnchanged
<1>2. /\ windows'  = [windows EXCEPT ![tgid[t]] = {e \in @ : <<e[1], e[2]>> # <<c, b>>}]
      /\ winDoubt' = [winDoubt EXCEPT ![tgid[t]] =
                        IF copied THEN @ \ {<<c, b>>} ELSE @ \cup {<<c, b>>}]
  BY DEF Unassign
<1>3. windows' \in [Groups -> SUBSET (CPUs \X Blades \X Windows)]
  BY <1>2, TaskGroups DEF ClientTypeOK
<1>4. winDoubt' \in [Groups -> SUBSET (CPUs \X Blades)]
  BY <1>2, TaskGroups DEF ClientTypeOK
<1>5. ClientTypeOK'
  BY <1>1, <1>3, <1>4 DEF ClientTypeOK
<1>6. \A p \in Groups \ {tgid[t]} : KnowledgeKept(p)
  BY <1>1, <1>2 DEF ClientTypeOK, KnowledgeKept
<1> QED
  BY <1>1, <1>5, <1>6 DEF CallEffect

\* The calls that are refused.
LEMMA RefusedEffect ==
  ASSUME TypeOK, ClientTypeOK, NEW t \in Threads,
         \/ \E g \in CMGs : AllocateRefused(t, g)
         \/ \E x \in Barriers : FreeRefused(t, x)
         \/ \E c \in CPUs, b \in Blades : UnassignRefused(t, c, b)
  PROVE  CallEffect(t)
<1>1. ASSUME NEW g \in CMGs, AllocateRefused(t, g) PROVE CallEffect(t)
  BY <1>1 DEF AllocateRefused, AllocateNothing, knowledge, CallEffect, ClientTypeOK,
              KnowledgeKept
<1>2. ASSUME NEW x \in Barriers, FreeRefused(t, x) PROVE CallEffect(t)
  <2>1. /\ UNCHANGED <<status, closer, opened, active_count, task_list>>
        /\ opened[tgid[t]] > 0 /\ Runs(t) /\ Forgets(tgid[t], {x})
    BY <1>2 DEF FreeRefused, vars
  <2> QED
    BY <2>1, ForgetsType, TaskGroups DEF CallEffect, ClientTypeOK
<1>3. ASSUME NEW c \in CPUs, NEW b \in Blades, UnassignRefused(t, c, b)
      PROVE  CallEffect(t)
  <2>1. /\ UNCHANGED <<status, closer, opened, active_count, task_list, known, doubt, phantom, windows>>
        /\ opened[tgid[t]] > 0 /\ Runs(t)
        /\ winDoubt' = [winDoubt EXCEPT ![tgid[t]] = @ \ {<<c, b>>}]
    BY <1>3 DEF UnassignRefused, vars
  <2> QED
    BY <2>1, TaskGroups DEF CallEffect, ClientTypeOK, KnowledgeKept
<1> QED
  BY <1>1, <1>2, <1>3

LEMMA CallsEffect ==
  ASSUME TypeOK, TypeOK', ClientTypeOK, NEW t \in Threads, BladeCall(t) \/ WindowCall(t)
  PROVE  CallEffect(t)
BY AllocateEffect, AllocatePhantomEffect, FreeEffect, AssignEffect, UnassignEffect,
   RefusedEffect DEF BladeCall, WindowCall

-----------------------------------------------------------------------------
(***************************************************************************)
(* Life                                                                    *)
(***************************************************************************)
LEMMA CallLife ==
  ASSUME TypeOK, Life, NEW t \in Threads, CallEffect(t)
  PROVE  Life'
<1>1. Descriptions' = Descriptions
  BY DEF Descriptions, CallEffect
<1>2. ASSUME NEW m \in task_list' PROVE MappingKept(m)'
  BY DEF CallEffect, Life, MappingKept
<1>3. ASSUME NEW p \in Groups PROVE LifeOf(p)'
  <2>1. CASE p = tgid[t]
    BY <2>1 DEF CallEffect, LifeOf, Life, Runs
  <2>2. CASE p # tgid[t]
    <3>1. KnowledgeKept(p)
      BY <2>2 DEF CallEffect
    <3> QED
      BY <3>1 DEF Life, LifeOf, Ignorant, CallEffect, KnowledgeKept
  <2> QED
    BY <2>1, <2>2
<1> QED
  BY <1>1, <1>2, <1>3 DEF Life, CallEffect

LEMMA OpenLife ==
  ASSUME TypeOK, Life, ClientTypeOK, NEW t \in Threads, OpenDevice(t)
  PROVE  Life' /\ ClientTypeOK'
<1> DEFINE p == tgid[t]
           d == <<p, opened[p] + 1>>
<1>1. p \in Groups /\ opened[p] \in Nat /\ Runs(t)
  BY TaskGroups DEF TypeOK, OpenDevice
<1>2. /\ opened' = [opened EXCEPT ![p] = @ + 1] /\ active_count' = active_count + 1
      /\ closer' = [closer EXCEPT ![p] = {}]
      /\ UNCHANGED <<task_list, status, known, doubt, phantom, windows, winDoubt>>
  BY DEF OpenDevice, Open, knowledge
<1>3. /\ opened'[p] = opened[p] + 1
      /\ \A q \in Groups \ {p} : opened'[q] = opened[q]
      /\ \A q \in Groups : opened[q] \in Nat
  BY <1>1, <1>2 DEF TypeOK
<1> HIDE DEF p
<1>4. Descriptions' = Descriptions \cup {d} /\ d \notin Descriptions
  <2>1. Descriptions' = {e \in Groups \X Nat : 1 <= e[2] /\ e[2] <= opened'[e[1]]}
    BY DEF Descriptions
  <2>2. \A q \in Groups, i \in Nat :
          1 <= i /\ i <= opened'[q] <=> (1 <= i /\ i <= opened[q]) \/ <<q, i>> = d
    BY <1>1, <1>3
  <2>3. d \in Groups \X Nat
    BY <1>1
  <2>4. \A e \in Groups \X Nat : e \in Descriptions' <=> e \in Descriptions \/ e = d
    BY <2>1, <2>2 DEF Descriptions
  <2>5. d \notin Descriptions
    BY <1>1 DEF Descriptions
  <2>6. Descriptions \subseteq Groups \X Nat /\ Descriptions' \subseteq Groups \X Nat
    BY <2>1 DEF Descriptions
  <2> QED
    BY <2>3, <2>4, <2>5, <2>6
<1>5. IsFiniteSet(Descriptions') /\ Cardinality(Descriptions') = active_count'
  BY <1>2, <1>4, FS_AddElement DEF Life
<1>6. ASSUME NEW m \in task_list' PROVE MappingKept(m)'
  <2>1. CASE tgid[m] = p
    BY <1>1, <1>3, <2>1 DEF MappingKept
  <2>2. CASE tgid[m] # p
    <3>1. tgid[m] \in Groups /\ closer'[tgid[m]] = closer[tgid[m]]
      BY <1>2, <2>2, TaskGroups DEF TypeOK, ClientTypeOK
    <3> QED
      BY <1>2, <1>3, <2>2, <3>1 DEF Life, MappingKept
  <2> QED
    BY <2>1, <2>2
<1>7. ASSUME NEW q \in Groups PROVE LifeOf(q)'
  <2>1. CASE q = p
    BY <1>1, <1>2, <2>1 DEF LifeOf, Runs, p
  <2>2. CASE q # p
    BY <1>2, <1>3, <2>2 DEF Life, LifeOf, Ignorant
  <2> QED
    BY <2>1, <2>2
<1>8. ClientTypeOK'
  BY <1>2 DEF ClientTypeOK
<1> QED
  BY <1>5, <1>6, <1>7, <1>8 DEF Life

\* The count is positive as long as a description is open, so a close by the task of
\* a mapping takes the mapping; one that leaves a mapping is another task's.
LEMMA CloseLife ==
  ASSUME TypeOK, Life, ClientTypeOK, NEW t \in Threads, CloseDevice(t)
  PROVE  Life' /\ ClientTypeOK' /\ task_list' = task_list \ {t}
<1> DEFINE p == tgid[t]
           d == <<p, opened[p]>>
<1>1. p \in Groups /\ opened[p] \in Nat /\ opened[p] > 0 /\ status[p] # "gone"
  BY TaskGroups DEF TypeOK, CloseDevice, Close
<1>2. /\ opened' = [opened EXCEPT ![p] = @ - 1] /\ active_count' = ActiveAfterClose
      /\ status' = status
      /\ closer' = [closer EXCEPT ![p] = IF opened'[p] = 0 THEN {t} ELSE @]
      /\ Forgets(p, Barriers) \/ UNCHANGED knowledge
  BY DEF CloseDevice, Close
<1>3. /\ opened'[p] = opened[p] - 1
      /\ \A q \in Groups \ {p} : opened'[q] = opened[q]
      /\ \A q \in Groups : opened[q] \in Nat
  BY <1>1, <1>2 DEF TypeOK
<1> HIDE DEF p
<1>4. Descriptions' = Descriptions \ {d} /\ d \in Descriptions
  <2>1. Descriptions' = {e \in Groups \X Nat : 1 <= e[2] /\ e[2] <= opened'[e[1]]}
    BY DEF Descriptions
  <2>2. \A q \in Groups, i \in Nat :
          1 <= i /\ i <= opened'[q] <=> (1 <= i /\ i <= opened[q]) /\ <<q, i>> # d
    BY <1>1, <1>3
  <2>3. \A e \in Groups \X Nat : e \in Descriptions' <=> e \in Descriptions /\ e # d
    BY <2>1, <2>2 DEF Descriptions
  <2>4. d \in Descriptions
    BY <1>1 DEF Descriptions
  <2>5. Descriptions \subseteq Groups \X Nat /\ Descriptions' \subseteq Groups \X Nat
    BY <2>1 DEF Descriptions
  <2> QED
    BY <2>3, <2>4, <2>5
<1>5. active_count > 0 /\ active_count' = active_count - 1
  <2>1. active_count # 0
    BY <1>4, FS_EmptySet DEF Life
  <2> QED
    BY <1>2, <2>1 DEF TypeOK, ActiveAfterClose
<1>6. IsFiniteSet(Descriptions') /\ Cardinality(Descriptions') = active_count'
  BY <1>4, <1>5, FS_RemoveElement DEF Life
<1>7. task_list' = task_list \ {t}
  BY <1>5 DEF CloseDevice, Close
<1>8. ASSUME NEW m \in task_list' PROVE MappingKept(m)'
  <2>1. m \in task_list /\ m # t /\ tgid[m] \in Groups
    BY <1>7, TaskGroups DEF TypeOK
  <2>2. CASE tgid[m] = p /\ opened'[p] = 0
    <3>1. closer'[p] = {t}
      BY <1>1, <1>2, <2>2 DEF ClientTypeOK
    <3> QED
      BY <2>1, <2>2, <3>1 DEF MappingKept
  <2>3. CASE tgid[m] = p /\ opened'[p] # 0
    BY <1>1, <1>3, <2>3 DEF MappingKept
  <2>4. CASE tgid[m] # p
    <3>1. closer'[tgid[m]] = closer[tgid[m]]
      BY <1>2, <2>1, <2>4 DEF ClientTypeOK
    <3> QED
      BY <1>3, <2>1, <2>4, <3>1 DEF Life, MappingKept
  <2> QED
    BY <2>2, <2>3, <2>4
<1>9. ASSUME NEW q \in Groups PROVE LifeOf(q)'
  <2>1. LifeOf(q)
    BY DEF Life
  <2>2. status'[q] = "gone" => opened'[q] = 0
    BY <1>1, <1>2, <1>3, <2>1 DEF LifeOf
  <2>3. Ignorant(q) => Ignorant(q)'
    <3>1. CASE UNCHANGED knowledge
      BY <3>1 DEF Ignorant, knowledge
    <3>2. CASE Forgets(p, Barriers) /\ q # p
      BY <1>1, <3>2, ForgetsType DEF Ignorant, KnowledgeKept
    <3>3. CASE Forgets(p, Barriers) /\ q = p
      BY <1>1, <3>3, ForgetsAll DEF Ignorant
    <3> QED
      BY <1>2, <3>1, <3>2, <3>3
  <2> QED
    BY <1>2, <2>1, <2>2, <2>3 DEF LifeOf
<1>10. ClientTypeOK'
  <2>1. CASE UNCHANGED knowledge
    BY <1>1, <1>2, <2>1 DEF ClientTypeOK, knowledge
  <2>2. CASE Forgets(p, Barriers)
    BY <1>1, <1>2, <2>2, ForgetsType DEF ClientTypeOK
  <2> QED
    BY <1>2, <2>1, <2>2
<1> QED
  BY <1>6, <1>7, <1>8, <1>9, <1>10 DEF Life

LEMMA StatusLife ==
  ASSUME TypeOK, Life, ClientTypeOK, NEW p \in Groups, Exit(p) \/ Gone(p) \/ Start(p)
  PROVE  /\ Life' /\ ClientTypeOK'
         /\ \A q \in Groups \ {p} : status'[q] = status[q] /\ KnowledgeKept(q)
<1>1. UNCHANGED <<opened, active_count, task_list, closer>>
  BY DEF Exit, Gone, Start, vars
<1>2. Descriptions' = Descriptions /\ \A m \in task_list' : MappingKept(m)'
  BY <1>1 DEF Descriptions, Life, MappingKept
<1>3. /\ \A q \in Groups \ {p} : status'[q] = status[q] /\ KnowledgeKept(q)
      /\ ClientTypeOK'
  <2>1. CASE Exit(p)
    <3>1. status' = [status EXCEPT ![p] = "exits"] /\ Forgets(p, Barriers)
      BY <2>1 DEF Exit
    <3> QED
      BY <1>1, <3>1, ForgetsType DEF ClientTypeOK
  <2>2. CASE Gone(p) \/ Start(p)
    BY <2>2 DEF Gone, Start, ClientTypeOK, KnowledgeKept, knowledge
  <2> QED
    BY <2>1, <2>2
<1>4. LifeOf(p)'
  <2>1. CASE Exit(p)
    <3>1. status'[p] = "exits" /\ Forgets(p, Barriers)
      BY <2>1 DEF Exit, ClientTypeOK
    <3> QED
      BY <3>1, ForgetsAll DEF LifeOf, Ignorant
  <2>2. CASE Gone(p)
    BY <1>1, <2>2 DEF Gone, ClientTypeOK, Life, LifeOf, Ignorant, knowledge
  <2>3. CASE Start(p)
    BY <2>3 DEF Start, ClientTypeOK, LifeOf
  <2> QED
    BY <2>1, <2>2, <2>3
<1>5. ASSUME NEW q \in Groups \ {p} PROVE LifeOf(q)'
  BY <1>1, <1>3 DEF Life, LifeOf, Ignorant, KnowledgeKept
<1> QED
  BY <1>1, <1>2, <1>3, <1>4, <1>5 DEF Life

LifeInv == ClientTypeOK /\ Life

LEMMA InitLife == ClientInit => LifeInv
<1> SUFFICES ASSUME ClientInit PROVE LifeInv
  OBVIOUS
<1>1. ClientTypeOK
  BY DEF ClientInit, ClientTypeOK
<1>2. opened = [p \in Groups |-> 0] /\ active_count = 0 /\ task_list = {}
  BY DEF ClientInit, Init
<1>3. Descriptions = {}
  BY <1>2 DEF Descriptions
<1> QED
  BY <1>1, <1>2, <1>3, FS_EmptySet DEF LifeInv, Life, LifeOf, Ignorant, ClientInit

LEMMA NextLife ==
  ASSUME DriverInv, DriverInv', LifeInv, [ClientNext]_clientVars
  PROVE  LifeInv'
<1>1. TypeOK /\ TypeOK'
  BY DEF DriverInv, LibraryInv, Ownership
<1>2. ASSUME NEW t \in Threads, BladeCall(t) \/ WindowCall(t) PROVE LifeInv'
  <2>1. CallEffect(t)
    BY <1>1, <1>2, CallsEffect DEF LifeInv
  <2> QED
    BY <1>1, <2>1, CallLife DEF LifeInv, CallEffect
<1>3. CASE UNCHANGED clientVars
  <2>1. UNCHANGED <<opened, active_count, task_list, status, closer, known, doubt,
                    phantom, windows, winDoubt>>
    BY <1>3 DEF clientVars, vars, knowledge
  <2> QED
    BY <2>1 DEF LifeInv, Life, LifeOf, Ignorant, MappingKept, ClientTypeOK, Descriptions
<1> QED
  BY <1>1, <1>2, <1>3, OpenLife, CloseLife, StatusLife DEF LifeInv, ClientNext

LEMMA LifeInvariant == ClientSpec => []LifeInv
<1>1. DriverInv /\ DriverInv' /\ LifeInv /\ [ClientNext]_clientVars => LifeInv'
  BY NextLife
<1> QED
  BY <1>1, InitLife, ClientDriverInv, PTL DEF ClientSpec

\* Wherever in their programs processes of any number of tasks are killed, a task
\* mapping outlives its last description only if a task other than the mapping's has
\* closed that one; and when nobody has the device open, a blade or a window in use,
\* in the bookkeeping or in the registers, is one of such a mapping.
THEOREM NothingIsLeft == ClientSpec => []NothingOutlives
<1>1. ASSUME DriverInv, LifeInv PROVE NothingOutlives
  <2>1. /\ TypeOK /\ BladeOwnership /\ TaskMapOwnership /\ WindowsAccounted
        /\ LiveWindowsTracked /\ reset_ipi = {} /\ task_list \subseteq Threads
    BY <1>1 DEF DriverInv, LibraryInv, Ownership, LiveInv, TypeOK
  <2>2. ASSUME NEW m \in Orphaned PROVE \E t \in Threads \ {m} : closer[tgid[m]] = {t}
    BY <1>1, <2>2 DEF LifeInv, Life, MappingKept, Orphaned
  <2>3. ASSUME \A p \in Groups : opened[p] = 0
        PROVE  /\ active_count = 0
               /\ \A g \in CMGs : \A b \in bb_active[g] :
                    \E k \in allocs : Task(k) \in Orphaned /\ Barrier(k) = <<g, b>>
               /\ \A c \in CPUs, w \in Windows :
                    w \in bw_map[c] \/ assign_sync[c][w].valid =>
                      \E k \in allocs : /\ Task(k) \in Orphaned
                                       /\ c \in assign_mask[k] /\ window[k][c] = w
    <3>1. Descriptions = {}
      BY <2>3 DEF Descriptions
    <3>2. active_count = 0
      BY <1>1, <3>1, FS_EmptySet DEF LifeInv, Life
    <3>3. \A k \in allocs : Task(k) \in Orphaned
      BY <2>1, <2>3, TaskGroups DEF Orphaned, TaskMapOwnership
    <3>4. ASSUME NEW g \in CMGs, NEW b \in bb_active[g]
          PROVE  \E k \in allocs : Task(k) \in Orphaned /\ Barrier(k) = <<g, b>>
      <4>1. b \in Blades
        BY <2>1 DEF TypeOK
      <4>2. PICK k \in allocs : Cmg(k) = g /\ Blade(k) = b
        BY <2>1, <4>1 DEF BladeOwnership
      <4> QED
        BY <3>3, <4>2 DEF Barrier
    <3>5. ASSUME NEW c \in CPUs, NEW w \in Windows,
                 w \in bw_map[c] \/ assign_sync[c][w].valid
          PROVE  \E k \in allocs : /\ Task(k) \in Orphaned
                                  /\ c \in assign_mask[k] /\ window[k][c] = w
      <4>1. w \in bw_map[c]
        BY <2>1, <3>5 DEF LiveWindowsTracked, Reachable
      <4> QED
        BY <2>1, <3>3, <4>1 DEF WindowsAccounted
    <3> QED
      BY <3>2, <3>4, <3>5
  <2> QED
    BY <2>2, <2>3 DEF NothingOutlives
<1> QED
  BY <1>1, LifeInvariant, ClientDriverInv, PTL

-----------------------------------------------------------------------------
(***************************************************************************)
(* What a process knows                                                    *)
(***************************************************************************)
\* The allocations of a process.
Mine(p) == {k \in allocs : tgid[Task(k)] = p}

\* It holds the blades it was told of, unless kmalloc() failed, and no others.
KnowsBlades(p) ==
  /\ known[p] \subseteq Held(p) \cup phantom[p]
  /\ Held(p) \subseteq known[p] \cup doubt[p]

\* The windows it was told of are those its allocations record, and of others an
\* answer was lost.
KnowsWindows(p) ==
  /\ \A e \in windows[p] :
       \E k \in Mine(p) : Blade(k) = e[2] /\ e[1] \in assign_mask[k] /\ window[k][e[1]] = e[3]
  /\ \A k \in Mine(p) : \A c \in assign_mask[k] :
       \/ <<c, Blade(k), window[k][c]>> \in windows[p]
       \/ <<c, Blade(k)>> \in winDoubt[p]

Informed(p) == status[p] = "runs" => KnowsBlades(p) /\ KnowsWindows(p)

LEMMA HeldMine == \A p : Held(p) = {Barrier(k) : k \in Mine(p)}
BY DEF Held, Mine

\* A process stays informed while its allocations keep their windows and it is
\* told nothing.
MineKept(p) ==
  /\ Mine(p)' = Mine(p)
  /\ \A k \in Mine(p) : assign_mask'[k] = assign_mask[k] /\ window'[k] = window[k]

LEMMA StaysInformed ==
  ASSUME NEW p \in Groups, Informed(p), MineKept(p), KnowledgeKept(p),
         status'[p] = status[p]
  PROVE  Informed(p)'
<1>1. Held(p)' = Held(p)
  <2>1. Held(p)' = {Barrier(k) : k \in Mine(p)'}
    BY DEF Held, Mine
  <2> QED
    BY <2>1, HeldMine DEF MineKept
<1> QED
  BY <1>1 DEF Informed, KnowsBlades, KnowsWindows, MineKept, KnowledgeKept

\* What the driver does for a process leaves the allocations of others alone.
OwnShape(p) ==
  \/ QuietStep
  \/ \E K \in SUBSET Mine(p) : FreedStep(K)
  \/ \E k \in Keys, mask \in SUBSET CPUs : tgid[Task(k)] = p /\ AllocatedStep(k, mask)
  \/ \E k \in Mine(p), c \in CPUs :
       UnassignedStep(k, c) \/ \E win \in Windows : AssignedStep(k, c, win)

LEMMA OthersMineKept ==
  ASSUME TypeOK, NEW p \in Groups, OwnShape(p), NEW q \in Groups, q # p
  PROVE  MineKept(q)
<1>1. \A k \in allocs : k \in Keys
  BY DEF TypeOK
<1>2. ASSUME NEW j \in Keys, tgid[Task(j)] = p, OthersKept(j),
             \A k : k # j => (k \in allocs' <=> k \in allocs)
      PROVE  MineKept(q)
  BY <1>1, <1>2 DEF MineKept, Mine, OthersKept
<1>3. CASE QuietStep
  BY <1>3 DEF QuietStep, Untouched, MineKept, Mine
<1>4. ASSUME NEW K \in SUBSET Mine(p), FreedStep(K) PROVE MineKept(q)
  BY <1>1, <1>4 DEF FreedStep, Freed, MineKept, Mine
<1>5. ASSUME NEW k \in Keys, NEW mask \in SUBSET CPUs, tgid[Task(k)] = p,
             AllocatedStep(k, mask)
      PROVE  MineKept(q)
  BY <1>2, <1>5 DEF AllocatedStep, Allocated
<1>6. ASSUME NEW k \in Mine(p), NEW c \in CPUs,
             UnassignedStep(k, c) \/ \E win \in Windows : AssignedStep(k, c, win)
      PROVE  MineKept(q)
  BY <1>1, <1>2, <1>6 DEF Mine, UnassignedStep, AssignedStep, Unassigned, Assigned, OnlyOn
<1> QED
  BY <1>3, <1>4, <1>5, <1>6 DEF OwnShape

\* A step that does nothing for anybody.
LEMMA QuietMineKept ==
  ASSUME UNCHANGED <<allocs, assign_mask, window>>
  PROVE  \A p : MineKept(p)
BY DEF MineKept, Mine

-----------------------------------------------------------------------------
(***************************************************************************)
(* The calls, for the process that calls                                   *)
(***************************************************************************)
\* The answer to an allocation names the blade the process has got.
LEMMA AllocateInformed ==
  ASSUME DriverInv, ClientTypeOK, NEW t \in Threads, Informed(tgid[t]), NEW g \in CMGs,
         NEW mask \in SUBSET CPUs, NEW copied, Allocate(t, g, mask, copied)
  PROVE  OwnShape(tgid[t]) /\ Informed(tgid[t])'
<1>1. /\ TypeOK /\ BladeOwnership /\ SomeCpu \in CPUs /\ Runs(t)
      /\ AllocateBlade(t, SomeCpu, g, mask)
  BY ProcessAssumption DEF DriverInv, LibraryInv, Ownership, SomeCpu, Allocate
<1>2. PICK k \in Keys : Task(k) \in RegisteredTaskMap(t) /\ AllocatedStep(k, mask)
  BY <1>1, AllocateShape
<1>3. tgid[Task(k)] = tgid[t] /\ Own(t, k)
  BY <1>2 DEF RegisteredTaskMap, TaskMap, Own
<1>4. /\ k \notin allocs /\ allocs' = allocs \cup {k} /\ assign_mask'[k] = {}
      /\ \A j \in allocs : assign_mask'[j] = assign_mask[j] /\ window'[j] = window[j]
  BY <1>1, <1>2 DEF AllocatedStep, Allocated, OthersKept, BladeOwnership, TypeOK
<1>5. allocs' \ allocs = {k}
  BY <1>4
<1>6. {Answered(Cmg(j), Blade(j)) : j \in allocs' \ allocs} = {Barrier(k)}
  BY <1>5 DEF Answered, Barrier
<1>7. Mine(tgid[t])' = Mine(tgid[t]) \cup {k}
  BY <1>3, <1>4 DEF Mine
<1>8. Held(tgid[t])' = Held(tgid[t]) \cup {Barrier(k)}
  <2>1. Held(tgid[t])' = {Barrier(j) : j \in Mine(tgid[t])'}
    BY DEF Held, Mine
  <2> QED
    BY <1>7, <2>1, HeldMine
<1>9. KnowsBlades(tgid[t]) /\ KnowsWindows(tgid[t])
  BY <1>1 DEF Informed, Runs
<1>10. KnowsBlades(tgid[t])'
  <2>1. tgid[t] \in Groups
    BY TaskGroups
  <2>2. CASE copied
    <3>1. /\ known'[tgid[t]] = known[tgid[t]] \cup {Barrier(k)}
          /\ phantom'[tgid[t]] = phantom[tgid[t]] \ {Barrier(k)}
          /\ doubt' = doubt
      BY <1>6, <2>1, <2>2 DEF Allocate, ClientTypeOK
    <3> QED
      BY <1>8, <1>9, <3>1 DEF KnowsBlades
  <2>3. CASE ~ copied
    <3>1. /\ doubt'[tgid[t]] = doubt[tgid[t]] \cup {Barrier(k)}
          /\ known' = known /\ phantom' = phantom
      BY <1>6, <2>1, <2>3 DEF Allocate, ClientTypeOK
    <3> QED
      BY <1>8, <1>9, <3>1 DEF KnowsBlades
  <2> QED
    BY <2>2, <2>3
<1>11. KnowsWindows(tgid[t])'
  <2>1. windows' = windows /\ winDoubt' = winDoubt
    BY DEF Allocate, WindowsUnchanged
  <2>2. \A j \in Mine(tgid[t]) : /\ j \in Mine(tgid[t])'
                           /\ assign_mask'[j] = assign_mask[j] /\ window'[j] = window[j]
    BY <1>4, <1>7 DEF Mine
  <2>3. \A j \in Mine(tgid[t])' : j \in Mine(tgid[t]) \/ assign_mask'[j] = {}
    BY <1>4, <1>7
  <2> QED
    BY <1>9, <2>1, <2>2, <2>3 DEF KnowsWindows
<1>12. OwnShape(tgid[t])
  BY <1>2, <1>3 DEF OwnShape
<1> QED
  BY <1>10, <1>11, <1>12 DEF Informed, Runs

LEMMA AllocatePhantomInformed ==
  ASSUME DriverInv, ClientTypeOK, NEW t \in Threads, Informed(tgid[t]), NEW g \in CMGs,
         AllocatePhantom(t, g)
  PROVE  OwnShape(tgid[t]) /\ Informed(tgid[t])'
<1>1. PICK bit \in Blades :
        /\ known'   = [known EXCEPT ![tgid[t]] = @ \cup {<<g, bit>>}]
        /\ phantom' = [phantom EXCEPT ![tgid[t]] = @ \cup {<<g, bit>>}]
  BY DEF AllocatePhantom
<1>2. /\ known'[tgid[t]] = known[tgid[t]] \cup {<<g, bit>>}
      /\ phantom'[tgid[t]] = phantom[tgid[t]] \cup {<<g, bit>>}
  BY <1>1, TaskGroups DEF ClientTypeOK
<1>3. UNCHANGED <<allocs, assign_mask, window, doubt, windows, winDoubt>> /\ Runs(t)
  BY DEF AllocatePhantom, bookkeeping, WindowsUnchanged
<1>4. QuietStep
  BY DEF AllocatePhantom, QuietStep, Untouched, bookkeeping, registers
<1>5. Held(tgid[t])' = Held(tgid[t]) /\ Mine(tgid[t])' = Mine(tgid[t])
  BY <1>3 DEF Held, Mine
<1>6. KnowsBlades(tgid[t])' /\ KnowsWindows(tgid[t])'
  BY <1>2, <1>3, <1>5 DEF Informed, Runs, KnowsBlades, KnowsWindows
<1> QED
  BY <1>4, <1>6 DEF Informed, Runs, OwnShape

\* Blades are told apart by CMG and number.
LEMMA SameBarrier ==
  ASSUME BladeOwnership
  PROVE  \A j, k \in allocs : Barrier(j) = Barrier(k) => j = k
BY DEF BladeOwnership, Barrier

\* An allocation has windows on CPUs of its CMG only.
LEMMA WindowBarrier ==
  ASSUME TypeOK, BladeProgrammed, NEW k \in allocs, NEW c \in assign_mask[k]
  PROVE  c \in CPUs /\ cmgOf[c] = Cmg(k) /\ <<cmgOf[c], Blade(k)>> = Barrier(k)
BY DEF BladeProgrammed, PEs, Barrier

\* Forgetting blades that are not held does no harm.
LEMMA ForgetsInformed ==
  ASSUME DriverInv, ClientTypeOK, NEW t \in Threads, Informed(tgid[t]), Runs(t), NEW x,
         Forgets(tgid[t], {x}),
         NEW K \in SUBSET Mine(tgid[t]), \A k \in Mine(tgid[t]) : k \in K <=> Barrier(k) = x,
         Mine(tgid[t])' = Mine(tgid[t]) \ K,
         \A k \in Mine(tgid[t])' : assign_mask'[k] = assign_mask[k] /\ window'[k] = window[k]
  PROVE  Informed(tgid[t])'
<1> DEFINE p == tgid[t]
<1>1. /\ TypeOK /\ BladeOwnership /\ BladeProgrammed /\ Mine(tgid[t]) \subseteq allocs
      /\ KnowsBlades(tgid[t]) /\ KnowsWindows(tgid[t])
  BY DEF DriverInv, LibraryInv, Ownership, Informed, Mine, Runs
<1>2. /\ known'[p] = known[p] \ {x} /\ doubt'[p] = doubt[p] \ {x}
      /\ phantom'[p] = phantom[p] \ {x}
      /\ windows'[p] = {e \in windows[p] : <<cmgOf[e[1]], e[2]>> \notin {x}}
      /\ winDoubt'[p] = {e \in winDoubt[p] : <<cmgOf[e[1]], e[2]>> \notin {x}}
  <2>1. p \in Groups /\ Forgets(p, {x})
    BY TaskGroups
  <2> HIDE DEF p
  <2> QED
    BY <2>1, ForgetsType
<1>3. Held(p)' = Held(p) \ {x}
  <2>1. Held(p)' = {Barrier(k) : k \in Mine(tgid[t])'}
    BY DEF Held, Mine
  <2>2. Held(p) = {Barrier(k) : k \in Mine(tgid[t])}
    BY HeldMine
  <2> QED
    BY <2>1, <2>2
<1>4. KnowsBlades(tgid[t])'
  BY <1>1, <1>2, <1>3 DEF KnowsBlades
<1>5. ASSUME NEW e \in windows'[p]
      PROVE  \E k \in Mine(tgid[t])' : /\ Blade(k) = e[2] /\ e[1] \in assign_mask'[k]
                                 /\ window'[k][e[1]] = e[3]
  <2>1. e \in windows[p] /\ <<cmgOf[e[1]], e[2]>> # x
    BY <1>2, <1>5
  <2>2. PICK k \in Mine(tgid[t]) : /\ Blade(k) = e[2] /\ e[1] \in assign_mask[k]
                             /\ window[k][e[1]] = e[3]
    BY <1>1, <2>1 DEF KnowsWindows
  <2>3. k \notin K
    BY <1>1, <2>1, <2>2, WindowBarrier
  <2> QED
    BY <2>2, <2>3
<1>6. ASSUME NEW k \in Mine(tgid[t])', NEW c \in assign_mask'[k]
      PROVE  \/ <<c, Blade(k), window'[k][c]>> \in windows'[p]
             \/ <<c, Blade(k)>> \in winDoubt'[p]
  <2>1. /\ k \in Mine(tgid[t]) /\ c \in assign_mask[k] /\ window'[k] = window[k]
        /\ Barrier(k) # x
    BY <1>6
  <2>2. <<cmgOf[c], Blade(k)>> # x
    BY <1>1, <2>1, WindowBarrier
  <2>3. \/ <<c, Blade(k), window[k][c]>> \in windows[p]
        \/ <<c, Blade(k)>> \in winDoubt[p]
    BY <1>1, <2>1 DEF KnowsWindows
  <2> QED
    BY <1>2, <2>1, <2>2, <2>3
<1>7. KnowsWindows(tgid[t])'
  BY <1>5, <1>6 DEF KnowsWindows
<1> QED
  BY <1>4, <1>7 DEF Informed, Runs

\* Blades are given back, and the answer is lost.
LEMMA DoubtsInformed ==
  ASSUME DriverInv, ClientTypeOK, NEW t \in Threads, Informed(tgid[t]), Runs(t), NEW x,
         known' = [known EXCEPT ![tgid[t]] = @ \ {x}],
         doubt' = [doubt EXCEPT ![tgid[t]] = @ \cup {x}],
         windows' = [windows EXCEPT ![tgid[t]] = {e \in @ : <<cmgOf[e[1]], e[2]>> # x}],
         UNCHANGED <<phantom, winDoubt>>,
         NEW K \in SUBSET Mine(tgid[t]), \A k \in Mine(tgid[t]) : k \in K <=> Barrier(k) = x,
         Mine(tgid[t])' = Mine(tgid[t]) \ K,
         \A k \in Mine(tgid[t])' : assign_mask'[k] = assign_mask[k] /\ window'[k] = window[k]
  PROVE  Informed(tgid[t])'
<1> DEFINE p == tgid[t]
<1>1. /\ TypeOK /\ BladeOwnership /\ BladeProgrammed /\ Mine(tgid[t]) \subseteq allocs
      /\ KnowsBlades(tgid[t]) /\ KnowsWindows(tgid[t]) /\ p \in Groups
  BY TaskGroups DEF DriverInv, LibraryInv, Ownership, Informed, Mine, Runs
<1>2. /\ known'[p] = known[p] \ {x} /\ doubt'[p] = doubt[p] \cup {x}
      /\ phantom'[p] = phantom[p] /\ winDoubt'[p] = winDoubt[p]
      /\ windows'[p] = {e \in windows[p] : <<cmgOf[e[1]], e[2]>> # x}
  BY <1>1 DEF ClientTypeOK
<1>3. Held(p)' = Held(p) \ {x}
  <2>1. Held(p)' = {Barrier(k) : k \in Mine(tgid[t])'}
    BY DEF Held, Mine
  <2>2. Held(p) = {Barrier(k) : k \in Mine(tgid[t])}
    BY HeldMine
  <2> QED
    BY <2>1, <2>2
<1>4. KnowsBlades(tgid[t])'
  BY <1>1, <1>2, <1>3 DEF KnowsBlades
<1>5. ASSUME NEW e \in windows'[p]
      PROVE  \E k \in Mine(tgid[t])' : /\ Blade(k) = e[2] /\ e[1] \in assign_mask'[k]
                                 /\ window'[k][e[1]] = e[3]
  <2>1. e \in windows[p] /\ <<cmgOf[e[1]], e[2]>> # x
    BY <1>2, <1>5
  <2>2. PICK k \in Mine(tgid[t]) : /\ Blade(k) = e[2] /\ e[1] \in assign_mask[k]
                             /\ window[k][e[1]] = e[3]
    BY <1>1, <2>1 DEF KnowsWindows
  <2>3. k \notin K
    BY <1>1, <2>1, <2>2, WindowBarrier
  <2> QED
    BY <2>2, <2>3
<1>6. ASSUME NEW k \in Mine(tgid[t])', NEW c \in assign_mask'[k]
      PROVE  \/ <<c, Blade(k), window'[k][c]>> \in windows'[p]
             \/ <<c, Blade(k)>> \in winDoubt'[p]
  <2>1. /\ k \in Mine(tgid[t]) /\ c \in assign_mask[k] /\ window'[k] = window[k]
        /\ Barrier(k) # x
    BY <1>6
  <2>2. <<cmgOf[c], Blade(k)>> # x
    BY <1>1, <2>1, WindowBarrier
  <2>3. \/ <<c, Blade(k), window[k][c]>> \in windows[p]
        \/ <<c, Blade(k)>> \in winDoubt[p]
    BY <1>1, <2>1 DEF KnowsWindows
  <2> QED
    BY <1>2, <2>1, <2>2, <2>3
<1>7. KnowsWindows(tgid[t])'
  BY <1>5, <1>6 DEF KnowsWindows
<1> QED
  BY <1>4, <1>7 DEF Informed, Runs

LEMMA FreeInformed ==
  ASSUME DriverInv, ClientTypeOK, NEW t \in Threads, Informed(tgid[t]), NEW x \in Barriers,
         NEW copied, Free(t, x, copied)
  PROVE  OwnShape(tgid[t]) /\ Informed(tgid[t])'
<1> DEFINE k == <<t, x[1], x[2]>>
<1>1. /\ TypeOK /\ BladeOwnership /\ SomeCpu \in CPUs /\ Runs(t)
      /\ FreeByOwner(t, SomeCpu, x[1], x[2])
      /\ x[1] \in CMGs /\ x[2] \in Blades /\ x = <<x[1], x[2]>>
  BY ProcessAssumption DEF DriverInv, LibraryInv, Ownership, SomeCpu, Free, Barriers
<1>2. k \in allocs /\ Own(t, k) /\ FreedStep({k})
  BY <1>1, FreeByOwnerShape
<1>3. Barrier(k) = x
  BY <1>1, KeyFacts DEF Barrier
<1> HIDE DEF k
<1>4. k \in Mine(tgid[t]) /\ {k} \in SUBSET Mine(tgid[t])
  BY <1>2 DEF Mine, Own
<1>5. \A j \in Mine(tgid[t]) : j \in {k} <=> Barrier(j) = x
  BY <1>1, <1>2, <1>3, SameBarrier DEF Mine
<1>6. /\ Mine(tgid[t])' = Mine(tgid[t]) \ {k}
      /\ \A j \in Mine(tgid[t])' : assign_mask'[j] = assign_mask[j] /\ window'[j] = window[j]
  BY <1>2 DEF FreedStep, Freed, Mine
<1>7. Informed(tgid[t])'
  <2>1. CASE copied
    <3>1. Forgets(tgid[t], {x})
      BY <2>1 DEF Free
    <3> QED
      BY <1>1, <1>4, <1>5, <1>6, <3>1, ForgetsInformed
  <2>2. CASE ~ copied
    <3>1. /\ known' = [known EXCEPT ![tgid[t]] = @ \ {x}]
          /\ doubt' = [doubt EXCEPT ![tgid[t]] = @ \cup {x}]
          /\ windows' = [windows EXCEPT ![tgid[t]] = {e \in @ : <<cmgOf[e[1]], e[2]>> # x}]
          /\ UNCHANGED <<phantom, winDoubt>>
      BY <2>2 DEF Free
    <3> QED
      BY <1>1, <1>4, <1>5, <1>6, <3>1, DoubtsInformed
  <2> QED
    BY <2>1, <2>2
<1>8. OwnShape(tgid[t])
  BY <1>2, <1>4 DEF OwnShape
<1> QED
  BY <1>7, <1>8

\* A refused free is about a blade the process does not hold.
LEMMA FreeRefusedInformed ==
  ASSUME DriverInv, ClientTypeOK, NEW t \in Threads, Informed(tgid[t]), NEW x \in Barriers,
         FreeRefused(t, x)
  PROVE  OwnShape(tgid[t]) /\ Informed(tgid[t])'
<1>1. /\ UNCHANGED vars /\ Runs(t) /\ Forgets(tgid[t], {x}) /\ x \notin Held(tgid[t])
  BY DEF FreeRefused
<1>2. /\ QuietStep /\ Mine(tgid[t])' = Mine(tgid[t]) \ {}
      /\ \A j \in Mine(tgid[t])' : assign_mask'[j] = assign_mask[j] /\ window'[j] = window[j]
  BY <1>1 DEF vars, bookkeeping, registers, QuietStep, Untouched, Mine
<1>3. \A j \in Mine(tgid[t]) : j \in {} <=> Barrier(j) = x
  BY <1>1, HeldMine
<1>4. {} \in SUBSET Mine(tgid[t])
  OBVIOUS
<1>5. Informed(tgid[t])'
  BY <1>1, <1>2, <1>3, <1>4, ForgetsInformed
<1> QED
  BY <1>2, <1>5 DEF OwnShape

\* The answer to an assignment names the window the process has got.
LEMMA AssignInformed ==
  ASSUME DriverInv, ClientTypeOK, NEW t \in Threads, Informed(tgid[t]), NEW c \in CPUs,
         NEW b \in Blades, NEW win \in Windows, NEW copied, Assign(t, c, b, win, copied)
  PROVE  OwnShape(tgid[t]) /\ Informed(tgid[t])'
<1>1. PICK m \in TaskMap(t) : AssignBlade(t, m, c, b, -1, win)
  BY DEF Assign
<1> DEFINE k == <<m, cmgOf[c], b>>
           p == tgid[t]
<1>2. /\ TypeOK /\ WindowOwnership /\ Runs(t) /\ m \in Threads /\ p \in Groups
      /\ Mine(tgid[t]) \subseteq allocs
  BY TaskGroups DEF DriverInv, LibraryInv, Ownership, Assign, TaskMap, TypeOK, Mine
<1>3. k \in allocs /\ Own(t, k) /\ AssignedStep(k, c, win)
  BY <1>1, <1>2, AssignShape
<1>4. Blade(k) = b
  BY <1>2, KeyFacts, TopologyAssumption
<1> HIDE DEF k
<1>5. /\ k \in Mine(tgid[t]) /\ Mine(tgid[t])' = Mine(tgid[t]) /\ c \notin assign_mask[k]
      /\ assign_mask'[k] = assign_mask[k] \cup {c} /\ window'[k][c] = win
      /\ \A d \in CPUs \ {c} : window'[k][d] = window[k][d]
      /\ \A j \in Mine(tgid[t]) \ {k} : assign_mask'[j] = assign_mask[j] /\ window'[j] = window[j]
  BY <1>2, <1>3 DEF AssignedStep, Assigned, OnlyOn, OthersKept, Mine, Own, TypeOK
<1>6. KnowsBlades(tgid[t]) /\ KnowsWindows(tgid[t])
  BY <1>2 DEF Informed, Runs
<1>7. KnowsBlades(tgid[t])'
  <2>1. known' = known /\ doubt' = doubt /\ phantom' = phantom
    BY DEF Assign, BladesUnchanged
  <2>2. Held(p)' = Held(p)
    <3>1. Held(p)' = {Barrier(j) : j \in Mine(tgid[t])'}
      BY DEF Held, Mine
    <3> QED
      BY <1>5, <3>1, HeldMine
  <2> QED
    BY <1>6, <2>1, <2>2 DEF KnowsBlades
<1>8. \/ windows'[p] = windows[p] \cup {<<c, b, win>>} /\ winDoubt'[p] = winDoubt[p]
      \/ windows'[p] = windows[p] /\ winDoubt'[p] = winDoubt[p] \cup {<<c, b>>}
  BY <1>2 DEF Assign, ClientTypeOK
<1>9. ASSUME NEW j \in Mine(tgid[t]), NEW d \in assign_mask[j]
      PROVE  d \in assign_mask'[j] /\ window'[j][d] = window[j][d]
  <2>1. d \in CPUs
    BY <1>2 DEF TypeOK
  <2> QED
    BY <1>5, <2>1
<1>10. ASSUME NEW e \in windows'[p]
       PROVE  \E j \in Mine(tgid[t])' : /\ Blade(j) = e[2] /\ e[1] \in assign_mask'[j]
                                  /\ window'[j][e[1]] = e[3]
  <2>1. CASE e \in windows[p]
    BY <1>5, <1>6, <1>9, <2>1 DEF KnowsWindows
  <2>2. CASE e = <<c, b, win>>
    BY <1>4, <1>5, <2>2
  <2> QED
    BY <1>8, <2>1, <2>2
<1>11. ASSUME NEW j \in Mine(tgid[t])', NEW d \in assign_mask'[j]
       PROVE  \/ <<d, Blade(j), window'[j][d]>> \in windows'[p]
              \/ <<d, Blade(j)>> \in winDoubt'[p]
  <2>1. CASE d \in assign_mask[j]
    <3>1. j \in Mine(tgid[t]) /\ window'[j][d] = window[j][d]
      BY <1>5, <1>9, <2>1
    <3>2. \/ <<d, Blade(j), window[j][d]>> \in windows[p]
          \/ <<d, Blade(j)>> \in winDoubt[p]
      BY <1>6, <2>1, <3>1 DEF KnowsWindows
    <3> QED
      BY <1>8, <3>1, <3>2
  <2>2. CASE d \notin assign_mask[j]
    <3>1. j = k /\ d = c
      BY <1>5, <2>2
    <3> QED
      BY <1>4, <1>5, <1>8, <3>1
  <2> QED
    BY <2>1, <2>2
<1>12. KnowsWindows(tgid[t])'
  BY <1>10, <1>11 DEF KnowsWindows
<1>13. OwnShape(tgid[t])
  BY <1>3, <1>5 DEF OwnShape
<1> QED
  BY <1>7, <1>12, <1>13 DEF Informed, Runs

\* An unassignment takes the window off the only allocation it can be of.
LEMMA UnassignInformed ==
  ASSUME DriverInv, ClientTypeOK, NEW t \in Threads, Informed(tgid[t]), NEW c \in CPUs,
         NEW b \in Blades, NEW copied, Unassign(t, c, b, copied)
  PROVE  OwnShape(tgid[t]) /\ Informed(tgid[t])'
<1>1. PICK m \in TaskMap(t) : UnassignBlade(t, m, c, b)
  BY DEF Unassign
<1> DEFINE k == <<m, cmgOf[c], b>>
           p == tgid[t]
<1>2. /\ TypeOK /\ BladeOwnership /\ WindowOwnership /\ BladeProgrammed /\ Runs(t)
      /\ m \in Threads /\ p \in Groups /\ Mine(tgid[t]) \subseteq allocs
  BY TaskGroups DEF DriverInv, LibraryInv, Ownership, Unassign, TaskMap, TypeOK, Mine
<1>3. k \in allocs /\ Own(t, k) /\ UnassignedStep(k, c)
  BY <1>1, <1>2, UnassignShape
<1>4. Blade(k) = b /\ Cmg(k) = cmgOf[c]
  BY <1>2, KeyFacts, TopologyAssumption
<1> HIDE DEF k
<1>5. /\ k \in Mine(tgid[t]) /\ Mine(tgid[t])' = Mine(tgid[t])
      /\ assign_mask'[k] = assign_mask[k] \ {c}
      /\ \A d \in CPUs \ {c} : window'[k][d] = window[k][d]
      /\ \A j \in Mine(tgid[t]) \ {k} : assign_mask'[j] = assign_mask[j] /\ window'[j] = window[j]
      /\ \A j \in Mine(tgid[t]) : assign_mask[j] \subseteq CPUs
  BY <1>2, <1>3 DEF UnassignedStep, Unassigned, OnlyOn, OthersKept, Mine, Own, TypeOK
<1>6. KnowsBlades(tgid[t]) /\ KnowsWindows(tgid[t])
  BY <1>2 DEF Informed, Runs
<1>7. KnowsBlades(tgid[t])'
  <2>1. known' = known /\ doubt' = doubt /\ phantom' = phantom
    BY DEF Unassign, BladesUnchanged
  <2>2. Held(p)' = Held(p)
    <3>1. Held(p)' = {Barrier(j) : j \in Mine(tgid[t])'}
      BY DEF Held, Mine
    <3> QED
      BY <1>5, <3>1, HeldMine
  <2> QED
    BY <1>6, <2>1, <2>2 DEF KnowsBlades
<1>8. /\ windows'[p] = {e \in windows[p] : <<e[1], e[2]>> # <<c, b>>}
      /\ \A y \in winDoubt[p] : y # <<c, b>> => y \in winDoubt'[p]
  BY <1>2 DEF Unassign, ClientTypeOK
<1>9. \A j \in Mine(tgid[t]) : \A d \in assign_mask[j] :
        (j = k /\ d = c) \/ (d \in assign_mask'[j] /\ window'[j][d] = window[j][d])
  BY <1>5
<1>10. ASSUME NEW j \in Mine(tgid[t]), NEW d \in assign_mask[j], <<d, Blade(j)>> = <<c, b>>
       PROVE  j = k /\ d = c
  <2>1. d = c /\ Blade(j) = b /\ Cmg(j) = cmgOf[c]
    BY <1>2, <1>10, WindowBarrier
  <2> QED
    BY <1>2, <1>3, <1>4, <2>1 DEF BladeOwnership
<1>11. ASSUME NEW e \in windows'[p]
       PROVE  \E j \in Mine(tgid[t])' : /\ Blade(j) = e[2] /\ e[1] \in assign_mask'[j]
                                  /\ window'[j][e[1]] = e[3]
  <2>1. e \in windows[p] /\ <<e[1], e[2]>> # <<c, b>>
    BY <1>8
  <2>2. PICK j \in Mine(tgid[t]) : /\ Blade(j) = e[2] /\ e[1] \in assign_mask[j]
                             /\ window[j][e[1]] = e[3]
    BY <1>6, <2>1 DEF KnowsWindows
  <2>3. ~ (j = k /\ e[1] = c)
    BY <1>4, <2>1, <2>2
  <2> QED
    BY <1>5, <1>9, <2>2, <2>3
<1>12. ASSUME NEW j \in Mine(tgid[t])', NEW d \in assign_mask'[j]
       PROVE  \/ <<d, Blade(j), window'[j][d]>> \in windows'[p]
              \/ <<d, Blade(j)>> \in winDoubt'[p]
  <2>1. j \in Mine(tgid[t]) /\ d \in assign_mask[j] /\ ~ (j = k /\ d = c)
    BY <1>5
  <2>2. window'[j][d] = window[j][d] /\ <<d, Blade(j)>> # <<c, b>>
    BY <1>9, <1>10, <2>1
  <2>3. \/ <<d, Blade(j), window[j][d]>> \in windows[p]
        \/ <<d, Blade(j)>> \in winDoubt[p]
    BY <1>6, <2>1 DEF KnowsWindows
  <2> QED
    BY <1>8, <2>2, <2>3
<1>13. KnowsWindows(tgid[t])'
  BY <1>11, <1>12 DEF KnowsWindows
<1>14. OwnShape(tgid[t])
  BY <1>3, <1>5 DEF OwnShape
<1> QED
  BY <1>7, <1>13, <1>14 DEF Informed, Runs

\* A refused unassignment is about a window the process does not have.
LEMMA UnassignRefusedInformed ==
  ASSUME DriverInv, ClientTypeOK, NEW t \in Threads, Informed(tgid[t]), NEW c \in CPUs,
         NEW b \in Blades, UnassignRefused(t, c, b)
  PROVE  OwnShape(tgid[t]) /\ Informed(tgid[t])'
<1> DEFINE p == tgid[t]
<1>1. /\ UNCHANGED vars /\ UNCHANGED <<known, doubt, phantom, windows>>
      /\ winDoubt'[p] = winDoubt[p] \ {<<c, b>>} /\ Runs(t)
      /\ ~ \E m \in TaskMap(t) : /\ <<m, cmgOf[c], b>> \in allocs
                                 /\ window[<<m, cmgOf[c], b>>][c] \in Windows
  BY TaskGroups DEF UnassignRefused, ClientTypeOK
<1>2. /\ TypeOK /\ WindowOwnership /\ BladeProgrammed /\ TaskMapOwnership
      /\ KnowsBlades(tgid[t]) /\ KnowsWindows(tgid[t]) /\ Mine(tgid[t]) \subseteq allocs
  BY <1>1 DEF DriverInv, LibraryInv, Ownership, Informed, Mine, Runs
<1>3. UNCHANGED <<allocs, assign_mask, window>> /\ QuietStep
  BY <1>1 DEF vars, bookkeeping, registers, QuietStep, Untouched
<1>4. Held(p)' = Held(p) /\ Mine(tgid[t])' = Mine(tgid[t])
  BY <1>3 DEF Held, Mine
<1>5. ASSUME NEW k \in Mine(tgid[t]), NEW d \in assign_mask[k] PROVE <<d, Blade(k)>> # <<c, b>>
  <2>1. SUFFICES ASSUME d = c, Blade(k) = b PROVE FALSE
    OBVIOUS
  <2>2. k \in Keys /\ Cmg(k) = cmgOf[c] /\ k \in allocs /\ c \in assign_mask[k]
    BY <1>2, <2>1, WindowBarrier DEF TypeOK
  <2>3. k = <<Task(k), cmgOf[c], b>>
    BY <2>1, <2>2, KeyFacts
  <2>4. Task(k) \in TaskMap(t)
    BY <1>2 DEF TaskMap, TaskMapOwnership, Mine
  <2>5. window[k][c] \in Windows
    BY <1>2, <2>2, WindowFacts
  <2> QED
    BY <1>1, <2>2, <2>3, <2>4, <2>5
<1>6. KnowsBlades(tgid[t])'
  BY <1>1, <1>2, <1>4 DEF KnowsBlades
<1>7. KnowsWindows(tgid[t])'
  BY <1>1, <1>2, <1>3, <1>4, <1>5 DEF KnowsWindows
<1> QED
  BY <1>3, <1>6, <1>7 DEF Informed, Runs, OwnShape

LEMMA CallInformed ==
  ASSUME DriverInv, ClientTypeOK, NEW t \in Threads, Informed(tgid[t]),
         BladeCall(t) \/ WindowCall(t)
  PROVE  OwnShape(tgid[t]) /\ Informed(tgid[t])'
<1>1. ASSUME NEW g \in CMGs, AllocateRefused(t, g) PROVE OwnShape(tgid[t]) /\ Informed(tgid[t])'
  <2>1. QuietStep /\ UNCHANGED <<allocs, assign_mask, window, status, knowledge>>
    BY <1>1, QuietShape DEF AllocateRefused, AllocateNothing, bookkeeping
  <2>2. KnowledgeKept(tgid[t]) /\ status' = status /\ MineKept(tgid[t])
    BY <2>1, QuietMineKept DEF knowledge, KnowledgeKept
  <2> QED
    BY <2>1, <2>2, StaysInformed, TaskGroups DEF OwnShape
<1> QED
  BY <1>1, AllocateInformed, AllocatePhantomInformed, FreeInformed, FreeRefusedInformed,
     AssignInformed, UnassignInformed, UnassignRefusedInformed DEF BladeCall, WindowCall

-----------------------------------------------------------------------------
(***************************************************************************)
(* The life of a process, for what it knows                                *)
(***************************************************************************)
\* A process without a task mapping holds nothing; if it knows nothing either, it
\* is informed.
LEMMA NothingToKnow ==
  ASSUME NEW p \in Groups, TaskMapOwnership', \A m \in task_list' : tgid[m] # p, Ignorant(p)'
  PROVE  Informed(p)'
<1>1. Mine(p)' = {}
  BY DEF Mine, TaskMapOwnership
<1>2. Held(p)' = {}
  BY <1>1 DEF Held, Mine
<1> QED
  BY <1>1, <1>2 DEF Informed, KnowsBlades, KnowsWindows, Ignorant

LEMMA OpenInformed ==
  ASSUME DriverInv, NEW t \in Threads, Informed(tgid[t]), OpenDevice(t)
  PROVE  OwnShape(tgid[t]) /\ Informed(tgid[t])'
<1>1. QuietStep /\ UNCHANGED <<allocs, assign_mask, window, status, knowledge>>
  BY QuietShape DEF OpenDevice, Open, bookkeeping
<1>2. KnowledgeKept(tgid[t]) /\ status' = status /\ MineKept(tgid[t])
  BY <1>1, QuietMineKept DEF knowledge, KnowledgeKept
<1> QED
  BY <1>1, <1>2, StaysInformed, TaskGroups DEF OwnShape

\* A close by the task of the mapping drops all that the process has, and the process
\* knows; a close by another task drops nothing.
LEMMA CloseInformed ==
  ASSUME DriverInv, DriverInv', LifeInv, NEW t \in Threads, Informed(tgid[t]), CloseDevice(t)
  PROVE  OwnShape(tgid[t]) /\ Informed(tgid[t])'
<1> DEFINE p == tgid[t]
<1>1. /\ TypeOK /\ TaskMapOwnership /\ TaskMapOwnership'
      /\ ClientTypeOK /\ Life /\ SomeCpu \in CPUs /\ p \in Groups
  BY ProcessAssumption, TaskGroups DEF DriverInv, LibraryInv, Ownership, LifeInv, SomeCpu
<1>2. Close(t, SomeCpu) /\ status' = status /\ task_list' = task_list \ {t}
  BY <1>1, CloseLife DEF CloseDevice
<1>3. Allocations(t) \in SUBSET Mine(p) /\ (QuietStep \/ FreedStep(Allocations(t)))
  BY <1>1, <1>2, CloseShape DEF Mine, Own
<1>4. Informed(p)'
  <2>1. CASE t \in task_list
    <3>1. Forgets(p, Barriers)
      BY <2>1 DEF CloseDevice
    <3>2. \A m \in task_list' : tgid[m] # p
      BY <1>1, <1>2, <2>1 DEF TaskMapOwnership
    <3>3. Ignorant(p)'
      BY <1>1, <3>1, ForgetsAll DEF Ignorant
    <3> QED
      BY <1>1, <3>2, <3>3, NothingToKnow
  <2>2. CASE t \notin task_list
    <3>1. UNCHANGED <<allocs, assign_mask, window, knowledge>>
      BY <2>2 DEF CloseDevice, Close, bookkeeping
    <3>2. KnowledgeKept(p) /\ MineKept(p)
      BY <3>1, QuietMineKept DEF knowledge, KnowledgeKept
    <3> QED
      BY <1>1, <1>2, <3>2, StaysInformed
  <2> QED
    BY <2>1, <2>2
<1> QED
  BY <1>3, <1>4 DEF OwnShape

LEMMA StatusInformed ==
  ASSUME DriverInv, DriverInv', LifeInv, NEW p \in Groups, Exit(p) \/ Gone(p) \/ Start(p)
  PROVE  OwnShape(p) /\ Informed(p)'
<1>1. QuietStep /\ UNCHANGED <<opened, task_list>>
  BY DEF Exit, Gone, Start, vars, bookkeeping, registers, QuietStep, Untouched
<1>2. TaskMapOwnership' /\ ClientTypeOK /\ Life
  BY DEF DriverInv, LifeInv
<1>3. CASE Exit(p) \/ Gone(p)
  <2>1. status'[p] # "runs"
    BY <1>2, <1>3 DEF Exit, Gone, ClientTypeOK
  <2> QED
    BY <1>1, <2>1 DEF OwnShape, Informed
<1>4. CASE Start(p)
  <2>1. status[p] = "gone" /\ UNCHANGED <<task_list, knowledge>>
        /\ \A m \in task_list : tgid[m] # p
    BY <1>1, <1>4 DEF Start
  <2>2. Ignorant(p)'
    BY <1>2, <2>1 DEF Life, LifeOf, Ignorant, knowledge
  <2> QED
    BY <1>1, <1>2, <2>1, <2>2, NothingToKnow DEF OwnShape
<1> QED
  BY <1>3, <1>4

-----------------------------------------------------------------------------
(***************************************************************************)
(* What processes know: the theorems                                       *)
(***************************************************************************)
AllInformed == \A p \in Groups : Informed(p)

TaskStep(t) == BladeCall(t) \/ WindowCall(t) \/ OpenDevice(t) \/ CloseDevice(t)

\* A step of one process, or of its life, leaves what the others know alone.
ProcessStep(p) ==
  \/ Exit(p) \/ Gone(p) \/ Start(p)
  \/ \E t \in Threads : tgid[t] = p /\ TaskStep(t)

LEMMA OthersKnow ==
  ASSUME DriverInv, DriverInv', LifeInv, NEW p \in Groups, ProcessStep(p),
         NEW q \in Groups, q # p
  PROVE  KnowledgeKept(q) /\ status'[q] = status[q]
<1>1. TypeOK /\ TypeOK' /\ ClientTypeOK /\ Life
  BY DEF DriverInv, LibraryInv, Ownership, LifeInv
<1>2. CASE Exit(p) \/ Gone(p) \/ Start(p)
  BY <1>1, <1>2, StatusLife
<1>3. ASSUME NEW t \in Threads, tgid[t] = p, TaskStep(t)
      PROVE  KnowledgeKept(q) /\ status'[q] = status[q]
  <2>1. CASE BladeCall(t) \/ WindowCall(t)
    BY <1>1, <1>3, <2>1, CallsEffect DEF CallEffect
  <2>2. CASE OpenDevice(t)
    BY <2>2 DEF OpenDevice, KnowledgeKept, knowledge
  <2>3. CASE CloseDevice(t)
    <3>1. status' = status /\ (Forgets(p, Barriers) \/ UNCHANGED knowledge)
      BY <1>3, <2>3 DEF CloseDevice
    <3> QED
      BY <1>1, <3>1, ForgetsType DEF KnowledgeKept, knowledge
  <2> QED
    BY <1>3, <2>1, <2>2, <2>3 DEF TaskStep
<1> QED
  BY <1>2, <1>3 DEF ProcessStep

LEMMA NextInformed ==
  ASSUME DriverInv, DriverInv', LifeInv, AllInformed, [ClientNext]_clientVars
  PROVE  AllInformed'
<1>1. TypeOK /\ ClientTypeOK
  BY DEF DriverInv, LibraryInv, Ownership, LifeInv
<1>2. CASE UNCHANGED clientVars
  <2>1. UNCHANGED <<allocs, assign_mask, window, status, known, doubt, phantom, windows,
                    winDoubt>>
    BY <1>2 DEF clientVars, vars, bookkeeping, knowledge
  <2> QED
    BY <2>1, StaysInformed, QuietMineKept DEF AllInformed, KnowledgeKept
<1>3. ASSUME NEW p \in Groups, ProcessStep(p) PROVE AllInformed'
  <2>1. OwnShape(p) /\ Informed(p)'
    <3>1. CASE Exit(p) \/ Gone(p) \/ Start(p)
      BY <3>1, StatusInformed
    <3>2. ASSUME NEW t \in Threads, tgid[t] = p, TaskStep(t)
          PROVE  OwnShape(p) /\ Informed(p)'
      BY <1>1, <3>2, CallInformed, OpenInformed, CloseInformed DEF AllInformed, TaskStep
    <3> QED
      BY <1>3, <3>1, <3>2 DEF ProcessStep
  <2>2. ASSUME NEW q \in Groups, q # p PROVE Informed(q)'
    BY <1>1, <1>3, <2>1, <2>2, OthersKnow, OthersMineKept, StaysInformed DEF AllInformed
  <2> QED
    BY <2>1, <2>2 DEF AllInformed
<1>4. CASE ClientNext
  <2>1. \E p \in Groups : ProcessStep(p)
    BY <1>4, TaskGroups DEF ClientNext, ProcessStep, TaskStep
  <2> QED
    BY <1>3, <2>1
<1> QED
  BY <1>2, <1>4

LEMMA InformedInvariant == ClientSpec => []AllInformed
<1>1. ASSUME ClientInit PROVE AllInformed
  BY <1>1 DEF ClientInit, AllInformed, Informed, Runs
<1>2. DriverInv /\ DriverInv' /\ LifeInv /\ AllInformed /\ [ClientNext]_clientVars
        => AllInformed'
  BY NextInformed
<1> QED
  BY <1>1, <1>2, ClientDriverInv, LifeInvariant, PTL DEF ClientSpec

\* Answers and bookkeeping agree, however many processes allocate, free, close and
\* are killed at the same time and whichever of their calls meet a failing
\* kmalloc() or copy_to_user(): a process holds each blade it was told of, unless
\* kmalloc() failed behind the answer, and no blade is kept for it that it neither
\* was told of nor has an unanswered call about.
THEOREM AnswersAboutBlades == ClientSpec => []BladesAnswered
<1>1. AllInformed => BladesAnswered
  BY DEF AllInformed, Informed, KnowsBlades, BladesAnswered, RunningGroups
<1> QED
  BY <1>1, InformedInvariant, PTL

\* A window a process was told of is valid in the register of its CPU, shows the
\* blade it was told for, and the process holds the blade; and a CPU with a window
\* on a blade of the process is one it was told of or has an unanswered call about.
THEOREM AnswersAboutWindows == ClientSpec => []WindowsAnswered
<1>1. ASSUME DriverInv, AllInformed PROVE WindowsAnswered
  <2>1. SUFFICES ASSUME NEW p \in Groups, status[p] = "runs"
                 PROVE  /\ \A e \in windows[p] :
                             /\ assign_sync[e[1]][e[3]] = [valid |-> TRUE, blade |-> e[2]]
                             /\ <<cmgOf[e[1]], e[2]>> \in Held(p)
                        /\ \A k \in allocs : \A c \in assign_mask[k] :
                             tgid[Task(k)] = p =>
                               \/ <<c, Blade(k), window[k][c]>> \in windows[p]
                               \/ <<c, Blade(k)>> \in winDoubt[p]
    BY DEF WindowsAnswered, RunningGroups
  <2>2. KnowsWindows(p) /\ TypeOK /\ BladeProgrammed /\ AssignedInHardware
    BY <1>1, <2>1 DEF AllInformed, Informed, DriverInv, LibraryInv, Ownership
  <2>3. ASSUME NEW e \in windows[p]
        PROVE  /\ assign_sync[e[1]][e[3]] = [valid |-> TRUE, blade |-> e[2]]
               /\ <<cmgOf[e[1]], e[2]>> \in Held(p)
    <3>1. PICK k \in Mine(p) : /\ Blade(k) = e[2] /\ e[1] \in assign_mask[k]
                               /\ window[k][e[1]] = e[3]
      BY <2>2 DEF KnowsWindows
    <3>2. k \in allocs
      BY DEF Mine
    <3>3. assign_sync[e[1]][e[3]] = [valid |-> TRUE, blade |-> e[2]]
      BY <2>2, <3>1, <3>2 DEF AssignedInHardware
    <3>4. <<cmgOf[e[1]], e[2]>> = Barrier(k)
      BY <2>2, <3>1, <3>2, WindowBarrier
    <3> QED
      BY <3>3, <3>4, HeldMine
  <2> QED
    BY <2>2, <2>3 DEF KnowsWindows, Mine
<1> QED
  BY <1>1, ClientDriverInv, InformedInvariant, PTL

=============================================================================
