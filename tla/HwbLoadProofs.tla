--------------------------- MODULE HwbLoadProofs ----------------------------
(***************************************************************************)
(* Proofs about HwbLoad, for every number of CMGs and PEs, every numbering *)
(* of the CPUs, every step of insmod that may fail, and whatever readers,  *)
(* processes and hotplug do meanwhile; the last part is about topologies   *)
(* without holes.                                                          *)
(***************************************************************************)
EXTENDS HwbLoad, FiniteSetTheorems, TLAPS

-----------------------------------------------------------------------------
(***************************************************************************)
(* Type correctness                                                        *)
(***************************************************************************)
\* What get_max_pe_per_cmg() counts is a number of PEs.
LEMMA CountType ==
  ASSUME NEW g \in CMGs
  PROVE  CountedPes(g) \in 0 .. MAX_PE_PER_CMG
<1> DEFINE S == {i \in PPEs : pe_map[g][i] # NoCpu}
<1>1. MAX_PE_PER_CMG \in Nat
  BY LoadAssumption
<1>2. IsFiniteSet(PPEs) /\ Cardinality(PPEs) = MAX_PE_PER_CMG
  BY <1>1, LoadAssumption, FS_Interval DEF PPEs
<1>3. S \in SUBSET PPEs
  OBVIOUS
<1>4. IsFiniteSet(S) /\ Cardinality(S) <= Cardinality(PPEs)
  BY <1>2, <1>3, FS_Subset
<1>5. Cardinality(S) \in Nat
  BY <1>4, FS_CardinalityType
<1> QED
  BY <1>1, <1>2, <1>4, <1>5 DEF CountedPes

\* The map of fill_pe_map() has CPUs in it, each where its PE_INFO says.
LEMMA FilledMapFacts ==
  ASSUME online \subseteq CPUs
  PROVE  /\ FilledMap \in [CMGs -> [PPEs -> CPUs \cup {NoCpu}]]
         /\ \A g \in CMGs, i \in PPEs :
              \/ FilledMap[g][i] \in online /\ peinfo[FilledMap[g][i]] = <<g, i>>
              \/ FilledMap[g][i] = NoCpu /\ ~ \E c \in online : peinfo[c] = <<g, i>>
<1>1. ASSUME NEW g \in CMGs, NEW i \in PPEs
      PROVE  \/ FilledMap[g][i] \in online /\ peinfo[FilledMap[g][i]] = <<g, i>>
             \/ FilledMap[g][i] = NoCpu /\ ~ \E c \in online : peinfo[c] = <<g, i>>
  <2>1. CASE \E c \in online : peinfo[c] = <<g, i>>
    <3>1. FilledMap[g][i] = CHOOSE c \in online : peinfo[c] = <<g, i>>
      BY <2>1 DEF FilledMap
    <3> QED
      BY <2>1, <3>1
  <2>2. CASE ~ \E c \in online : peinfo[c] = <<g, i>>
    BY <2>2 DEF FilledMap
  <2> QED
    BY <2>1, <2>2
<1>2. \A g \in CMGs, i \in PPEs : FilledMap[g][i] \in CPUs \cup {NoCpu}
  BY <1>1
<1>3. FilledMap = [g \in CMGs |-> [i \in PPEs |-> FilledMap[g][i]]]
  BY DEF FilledMap
<1> QED
  BY <1>1, <1>2, <1>3

\* The CMG numbers insmod and rmmod count through.
LEMMA CmgFacts ==
  /\ MAX_NUM_CMG \in Nat \ {0}
  /\ 0 \in CMGs
  /\ \A g \in CMGs : g \in Nat /\ g < MAX_NUM_CMG
  /\ \A g \in Nat : g < MAX_NUM_CMG => g \in CMGs
BY LoadAssumption DEF CMGs

LEMMA InitTypeOK == Init => TypeOK
<1> SUFFICES ASSUME Init PROVE TypeOK
  OBVIOUS
<1> USE DEF Init
<1>1. pe_map \in [CMGs -> [PPEs -> CPUs \cup {NoCpu}]]
  BY DEF NoMap
<1>2. /\ cmg \in 0 .. MAX_NUM_CMG /\ last \in 0 .. MAX_NUM_CMG
      /\ num_cmgs \in 0 .. MAX_NUM_CMG /\ users \in 0 .. MaxUsers
  BY LoadAssumption
<1>3. num_pes \in [CMGs -> 0 .. MAX_PE_PER_CMG]
  <2>1. 0 \in 0 .. MAX_PE_PER_CMG
    BY LoadAssumption
  <2> QED
    BY <2>1
<1>4. refs \in [CMGs -> 0 .. References]
  BY DEF References
<1>5. cmgmask \in [CMGs -> SUBSET CPUs]
  OBVIOUS
<1> QED
  BY <1>1, <1>2, <1>3, <1>4, <1>5 DEF TypeOK

\* insmod.
LEMMA InsmodType ==
  ASSUME TypeOK,
         Register \/ CreateFile \/ MapCpus \/ CountPes \/ EnableAccess
  PROVE  TypeOK'
<1> USE DEF TypeOK, device, topology, objects, machine
<1>1. CASE Register
  <2>1. /\ pe_map' \in [CMGs -> [PPEs -> CPUs \cup {NoCpu}]]
        /\ num_cmgs' \in 0 .. MAX_NUM_CMG
        /\ num_pes' \in [CMGs -> 0 .. MAX_PE_PER_CMG]
        /\ refs' \in [CMGs -> 0 .. References]
        /\ cmgmask' \in [CMGs -> SUBSET CPUs]
    <3>1. 0 \in 0 .. MAX_PE_PER_CMG /\ 0 \in 0 .. References /\ 0 \in 0 .. MAX_NUM_CMG
      BY LoadAssumption DEF References
    <3> QED
      BY <1>1, <3>1 DEF Register, NoMap
  <2> QED
    BY <1>1, <2>1 DEF Register
<1>2. CASE CreateFile
  BY <1>2 DEF CreateFile
<1>3. CASE MapCpus
  BY <1>3, FilledMapFacts DEF MapCpus
<1>4. CASE CountPes
  <2>1. num_pes' \in [CMGs -> 0 .. MAX_PE_PER_CMG]
    BY <1>4, CountType DEF CountPes
  <2>2. num_cmgs' \in 0 .. MAX_NUM_CMG /\ cmg' \in 0 .. MAX_NUM_CMG
    BY <1>4, CmgFacts DEF CountPes
  <2> QED
    BY <1>4, <2>1, <2>2 DEF CountPes
<1>5. CASE EnableAccess
  BY <1>5 DEF EnableAccess
<1> QED
  BY <1>1, <1>2, <1>3, <1>4, <1>5

\* initialize_cmg().
LEMMA InitialiseType ==
  ASSUME TypeOK, TestKobjectFails \/ InitialiseCmg \/ InitialiseCmgFails, cmg \in CMGs
  PROVE  TypeOK'
<1> USE DEF TypeOK
<1>1. /\ InitialisesCmg
      /\ refs' \in [CMGs -> 0 .. References]
      /\ at' \in {"init", "enable", "remove", "oops"}
      /\ cmg' \in 0 .. MAX_NUM_CMG
      /\ last' \in 0 .. MAX_NUM_CMG
      /\ files' \subseteq CMGs
  BY CmgFacts DEF TestKobjectFails, InitialiseCmg, InitialiseCmgFails, References, ToDestroy, InitialisesCmg
<1>2. cmgmask' \in [CMGs -> SUBSET CPUs]
  <2>1. {pe_map[cmg][i] : i \in Visited(cmg)} \ {NoCpu} \in SUBSET CPUs
    BY DEF Visited
  <2> QED
    BY <1>1, <2>1 DEF InitialisesCmg
<1>3. UNCHANGED <<device, topology, users, machine>>
  BY <1>1 DEF InitialisesCmg
<1> QED
  BY <1>1, <1>2, <1>3 DEF device, topology, machine

\* rmmod.
LEMMA RmmodType ==
  ASSUME TypeOK, DisableAccess \/ RemoveFiles \/ PutKobject \/ Unregister,
         at = "put" => cmg < last /\ refs[cmg] = References
  PROVE  TypeOK'
<1> USE DEF TypeOK, device, topology, objects, machine
<1>1. CASE DisableAccess
  BY <1>1, CmgFacts DEF DisableAccess
<1>2. CASE RemoveFiles
  BY <1>2 DEF RemoveFiles
<1>3. CASE PutKobject
  <2>1. cmg \in CMGs /\ cmg + 1 \in 0 .. MAX_NUM_CMG /\ refs[cmg] - 1 \in 0 .. References
    BY <1>3, CmgFacts DEF PutKobject, References
  <2> QED
    BY <1>3, <2>1 DEF PutKobject
<1>4. CASE Unregister
  BY <1>4 DEF Unregister
<1> QED
  BY <1>1, <1>2, <1>3, <1>4

\* Readers, processes and hotplug.
UseStep ==
  \/ OpenDevice \/ CloseDevice
  \/ \E g \in CMGs : BeginRead(g) \/ EndRead(g)
  \/ \E c \in CPUs : CpuDown(c) \/ CpuUp(c)

LEMMA UseType ==
  ASSUME TypeOK, UseStep
  PROVE  TypeOK'
<1> USE LoadAssumption DEF TypeOK, device, topology, objects, machine
<1>1. CASE OpenDevice
  BY <1>1 DEF OpenDevice
<1>2. CASE CloseDevice
  BY <1>2 DEF CloseDevice
<1>3. ASSUME NEW g \in CMGs, BeginRead(g) \/ EndRead(g) PROVE TypeOK'
  BY <1>3 DEF BeginRead, EndRead
<1>4. ASSUME NEW c \in CPUs, CpuDown(c) \/ CpuUp(c) PROVE TypeOK'
  BY <1>4 DEF CpuDown, CpuUp, Quiet
<1> QED
  BY <1>1, <1>2, <1>3, <1>4 DEF UseStep

-----------------------------------------------------------------------------
(***************************************************************************)
(* Where insmod and rmmod are, and what exists by then                     *)
(***************************************************************************)
\* The CMG whose kobject rmmod is about to put.
Emptied == IF at = "put" THEN {cmg} ELSE {}

Progress ==
  /\ at = "init" => cmg < MAX_NUM_CMG
  /\ at \in {"remove", "put"} => cmg <= last
  /\ at = "put" => cmg < last
  /\ at = "live" => num_cmgs = MAX_NUM_CMG
  /\ at \in {"init", "enable"} => num_cmgs = MAX_NUM_CMG

\* The CMGs whose files exist, from the state of insmod and rmmod alone.
HasFiles(g) ==
  CASE at = "init"               -> g < cmg
    [] at \in {"enable", "live"} -> TRUE
    [] at = "remove"             -> cmg <= g /\ g < last
    [] at = "put"                -> cmg < g /\ g < last
    [] OTHER                     -> FALSE

FilesFollow == files = {g \in CMGs : HasFiles(g)}

LoadInv ==
  /\ TypeOK
  /\ Progress
  /\ FilesFollow
  /\ readers \subseteq files \cup Emptied
  /\ \A g \in files \cup Emptied : refs[g] = References
  /\ at = "absent" => ~ registered
  /\ at \in {"absent", "file"} => ~ hwinfo
  /\ hwb_ctrl \subseteq online
  /\ at # "live" => hwb_ctrl = {}

LEMMA InitLoadInv == Init => LoadInv
BY InitTypeOK DEF Init, LoadInv, Progress, FilesFollow, HasFiles, Emptied

\* The parts of LoadInv besides the types, one step at a time.
LEMMA BeginInv ==
  ASSUME LoadInv, Register \/ CreateFile \/ MapCpus \/ CountPes
  PROVE  LoadInv'
<1>1. TypeOK'
  BY InsmodType DEF LoadInv
<1> USE CmgFacts DEF LoadInv, Progress, FilesFollow, HasFiles, Emptied,
        device, topology, objects, machine
<1>2. CASE Register
  BY <1>1, <1>2 DEF Register
<1>3. CASE CreateFile
  <2>1. files = {} /\ readers = {} /\ hwb_ctrl = {}
    BY <1>3 DEF CreateFile
  <2>2. /\ UNCHANGED <<files, readers, hwb_ctrl, online>>
        /\ \/ at' = "map"
           \/ at' = "absent" /\ ~ registered' /\ hwinfo' = hwinfo
    BY <1>3 DEF CreateFile
  <2>3. ~ hwinfo
    BY <1>3 DEF CreateFile
  <2> QED
    BY <1>1, <2>1, <2>2, <2>3
<1>4. CASE MapCpus
  BY <1>1, <1>4 DEF MapCpus
<1>5. CASE CountPes
  BY <1>1, <1>5 DEF CountPes
<1> QED
  BY <1>2, <1>3, <1>4, <1>5

LEMMA InitialiseInv ==
  ASSUME LoadInv, TestKobjectFails \/ InitialiseCmg \/ InitialiseCmgFails
  PROVE  LoadInv'
<1>1. at = "init" /\ cmg \in CMGs
  BY CmgFacts DEF LoadInv, TypeOK, Progress, TestKobjectFails, InitialiseCmg, InitialiseCmgFails,
     InitialisesCmg
<1>2. TypeOK'
  BY <1>1, InitialiseType DEF LoadInv
<1>3. /\ files = {g \in CMGs : g < cmg}
      /\ readers \subseteq files
      /\ \A g \in files : refs[g] = References /\ g # cmg
  BY <1>1, CmgFacts DEF LoadInv, FilesFollow, HasFiles, Emptied
<1>4. /\ UNCHANGED <<registered, hwinfo, num_cmgs, online, hwb_ctrl, readers>>
      /\ num_cmgs = MAX_NUM_CMG
      /\ hwb_ctrl = {}
  BY <1>1 DEF LoadInv, Progress, TestKobjectFails, InitialiseCmg, InitialiseCmgFails,
     InitialisesCmg, device, topology, machine
<1>5. CASE InitialiseCmg
  <2>1. /\ files' = files \cup {cmg}
        /\ refs' = [refs EXCEPT ![cmg] = References]
        /\ \/ cmg + 1 = MAX_NUM_CMG /\ at' = "enable" /\ cmg' = cmg
           \/ cmg + 1 # MAX_NUM_CMG /\ at' = "init" /\ cmg' = cmg + 1
    BY <1>1, <1>5 DEF InitialiseCmg, InitialisesCmg
  <2>2. Progress' /\ FilesFollow'
    BY <1>1, <1>3, <1>4, <2>1, CmgFacts DEF Progress, FilesFollow, HasFiles
  <2>3. \A g \in files' : refs'[g] = References
    BY <1>1, <1>3, <2>1 DEF LoadInv, TypeOK
  <2>4. at' \in {"enable", "init"}
    BY <2>1
  <2> QED
    BY <1>2, <1>3, <1>4, <2>1, <2>2, <2>3, <2>4 DEF LoadInv, Emptied
<1>6. CASE InitialiseCmgFails
  <2>1. /\ files' = files
        /\ \E n \in {1, References} : refs' = [refs EXCEPT ![cmg] = n]
        /\ at' = "remove" /\ last' = cmg /\ cmg' = 0
    BY <1>6 DEF InitialiseCmgFails, ToDestroy
  <2>2. Progress' /\ FilesFollow'
    BY <1>1, <1>3, <1>4, <2>1, CmgFacts DEF Progress, FilesFollow, HasFiles
  <2>3. \A g \in files' : refs'[g] = References
    BY <1>1, <1>3, <2>1 DEF LoadInv, TypeOK
  <2> QED
    BY <1>2, <1>3, <1>4, <2>1, <2>2, <2>3 DEF LoadInv, Emptied
<1>7. CASE TestKobjectFails
  <2>1. cmg = 0 /\ at' = "oops" /\ UNCHANGED <<cmg, last, refs, files>>
    BY <1>7 DEF TestKobjectFails
  <2>2. files = {} /\ readers = {}
    BY <1>3, <2>1, CmgFacts
  <2>3. Progress' /\ FilesFollow'
    BY <2>1, <2>2 DEF Progress, FilesFollow, HasFiles
  <2> QED
    BY <1>2, <1>4, <2>1, <2>2, <2>3 DEF LoadInv, Emptied
<1> QED
  BY <1>5, <1>6, <1>7

LEMMA LiveInv ==
  ASSUME LoadInv, EnableAccess \/ DisableAccess
  PROVE  LoadInv'
<1>1. TypeOK'
  BY InsmodType, RmmodType DEF LoadInv, Emptied, EnableAccess, DisableAccess
<1> USE CmgFacts DEF LoadInv, Progress, FilesFollow, HasFiles, Emptied,
        device, topology, objects, machine
<1>2. CASE EnableAccess
  BY <1>1, <1>2 DEF EnableAccess
<1>3. CASE DisableAccess
  BY <1>1, <1>3 DEF DisableAccess
<1> QED
  BY <1>2, <1>3

LEMMA RemoveInv ==
  ASSUME LoadInv, RemoveFiles \/ PutKobject \/ Unregister
  PROVE  LoadInv'
<1>1. at = "put" => cmg < last /\ refs[cmg] = References
  BY DEF LoadInv, Progress, Emptied
<1>2. TypeOK'
  BY <1>1, RmmodType DEF LoadInv
<1>3. cmg \in Nat /\ last \in Nat /\ last <= MAX_NUM_CMG
  BY CmgFacts DEF LoadInv, TypeOK
<1>4. CASE RemoveFiles
  <2>1. /\ at = "remove" /\ at' = "put" /\ cmg < last /\ files' = files \ {cmg}
        /\ UNCHANGED <<cmg, last, registered, hwinfo, num_cmgs, refs, online, hwb_ctrl, readers>>
    BY <1>4 DEF RemoveFiles, device, topology, machine
  <2>2. cmg \in files
    BY <1>3, <2>1, CmgFacts DEF LoadInv, FilesFollow, HasFiles
  <2>3. Progress' /\ FilesFollow'
    BY <1>3, <2>1, CmgFacts DEF LoadInv, Progress, FilesFollow, HasFiles
  <2>4. files' \cup {cmg} = files
    BY <2>1, <2>2
  <2> QED
    BY <1>2, <2>1, <2>3, <2>4 DEF LoadInv, Emptied
<1>5. CASE PutKobject
  <2>1. /\ at = "put" /\ at' = "remove" /\ cmg' = cmg + 1 /\ cmg \notin readers
        /\ refs' = [refs EXCEPT ![cmg] = @ - 1]
        /\ UNCHANGED <<last, registered, hwinfo, num_cmgs, files, online, hwb_ctrl, readers>>
    BY <1>5 DEF PutKobject, Drained, device, topology, machine
  <2>2. Progress' /\ FilesFollow' /\ cmg \notin files
    BY <1>1, <1>3, <2>1, CmgFacts DEF LoadInv, Progress, FilesFollow, HasFiles
  <2>3. \A g \in files : refs'[g] = References
    BY <2>1, <2>2 DEF LoadInv, TypeOK
  <2> QED
    BY <1>2, <2>1, <2>2, <2>3 DEF LoadInv, Emptied
<1>6. CASE Unregister
  <2>1. /\ at = "remove" /\ at' = "absent" /\ cmg >= last
        /\ ~ registered' /\ ~ hwinfo'
        /\ UNCHANGED <<files, online, hwb_ctrl, readers, refs>>
    BY <1>6 DEF Unregister, objects, machine
  <2>2. files = {} /\ readers = {}
    BY <1>3, <2>1, CmgFacts DEF LoadInv, FilesFollow, HasFiles, Emptied
  <2>3. Progress' /\ FilesFollow'
    BY <2>1, <2>2 DEF Progress, FilesFollow, HasFiles
  <2> QED
    BY <1>2, <2>1, <2>2, <2>3 DEF LoadInv, Emptied
<1> QED
  BY <1>4, <1>5, <1>6

LEMMA UseInv ==
  ASSUME LoadInv, UseStep
  PROVE  LoadInv'
<1>1. TypeOK'
  BY UseType DEF LoadInv
<1>2. UNCHANGED <<at, cmg, last, registered, hwinfo, num_cmgs, refs, files>>
  BY DEF UseStep, OpenDevice, CloseDevice, BeginRead, EndRead,
     CpuDown, CpuUp, Quiet, device, topology, objects
<1>3. Progress' /\ FilesFollow' /\ Emptied' = Emptied
  BY <1>2 DEF LoadInv, Progress, FilesFollow, HasFiles, Emptied
<1>4. /\ readers' \subseteq readers \cup files
      /\ hwb_ctrl' \subseteq hwb_ctrl /\ hwb_ctrl' \subseteq online'
  BY DEF UseStep, LoadInv, TypeOK, OpenDevice, CloseDevice, BeginRead, EndRead,
     CpuDown, CpuUp, Quiet, machine
<1> QED
  BY <1>1, <1>2, <1>3, <1>4 DEF LoadInv

LEMMA NextLoadInv ==
  ASSUME LoadInv, [Next]_vars
  PROVE  LoadInv'
<1>1. CASE Next
  BY <1>1, BeginInv, InitialiseInv, LiveInv, RemoveInv, UseInv DEF Next, LoadStep, UseStep
<1>2. CASE UNCHANGED vars
  BY <1>2 DEF vars, device, topology, objects, machine, LoadInv, TypeOK,
     Progress, FilesFollow, HasFiles, Emptied
<1> QED
  BY <1>1, <1>2

LEMMA LoadInvariant == Spec => []LoadInv
<1> QED
  BY InitLoadInv, NextLoadInv, PTL DEF Spec

\* The types of HwbLoad, wherever insmod fails and whoever comes in between.
THEOREM LoadTypeCorrect == Spec => []TypeOK
BY LoadInvariant, PTL DEF LoadInv

\* Every way out of insmod and rmmod gives back all that leads into the module and
\* takes user access from every CPU.
THEOREM UnloadComplete == Spec => []NothingLeftBehind
<1>1. LoadInv => NothingLeftBehind
  BY DEF LoadInv, FilesFollow, HasFiles, Emptied, NothingLeftBehind
<1> QED
  BY <1>1, LoadInvariant, PTL

\* destroy_cmg() is called once at most for a kobject, which has two references.
THEOREM KobjectsStatic == Spec => KobjectNeverReleased
<1> DEFINE Kept == at # "absent" => \A g \in CMGs : refs[g] > 0 => refs'[g] > 0
<1>1. ASSUME LoadInv, [Next]_vars PROVE Kept
  <2>1. CASE UNCHANGED refs
    BY <2>1
  <2>2. CASE Register
    BY <2>2 DEF Register
  <2>3. CASE InitialiseCmg \/ InitialiseCmgFails
    BY <1>1, <2>3 DEF InitialiseCmg, InitialiseCmgFails, References, LoadInv, TypeOK
  <2>4. CASE PutKobject
    <3>1. refs[cmg] = References
      BY <1>1, <2>4 DEF PutKobject, LoadInv, Emptied
    <3> QED
      BY <1>1, <2>4, <3>1 DEF PutKobject, References, LoadInv, TypeOK
  <2> QED
    BY <1>1, <2>1, <2>2, <2>3, <2>4
    DEF Next, LoadStep, vars, objects, CreateFile, MapCpus, CountPes, TestKobjectFails,
        EnableAccess, DisableAccess, RemoveFiles, Unregister, OpenDevice, CloseDevice, BeginRead, EndRead, CpuDown, CpuUp, Quiet
<1>2. LoadInv /\ [Next]_vars => [Kept]_vars
  BY <1>1
<1> QED
  BY <1>2, LoadInvariant, PTL DEF Spec, KobjectNeverReleased

-----------------------------------------------------------------------------
(***************************************************************************)
(* The topology: the map of the CPUs that insmod draws up is right if the  *)
(* CMGs number their PEs without a hole and all CPUs are online at insmod  *)
(* (they may go and come later).  The run doc_cpumask shows what happens   *)
(* when one is not.                                                        *)
(***************************************************************************)
\* CMG g has the PEs 0 .. n[g] - 1.
NoHoles(n) ==
  /\ n \in [CMGs -> 0 .. MAX_PE_PER_CMG]
  /\ \A g \in CMGs, i \in PPEs : (\E c \in CPUs : peinfo[c] = <<g, i>>) <=> i < n[g]

\* The entry i of the map of CMG g is right.
IsMapped(g, i) ==
  \/ pe_map[g][i] \in CPUs /\ peinfo[pe_map[g][i]] = <<g, i>>
  \/ pe_map[g][i] = NoCpu /\ ~ \E c \in CPUs : peinfo[c] = <<g, i>>

CpusOf(g) == {c \in CPUs : CmgOf(c) = g}

TopologyInv(n) ==
  /\ LoadInv
  /\ at \in {"file", "map", "count", "init", "enable"} => online = CPUs
  /\ at \notin {"absent", "file", "map"} => \A g \in CMGs, i \in PPEs : IsMapped(g, i)
  /\ at \notin {"absent", "file", "map", "count"} => num_pes = n
  /\ \A g \in files \cup Emptied : cmgmask[g] = CpusOf(g)

\* Every CPU is one PE of one CMG.
LEMMA PeFacts ==
  \A c \in CPUs : /\ CmgOf(c) \in CMGs /\ PpeOf(c) \in PPEs
                  /\ peinfo[c] = <<CmgOf(c), PpeOf(c)>>
BY LoadAssumption DEF CmgOf, PpeOf

\* get_max_pe_per_cmg() on the right map.
LEMMA CountRight ==
  ASSUME NEW n, NoHoles(n), NEW g \in CMGs, \A i \in PPEs : IsMapped(g, i)
  PROVE  CountedPes(g) = n[g]
<1>1. n[g] \in Nat /\ n[g] <= MAX_PE_PER_CMG /\ MAX_PE_PER_CMG \in Nat
  BY LoadAssumption DEF NoHoles
<1>2. \A i \in PPEs : pe_map[g][i] # NoCpu <=> i < n[g]
  BY LoadAssumption DEF IsMapped, NoHoles
<1>3. {i \in PPEs : pe_map[g][i] # NoCpu} = 0 .. n[g] - 1
  <2>1. {i \in PPEs : pe_map[g][i] # NoCpu} = {i \in PPEs : i < n[g]}
    BY <1>2
  <2>2. {i \in PPEs : i < n[g]} = 0 .. n[g] - 1
    BY <1>1 DEF PPEs
  <2> QED
    BY <2>1, <2>2
<1>4. Cardinality(0 .. n[g] - 1) = n[g]
  <2> DEFINE b == n[g] - 1
  <2>1. b \in Int /\ (IF 0 > b THEN 0 ELSE b - 0 + 1) = n[g]
    BY <1>1
  <2>2. 0 \in Int
    OBVIOUS
  <2> HIDE DEF b
  <2>3. Cardinality(0 .. b) = IF 0 > b THEN 0 ELSE b - 0 + 1
    BY <2>1, <2>2, FS_Interval, Zenon
  <2> QED
    BY <2>1, <2>3 DEF b
<1> QED
  BY <1>3, <1>4 DEF CountedPes

\* A loop over num_pes entries of the right map meets the CPUs of the CMG.
LEMMA VisitedRight ==
  ASSUME NEW n, NoHoles(n), NEW g \in CMGs, \A i \in PPEs : IsMapped(g, i),
         num_pes[g] = n[g]
  PROVE  /\ \A c \in CpusOf(g) : PpeOf(c) \in Visited(g) /\ pe_map[g][PpeOf(c)] = c
         /\ \A i \in Visited(g) : pe_map[g][i] \in CpusOf(g)
         /\ \A i \in PPEs : pe_map[g][i] \in CpusOf(g) \cup {NoCpu}
<1>1. ASSUME NEW c \in CpusOf(g)
      PROVE  PpeOf(c) \in Visited(g) /\ pe_map[g][PpeOf(c)] = c
  <2>1. c \in CPUs /\ PpeOf(c) \in PPEs /\ peinfo[c] = <<g, PpeOf(c)>>
    BY PeFacts DEF CpusOf
  <2>2. PpeOf(c) < n[g]
    BY <2>1 DEF NoHoles
  <2>3. pe_map[g][PpeOf(c)] \in CPUs /\ peinfo[pe_map[g][PpeOf(c)]] = peinfo[c]
    BY <2>1 DEF IsMapped
  <2> QED
    BY <2>1, <2>2, <2>3, LoadAssumption DEF Visited
<1>2. ASSUME NEW i \in PPEs, pe_map[g][i] # NoCpu
      PROVE  pe_map[g][i] \in CpusOf(g)
  BY <1>2 DEF IsMapped, CpusOf, CmgOf
<1>3. \A i \in Visited(g) : i \in PPEs /\ pe_map[g][i] # NoCpu
  BY LoadAssumption DEF Visited, IsMapped, NoHoles
<1> QED
  BY <1>1, <1>2, <1>3

-----------------------------------------------------------------------------
(***************************************************************************)
(* TopologyInv is inductive                                                *)
(***************************************************************************)
LEMMA InitTopology ==
  ASSUME NEW n, Init
  PROVE  TopologyInv(n)
BY InitLoadInv DEF Init, TopologyInv, Emptied

LEMMA MapTopology ==
  ASSUME NEW n, NoHoles(n), MayMiss = {}, TopologyInv(n),
         Register \/ CreateFile \/ MapCpus \/ CountPes
  PROVE  TopologyInv(n)'
<1>1. LoadInv' /\ online \subseteq CPUs
  BY BeginInv DEF TopologyInv, LoadInv, TypeOK
<1>2. files = {} /\ files' = {} /\ Emptied' = {}
  BY DEF TopologyInv, LoadInv, FilesFollow, HasFiles, Emptied, objects,
     Register, CreateFile, MapCpus, CountPes
<1>3. CASE Register \/ CreateFile
  <2>1. online' = CPUs /\ at' \in {"absent", "file", "map"}
    BY <1>1, <1>3 DEF Register, CreateFile, TopologyInv, machine
  <2> QED
    BY <1>1, <1>2, <2>1 DEF TopologyInv
<1>4. CASE MapCpus
  <2>1. at = "map" /\ online = CPUs /\ online' = CPUs /\ at' = "count" /\ pe_map' = FilledMap
    BY <1>4 DEF MapCpus, TopologyInv, machine
  <2>2. \A g \in CMGs, i \in PPEs : IsMapped(g, i)'
    BY <2>1, FilledMapFacts DEF IsMapped
  <2> QED
    BY <1>1, <1>2, <2>1, <2>2 DEF TopologyInv
<1>5. CASE CountPes
  <2>1. /\ at = "count" /\ online' = online /\ at' = "init" /\ pe_map' = pe_map
        /\ num_pes' = [g \in CMGs |-> CountedPes(g)]
    BY <1>5 DEF CountPes, machine
  <2>2. /\ \A g \in CMGs, i \in PPEs : IsMapped(g, i)
        /\ online = CPUs
    BY <2>1 DEF TopologyInv
  <2>3. \A g \in CMGs : CountedPes(g) = n[g]
    BY <2>2, CountRight
  <2>4. num_pes' = n
    BY <2>1, <2>3 DEF NoHoles
  <2> QED
    BY <1>1, <1>2, <2>1, <2>2, <2>4 DEF TopologyInv, IsMapped
<1> QED
  BY <1>3, <1>4, <1>5

LEMMA InitialiseTopology ==
  ASSUME NEW n, NoHoles(n), TopologyInv(n), TestKobjectFails \/ InitialiseCmg \/ InitialiseCmgFails
  PROVE  TopologyInv(n)'
<1>1. LoadInv' /\ LoadInv
  BY InitialiseInv DEF TopologyInv
<1>2. at = "init" /\ cmg \in CMGs /\ at' \in {"init", "enable", "remove", "oops"}
  BY <1>1, CmgFacts DEF LoadInv, TypeOK, Progress, TestKobjectFails, InitialiseCmg,
     InitialiseCmgFails, InitialisesCmg
<1>3. /\ UNCHANGED <<online, pe_map, num_pes>>
      /\ cmgmask' = [cmgmask EXCEPT ![cmg] = {pe_map[cmg][i] : i \in Visited(cmg)} \ {NoCpu}]
      /\ files' \subseteq files \cup {cmg}
  BY DEF TestKobjectFails, InitialiseCmg, InitialiseCmgFails, InitialisesCmg, topology, machine
<1>4. /\ online = CPUs /\ num_pes = n
      /\ \A g \in CMGs, i \in PPEs : IsMapped(g, i)
      /\ \A g \in files : cmgmask[g] = CpusOf(g)
  BY <1>2 DEF TopologyInv
<1>5. {pe_map[cmg][i] : i \in Visited(cmg)} \ {NoCpu} = CpusOf(cmg)
  <2>1. /\ \A c \in CpusOf(cmg) : PpeOf(c) \in Visited(cmg) /\ pe_map[cmg][PpeOf(c)] = c
        /\ \A i \in Visited(cmg) : pe_map[cmg][i] \in CpusOf(cmg)
    BY <1>2, <1>4, VisitedRight
  <2>2. NoCpu \notin CpusOf(cmg)
    BY LoadAssumption DEF CpusOf
  <2> QED
    BY <2>1, <2>2
<1>6. files \subseteq CMGs /\ cmgmask \in [CMGs -> SUBSET CPUs]
  BY <1>1 DEF LoadInv, TypeOK
<1>7. \A g \in files' : cmgmask'[g] = CpusOf(g)
  BY <1>2, <1>3, <1>4, <1>5, <1>6
<1>8. Emptied' = {}
  BY <1>2 DEF Emptied
<1> QED
  BY <1>1, <1>2, <1>3, <1>4, <1>7, <1>8 DEF TopologyInv, IsMapped

\* Nothing else touches the map.
LEMMA OtherTopology ==
  ASSUME NEW n, TopologyInv(n), LoadInv',
         \/ EnableAccess \/ DisableAccess \/ RemoveFiles \/ PutKobject \/ Unregister
         \/ UseStep \/ UNCHANGED vars
  PROVE  TopologyInv(n)'
<1>1. CASE UseStep \/ UNCHANGED vars
  <2>1. UNCHANGED <<at, cmg, pe_map, num_pes, cmgmask, files>>
    BY <1>1 DEF UseStep, OpenDevice, CloseDevice, BeginRead,
       EndRead, CpuDown, CpuUp, Quiet, vars, topology, objects
  <2>2. online' = online \/ at \in {"absent", "live", "oops"}
    BY <1>1 DEF UseStep, OpenDevice, CloseDevice, BeginRead,
       EndRead, CpuDown, CpuUp, Quiet, vars, machine
  <2> QED
    BY <2>1, <2>2 DEF TopologyInv, IsMapped, Emptied
<1>2. CASE EnableAccess \/ DisableAccess \/ RemoveFiles \/ PutKobject \/ Unregister
  <2>1. UNCHANGED <<pe_map, num_pes, cmgmask, online>>
    BY <1>2 DEF EnableAccess, DisableAccess, RemoveFiles, PutKobject, Unregister,
       topology, objects, machine
  <2>2. /\ at \in {"enable", "live", "remove", "put"}
        /\ at' \in {"live", "remove", "put", "absent"}
    BY <1>2 DEF EnableAccess, DisableAccess, RemoveFiles, PutKobject, Unregister
  <2>3. files' \cup Emptied' \subseteq files \cup Emptied
    <3>1. CASE EnableAccess \/ DisableAccess \/ PutKobject \/ Unregister
      BY <3>1 DEF Emptied, EnableAccess, DisableAccess, PutKobject, Unregister, objects
    <3>2. CASE RemoveFiles
      <4>1. at = "remove" /\ cmg < last /\ files' = files \ {cmg} /\ Emptied' = {cmg}
        BY <3>2 DEF RemoveFiles, Emptied
      <4>2. cmg \in CMGs
        BY <4>1, CmgFacts DEF TopologyInv, LoadInv, TypeOK
      <4>3. cmg \in files
        BY <4>1, <4>2, CmgFacts DEF TopologyInv, LoadInv, FilesFollow, HasFiles
      <4> QED
        BY <4>1, <4>3
    <3> QED
      BY <1>2, <3>1, <3>2
  <2> QED
    BY <2>1, <2>2, <2>3 DEF TopologyInv, IsMapped
<1> QED
  BY <1>1, <1>2

LEMMA NextTopology ==
  ASSUME NEW n, NoHoles(n), MayMiss = {}, TopologyInv(n), [Next]_vars
  PROVE  TopologyInv(n)'
<1>1. LoadInv'
  BY NextLoadInv DEF TopologyInv
<1> QED
  BY <1>1, MapTopology, InitialiseTopology, OtherTopology DEF Next, LoadStep, UseStep

LEMMA TopologyInvariant ==
  ASSUME NEW CONSTANT n, NoHoles(n), MayMiss = {}
  PROVE  Spec => []TopologyInv(n)
<1>1. Init => TopologyInv(n)
  BY InitTopology
<1>2. TopologyInv(n) /\ [Next]_vars => TopologyInv(n)'
  BY NextTopology
<1> QED
  BY <1>1, <1>2, PTL DEF Spec

-----------------------------------------------------------------------------
(***************************************************************************)
(* What follows for the driver's users                                     *)
(***************************************************************************)
\* The CMGs check_cpumask() finds the CPUs of a mask in.
LEMMA FoundRight ==
  ASSUME NEW n, NoHoles(n), TopologyInv(n), at = "live", NEW mask \in SUBSET CPUs
  PROVE  {g \in CMGs : /\ g < num_cmgs
                       /\ \E i \in Visited(g) : pe_map[g][i] \in mask}
           = {CmgOf(c) : c \in mask}
<1> DEFINE found == {g \in CMGs : /\ g < num_cmgs
                                  /\ \E i \in Visited(g) : pe_map[g][i] \in mask}
<1>1. \A g \in CMGs : /\ g < num_cmgs
                      /\ \A i \in PPEs : IsMapped(g, i)
                      /\ num_pes[g] = n[g]
  BY CmgFacts DEF TopologyInv, LoadInv, Progress
<1>2. ASSUME NEW g \in found PROVE g \in {CmgOf(c) : c \in mask}
  <2>1. PICK i \in Visited(g) : pe_map[g][i] \in mask
    OBVIOUS
  <2>2. pe_map[g][i] \in CpusOf(g)
    BY <1>1, VisitedRight
  <2> QED
    BY <2>1, <2>2 DEF CpusOf
<1>3. ASSUME NEW c \in mask PROVE CmgOf(c) \in found
  <2>1. CmgOf(c) \in CMGs /\ c \in CpusOf(CmgOf(c))
    BY PeFacts DEF CpusOf
  <2>2. PpeOf(c) \in Visited(CmgOf(c)) /\ pe_map[CmgOf(c)][PpeOf(c)] = c
    BY <1>1, <2>1, VisitedRight
  <2> QED
    BY <1>1, <2>1, <2>2
<1> QED
  BY <1>2, <1>3

\* The CMG of a set of CMGs is that of all its elements, if there is one.
LEMMA CommonCmgRight ==
  ASSUME NEW found \in SUBSET CMGs, NEW g \in CMGs
  PROVE  CommonCmg(found) = g <=> found = {g}
<1>1. IsFiniteSet(found)
  <2>1. IsFiniteSet(CMGs)
    BY LoadAssumption, FS_Interval DEF CMGs
  <2> QED
    BY <2>1, FS_Subset
<1>2. Cardinality(found) = 1 <=> \E h : found = {h}
  BY <1>1, FS_Singleton
<1>3. g # Refused
  BY CmgFacts DEF Refused
<1> QED
  BY <1>2, <1>3 DEF CommonCmg

\* On every such topology check_cpumask() accepts exactly the masks its comment
\* names, whichever CPUs are online when it is called.
THEOREM MasksChecked ==
  ASSUME NEW CONSTANT n, NoHoles(n), MayMiss = {}
  PROVE  Spec => []CheckCpumaskExact
<1>1. ASSUME TopologyInv(n), at = "live", NEW mask \in SUBSET CPUs, NEW g \in CMGs
      PROVE  check_cpumask(mask) = g <=> IsLegal(mask, g)
  <2> DEFINE found == {h \in CMGs : /\ h < num_cmgs
                                    /\ \E i \in Visited(h) : pe_map[h][i] \in mask}
  <2>1. found = {CmgOf(c) : c \in mask}
    BY <1>1, FoundRight
  <2>2. CommonCmg(found) = g <=> found = {g}
    BY CommonCmgRight
  <2>3. g # Refused
    BY CmgFacts DEF Refused
  <2>4. Cardinality(mask) >= 2 => mask # {}
    BY FS_EmptySet
  <2>5. /\ IsFiniteSet(mask)
        /\ Cardinality(mask) \in Nat
    BY LoadAssumption, FS_Subset, FS_CardinalityType
  <2>6. check_cpumask(mask) = IF Cardinality(mask) < 2 \/ ~ mask \subseteq online
                              THEN Refused ELSE CommonCmg(found)
    BY DEF check_cpumask
  <2> HIDE DEF found
  <2>7. mask # {} => (found = {g} <=> \A c \in mask : CmgOf(c) = g)
    BY <2>1
  <2> QED
    BY <2>2, <2>3, <2>4, <2>5, <2>6, <2>7 DEF IsLegal
<1>2. TopologyInv(n) => CheckCpumaskExact
  BY <1>1 DEF CheckCpumaskExact
<1> QED
  BY <1>2, TopologyInvariant, PTL

\* get_pemap() does not return NULL on any CPU a handler can run on.
THEOREM PesFound ==
  ASSUME NEW CONSTANT n, NoHoles(n), MayMiss = {}
  PROVE  Spec => []EveryPeFound
<1>1. ASSUME TopologyInv(n), at = "live", NEW c \in online
      PROVE  get_pemap(CmgOf(c), PpeOf(c)) = {c}
  <2>1. c \in CPUs /\ CmgOf(c) \in CMGs /\ c \in CpusOf(CmgOf(c)) /\ c # NoCpu
    BY <1>1, PeFacts, LoadAssumption DEF TopologyInv, LoadInv, TypeOK, CpusOf
  <2>2. PpeOf(c) \in Visited(CmgOf(c)) /\ pe_map[CmgOf(c)][PpeOf(c)] = c
    BY <1>1, <2>1, VisitedRight DEF TopologyInv
  <2> QED
    BY <2>1, <2>2 DEF get_pemap
<1>2. TopologyInv(n) => EveryPeFound
  BY <1>1 DEF EveryPeFound
<1> QED
  BY <1>2, TopologyInvariant, PTL

\* BST_MASK is written with the PEs of exactly the CPUs of a mask that was accepted.
THEOREM MasksTranslated ==
  ASSUME NEW CONSTANT n, NoHoles(n), MayMiss = {}
  PROVE  Spec => []PpemaskExact
<1>1. ASSUME TopologyInv(n), at = "live", CheckCpumaskExact,
             NEW mask \in SUBSET CPUs, NEW g \in CMGs, check_cpumask(mask) = g
      PROVE  cpumask_to_ppemask(g, mask) = {PpeOf(c) : c \in mask}
  <2>1. mask \subseteq CpusOf(g)
    BY <1>1 DEF CheckCpumaskExact, IsLegal, CpusOf
  <2>2. /\ \A c \in CpusOf(g) : PpeOf(c) \in Visited(g) /\ pe_map[g][PpeOf(c)] = c
        /\ \A i \in Visited(g) : pe_map[g][i] \in CpusOf(g)
    BY <1>1, VisitedRight DEF TopologyInv
  <2>3. \A i \in Visited(g) : PpeOf(pe_map[g][i]) = i
    <3>1. \A i \in Visited(g) : i \in PPEs /\ IsMapped(g, i)
      BY <1>1 DEF TopologyInv, Visited
    <3> QED
      BY <2>2, <3>1, LoadAssumption DEF IsMapped, PpeOf, CpusOf
  <2> QED
    BY <2>1, <2>2, <2>3 DEF cpumask_to_ppemask
<1>2. TopologyInv(n) /\ CheckCpumaskExact => PpemaskExact
  BY <1>1 DEF PpemaskExact
<1>3. Spec => []CheckCpumaskExact
  BY MasksChecked
<1> QED
  BY <1>2, <1>3, TopologyInvariant, PTL

\* Whoever reads a sysfs file of a CMG, during insmod, rmmod or in between, finds
\* the map and the cmgmask of the CMG complete.
THEOREM ReadersServed ==
  ASSUME NEW CONSTANT n, NoHoles(n), MayMiss = {}
  PROVE  Spec => []ReadersFindTopology
<1>1. ASSUME TopologyInv(n), NEW g \in readers
      PROVE  /\ core_map_show(g) = {<<c, PpeOf(c)>> : c \in CpusOf(g)}
             /\ cmgmask[g] = CpusOf(g)
  <2>1. /\ g \in files \cup Emptied /\ g \in CMGs
        /\ at \in {"init", "enable", "live", "remove", "put"}
    BY <1>1 DEF TopologyInv, LoadInv, TypeOK, FilesFollow, HasFiles, Emptied
  <2>2. /\ cmgmask[g] = CpusOf(g)
        /\ \A i \in PPEs : IsMapped(g, i)
        /\ num_pes[g] = n[g]
    BY <1>1, <2>1 DEF TopologyInv
  <2>3. /\ \A c \in CpusOf(g) : PpeOf(c) \in Visited(g) /\ pe_map[g][PpeOf(c)] = c
        /\ \A i \in Visited(g) : pe_map[g][i] \in CpusOf(g)
    BY <2>1, <2>2, VisitedRight
  <2>4. \A i \in Visited(g) : PpeOf(pe_map[g][i]) = i
    <3>1. \A i \in Visited(g) : i \in PPEs /\ IsMapped(g, i)
      BY <2>2 DEF Visited
    <3> QED
      BY <2>3, <3>1, LoadAssumption DEF IsMapped, PpeOf, CpusOf
  <2>5. core_map_show(g) = {<<c, PpeOf(c)>> : c \in CpusOf(g)}
    BY <2>3, <2>4 DEF core_map_show
  <2> QED
    BY <2>2, <2>5
<1>2. TopologyInv(n) => ReadersFindTopology
  BY <1>1 DEF ReadersFindTopology, CpusOf
<1> QED
  BY <1>2, TopologyInvariant, PTL

=============================================================================
