------------------------------ MODULE HwbLoad -------------------------------
(***************************************************************************)
(* The driver coming and going: insmod, rmmod, their error paths, the map  *)
(* of the CPUs that insmod draws up once, the CMG objects and sysfs files, *)
(* and those who use all this meanwhile: readers of the files, processes   *)
(* with the device open, CPUs that are taken down and brought up.          *)
(*                                                                         *)
(* Every variable of the module lives in its static data, which is fresh   *)
(* at every insmod, except the state of the CPUs and the readers.  CPUs    *)
(* come and go between the two commands, not during them.  The device is   *)
(* opened only once insmod is done, although it is registered first.  When *)
(* the kobject initialize_cmg() looks for the kobject type in cannot be    *)
(* made, insmod dies on a NULL pointer and the module stays half loaded.   *)
(*                                                                         *)
(* pe_map is indexed by the PE number within the CMG (ppe_id), and so may  *)
(* have holes; the loops over it stop at num_pes, the number of entries.   *)
(* init_cmgmask() sets the bit -1 for a hole it meets, which is outside of *)
(* the mask: the model continues as if it were lost (the kernel may also   *)
(* crash, and nothing is left to check).                                   *)
(***************************************************************************)
EXTENDS Integers, FiniteSets

CONSTANTS
  CPUs,            \* CPUs
  NoCpu,           \* cpu_id -1
  MAX_NUM_CMG,     \* CMGs (4 on the A64FX)
  MAX_PE_PER_CMG,  \* PEs per CMG (13 on the A64FX)
  peinfo,          \* hardware: the register PE_INFO of every CPU
  MayMiss,         \* CPUs that may be offline at insmod
  LoadMayFail,     \* whether the steps of insmod may fail
  MaxUsers         \* bound: open file descriptions

CMGs == 0 .. MAX_NUM_CMG - 1
PPEs == 0 .. MAX_PE_PER_CMG - 1

ASSUME LoadAssumption ==
  /\ IsFiniteSet(CPUs)
  /\ NoCpu \notin CPUs
  /\ MAX_NUM_CMG \in Nat \ {0}
  /\ MAX_PE_PER_CMG \in Nat \ {0}
  /\ peinfo \in [CPUs -> CMGs \X PPEs]
  /\ \A c, d \in CPUs : peinfo[c] = peinfo[d] => c = d
  /\ MayMiss \subseteq CPUs
  /\ LoadMayFail \in BOOLEAN
  /\ MaxUsers \in Nat

VARIABLES
  at,          \* what insmod or rmmod does next; "oops" once insmod has died
  cmg,         \* the CMG it does it for
  last,        \* how many CMGs destroy_cmg() is called for
  registered,  \* /dev/fujitsu_hwb exists
  hwinfo,      \* the sysfs file of the device exists
  pe_map,      \* cmgs[].pe_map[].cpu_id
  num_cmgs,    \* dev->num_cmgs
  num_pes,     \* cmgs[].num_pes
  cmgmask,     \* cmgs[].cmgmask
  refs,        \* the reference count of every CMG's kobject, 0 before kobject_init()
  files,       \* the CMGs whose sysfs files exist
  users,       \* open file descriptions
  online,      \* cpu_online_mask
  hwb_ctrl,    \* hardware: the CPUs with user access to the barrier
  readers      \* the CMGs one of whose files is being read

topology == <<pe_map, num_cmgs, num_pes>>
objects  == <<cmgmask, refs, files>>
device   == <<registered, hwinfo>>
machine  == <<online, hwb_ctrl, readers>>
vars     == <<at, cmg, last, device, topology, objects, users, machine>>

-----------------------------------------------------------------------------
(***************************************************************************)
(* The map of the CPUs                                                     *)
(***************************************************************************)
\* read_peinfo(), also the answer of FUJITSU_HWB_IOC_GET_PE_INFO.
CmgOf(c) == peinfo[c][1]
PpeOf(c) == peinfo[c][2]

NoMap == [g \in CMGs |-> [i \in PPEs |-> NoCpu]]

\* fill_pe_map() on every online CPU.
FilledMap ==
  [g \in CMGs |-> [i \in PPEs |->
     IF \E c \in online : peinfo[c] = <<g, i>>
     THEN CHOOSE c \in online : peinfo[c] = <<g, i>> ELSE NoCpu]]

\* Slip: the count is that of the last index.
SlipLastIndex(g) == Cardinality({i \in PPEs : pe_map[g][i] # NoCpu}) - 1

\* get_max_pe_per_cmg(): the PEs of a CMG.
CountedPes(g) == Cardinality({i \in PPEs : pe_map[g][i] # NoCpu})

\* What a loop over the PEs of a CMG meets.
Visited(g) == {i \in PPEs : i < num_pes[g]}

\* get_pemap(): the CPUs it finds for a PE, none if it returns NULL.
get_pemap(g, ppe) == {pe_map[g][i] : i \in Visited(g) \cap {ppe}} \ {NoCpu}

\* Slip: the CPUs of the mask are not compared with each other.
SlipFirstCmg(found) == CHOOSE g \in found : \A h \in found : g <= h

Refused == -1

\* The CMG common to those the CPUs of a mask were found in.
CommonCmg(found) ==
  IF Cardinality(found) = 1 THEN CHOOSE g \in found : TRUE ELSE Refused

check_cpumask(mask) ==
  IF Cardinality(mask) < 2 \/ ~ mask \subseteq online THEN Refused
  ELSE CommonCmg({g \in CMGs : /\ g < num_cmgs
                               /\ \E i \in Visited(g) : pe_map[g][i] \in mask})

\* Slip: the bits are numbered within the mask.
SlipNumberedInMask(g, mask) == 0 .. Cardinality({i \in Visited(g) : pe_map[g][i] \in mask}) - 1

\* cpumask_to_ppemask(): the PEs that are written to BST_MASK for the CPUs of a mask.
cpumask_to_ppemask(g, mask) == {i \in Visited(g) : pe_map[g][i] \in mask}

\* core_map_show(): the <<CPU, PE>> lines of the file of a CMG.
core_map_show(g) == {<<pe_map[g][i], i>> : i \in Visited(g)}

-----------------------------------------------------------------------------
(***************************************************************************)
(* insmod                                                                  *)
(***************************************************************************)
\* misc_register(); where it fails there is nothing to undo.
Register ==
  /\ at = "absent"
  /\ CPUs \ MayMiss \subseteq online
  /\ at' = "file"
  /\ registered' = TRUE
  /\ hwinfo'     = FALSE
  /\ pe_map'     = NoMap
  /\ num_cmgs'   = 0
  /\ num_pes'    = [g \in CMGs |-> 0]
  /\ cmgmask'    = [g \in CMGs |-> {}]
  /\ refs'       = [g \in CMGs |-> 0]
  /\ files'      = {}
  /\ UNCHANGED <<cmg, last, users, machine>>

\* device_create_file(.., hwinfo), or misc_deregister().
CreateFile ==
  /\ at = "file"
  /\ \/ /\ at' = "map"
        /\ hwinfo' = TRUE
        /\ UNCHANGED registered
     \/ /\ LoadMayFail
        /\ at' = "absent"
        /\ registered' = FALSE
        /\ UNCHANGED hwinfo
  /\ UNCHANGED <<cmg, last, topology, objects, users, machine>>

MapCpus ==
  /\ at = "map"
  /\ at' = "count"
  /\ pe_map' = FilledMap
  /\ UNCHANGED <<cmg, last, device, num_cmgs, num_pes, objects, users, machine>>

CountPes ==
  /\ at = "count"
  /\ at' = "init"
  /\ cmg' = 0
  /\ num_cmgs' = MAX_NUM_CMG
  /\ num_pes'  = [g \in CMGs |-> CountedPes(g)]
  /\ UNCHANGED <<last, device, pe_map, objects, users, machine>>

\* The references to a kobject after kobject_init() and kobject_get().
References == 2

\* Slip: the CMG that failed is destroyed too.
SlipFailedDestroyed(g) == g + 1

\* The CMGs that are destroyed when initialize_cmg() fails for g.
ToDestroy(g) == g

\* initialize_cmg() up to the kobjects.
InitialisesCmg ==
  /\ at = "init"
  /\ cmgmask' = [cmgmask EXCEPT ![cmg] =
                   {pe_map[cmg][i] : i \in Visited(cmg)} \ {NoCpu}]
  /\ UNCHANGED <<device, topology, users, machine>>

\* The first call makes a kobject "Test" to get the type of kobjects from, and takes
\* it for granted that it gets one: kobject_create_and_add() returns NULL.
TestKobjectFails ==
  /\ InitialisesCmg
  /\ LoadMayFail
  /\ cmg = 0
  /\ at' = "oops"
  /\ UNCHANGED <<cmg, last, refs, files>>

InitialiseCmg ==
  /\ InitialisesCmg
  /\ refs'  = [refs EXCEPT ![cmg] = References]
  /\ files' = files \cup {cmg}
  /\ IF cmg + 1 = MAX_NUM_CMG
     THEN at' = "enable" /\ UNCHANGED cmg
     ELSE cmg' = cmg + 1 /\ UNCHANGED at
  /\ UNCHANGED last

\* kobject_add() or sysfs_create_group() fails: the CMGs before this one are
\* destroyed, this one keeps the references it has.
InitialiseCmgFails ==
  /\ InitialisesCmg
  /\ LoadMayFail
  /\ \E n \in {1, References} : refs' = [refs EXCEPT ![cmg] = n]
  /\ at'   = "remove"
  /\ last' = ToDestroy(cmg)
  /\ cmg'  = 0
  /\ UNCHANGED files

\* oss_a64fx_hwb_ctrl_func() on every online CPU; insmod is done.
EnableAccess ==
  /\ at = "enable"
  /\ at' = "live"
  /\ hwb_ctrl' = hwb_ctrl \cup online
  /\ UNCHANGED <<cmg, last, device, topology, objects, users, online, readers>>

-----------------------------------------------------------------------------
(***************************************************************************)
(* rmmod, and the error paths of insmod                                    *)
(***************************************************************************)
\* The kernel removes a module only while nobody has its device open.
DisableAccess ==
  /\ at = "live"
  /\ users = 0
  /\ at' = "remove"
  /\ hwb_ctrl' = hwb_ctrl \ online
  /\ cmg'  = 0
  /\ last' = num_cmgs
  /\ UNCHANGED <<device, topology, objects, users, online, readers>>

\* destroy_cmg(): sysfs_remove_group() keeps new readers out ...
RemoveFiles ==
  /\ at = "remove"
  /\ cmg < last
  /\ at' = "put"
  /\ files' = files \ {cmg}
  /\ UNCHANGED <<cmg, last, device, topology, cmgmask, refs, users, machine>>

\* Slips: the readers are not waited for; those of all CMGs are.
SlipNoDrain(g)  == TRUE
SlipDrainAll(g) == readers = {}

\* ... and waits for those there are ...
Drained(g) == g \notin readers

\* ... before kobject_put().
PutKobject ==
  /\ at = "put"
  /\ Drained(cmg)
  /\ at'   = "remove"
  /\ cmg'  = cmg + 1
  /\ refs' = [refs EXCEPT ![cmg] = @ - 1]
  /\ UNCHANGED <<last, device, topology, cmgmask, files, users, machine>>

\* device_remove_file(), misc_deregister(); the module's memory is given back.
Unregister ==
  /\ at = "remove"
  /\ cmg >= last
  /\ at' = "absent"
  /\ hwinfo'     = FALSE
  /\ registered' = FALSE
  /\ UNCHANGED <<cmg, last, topology, objects, users, machine>>

-----------------------------------------------------------------------------
(***************************************************************************)
(* Those who use the module meanwhile                                      *)
(***************************************************************************)
OpenDevice ==
  /\ at = "live"
  /\ users < MaxUsers
  /\ users' = users + 1
  /\ UNCHANGED <<at, cmg, last, device, topology, objects, machine>>

CloseDevice ==
  /\ users > 0
  /\ users' = users - 1
  /\ UNCHANGED <<at, cmg, last, device, topology, objects, machine>>

\* sysfs calls a show function of the files of CMG g, and it returns.
BeginRead(g) ==
  /\ g \in files \ readers
  /\ readers' = readers \cup {g}
  /\ UNCHANGED <<at, cmg, last, device, topology, objects, users, online, hwb_ctrl>>

EndRead(g) ==
  /\ g \in readers
  /\ readers' = readers \ {g}
  /\ UNCHANGED <<at, cmg, last, device, topology, objects, users, online, hwb_ctrl>>

\* Neither insmod nor rmmod is under way.
Quiet == at \in {"absent", "live", "oops"}

\* CPU hotplug; a CPU that is taken down loses its registers.
CpuDown(c) ==
  /\ Quiet
  /\ c \in online
  /\ online # {c}
  /\ online'   = online \ {c}
  /\ hwb_ctrl' = hwb_ctrl \ {c}
  /\ UNCHANGED <<at, cmg, last, device, topology, objects, users, readers>>

CpuUp(c) ==
  /\ Quiet
  /\ c \notin online
  /\ online' = online \cup {c}
  /\ UNCHANGED <<at, cmg, last, device, topology, objects, users, hwb_ctrl, readers>>

-----------------------------------------------------------------------------
Init ==
  /\ at         = "absent"
  /\ cmg        = 0
  /\ last       = 0
  /\ registered = FALSE
  /\ hwinfo     = FALSE
  /\ pe_map     = NoMap
  /\ num_cmgs   = 0
  /\ num_pes    = [g \in CMGs |-> 0]
  /\ cmgmask    = [g \in CMGs |-> {}]
  /\ refs       = [g \in CMGs |-> 0]
  /\ files      = {}
  /\ users      = 0
  /\ online     = CPUs
  /\ hwb_ctrl   = {}
  /\ readers    = {}

\* insmod and rmmod go on by themselves from here.
LoadStep ==
  \/ CreateFile
  \/ MapCpus
  \/ CountPes
  \/ TestKobjectFails
  \/ InitialiseCmg
  \/ InitialiseCmgFails
  \/ EnableAccess
  \/ RemoveFiles
  \/ PutKobject
  \/ Unregister

Next ==
  \/ Register
  \/ LoadStep
  \/ DisableAccess
  \/ OpenDevice
  \/ CloseDevice
  \/ \E g \in CMGs : BeginRead(g) \/ EndRead(g)
  \/ \E c \in CPUs : CpuDown(c) \/ CpuUp(c)

Spec == Init /\ [][Next]_vars

(***************************************************************************)
(* insmod and rmmod execute, and a show function returns.                  *)
(***************************************************************************)
FairSpec == Spec /\ WF_vars(LoadStep) /\ \A g \in CMGs : WF_vars(EndRead(g))

-----------------------------------------------------------------------------
(***************************************************************************)
(* Properties                                                              *)
(***************************************************************************)
TypeOK ==
  /\ at \in {"absent", "file", "map", "count", "init", "enable", "live", "remove", "put",
           "oops"}
  /\ cmg \in 0 .. MAX_NUM_CMG
  /\ last \in 0 .. MAX_NUM_CMG
  /\ registered \in BOOLEAN
  /\ hwinfo \in BOOLEAN
  /\ pe_map \in [CMGs -> [PPEs -> CPUs \cup {NoCpu}]]
  /\ num_cmgs \in 0 .. MAX_NUM_CMG
  /\ num_pes \in [CMGs -> 0 .. MAX_PE_PER_CMG]
  /\ cmgmask \in [CMGs -> SUBSET CPUs]
  /\ refs \in [CMGs -> 0 .. References]
  /\ files \subseteq CMGs
  /\ users \in 0 .. MaxUsers
  /\ online \subseteq CPUs
  /\ hwb_ctrl \subseteq CPUs
  /\ readers \subseteq CMGs

\* ioctl.c:20-21, on check_cpumask(): "check a given cpumask whether it contains
\* only CPUs of a single CMG, the mask contains at least two CPUs and all CPUs
\* are online".  It accepts exactly those masks, and returns their CMG.
IsLegal(mask, g) ==
  /\ Cardinality(mask) >= 2
  /\ mask \subseteq online
  /\ \A c \in mask : CmgOf(c) = g

CheckCpumaskExact ==
  at = "live" =>
    \A mask \in SUBSET CPUs, g \in CMGs : check_cpumask(mask) = g <=> IsLegal(mask, g)

\* get_pemap() finds the PE of every CPU an ioctl may run on (its callers do not
\* look whether it does), although CPUs were taken down and brought up since.
EveryPeFound ==
  at = "live" => \A c \in online : get_pemap(CmgOf(c), PpeOf(c)) = {c}

\* The PEs written to BST_MASK for a mask that check_cpumask() accepts are those of
\* its CPUs, all of them and no others: a barrier waits for exactly the CPUs that
\* were asked for, also when some of them have been down since insmod.
PpemaskExact ==
  at = "live" =>
    \A mask \in SUBSET CPUs, g \in CMGs :
      check_cpumask(mask) = g => cpumask_to_ppemask(g, mask) = {PpeOf(c) : c \in mask}

\* On every path out of insmod, wherever it failed, and out of rmmod, whoever was
\* reading, nothing is left that leads into the module's memory, and no CPU keeps
\* its user access.
NothingLeftBehind ==
  at = "absent" =>
    /\ ~ registered /\ ~ hwinfo
    /\ files = {} /\ readers = {}
    /\ hwb_ctrl = {}

\* The count of a kobject never drops to 0, which would kfree() static data of the
\* module (its ktype is that of a kobject made by kobject_create()).
KobjectNeverReleased ==
  [][at # "absent" => \A g \in CMGs : refs[g] > 0 => refs'[g] > 0]_vars

\* Who reads core_map of a CMG, during insmod, rmmod or in between, is shown the
\* CPUs of the CMG and their PEs, and the files that ask the hardware (init_sync_bb*)
\* send their question to these CPUs.
ReadersFindTopology ==
  \A g \in readers :
    /\ core_map_show(g) = {<<c, PpeOf(c)>> : c \in {d \in CPUs : CmgOf(d) = g}}
    /\ cmgmask[g] = {c \in CPUs : CmgOf(c) = g}

\* insmod and rmmod come to an end, rmmod also while files are being read.
CommandsEnd == ~ Quiet ~> Quiet

=============================================================================
