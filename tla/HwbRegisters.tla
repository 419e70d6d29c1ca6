---------------------------- MODULE HwbRegisters ----------------------------
(***************************************************************************)
(* The system registers of the A64FX hardware barrier, as the accessors of *)
(* kmod/a64fx_hwb_asm.c read and write them.  Every CMG has one INIT_SYNC  *)
(* register per barrier blade (the BST_MASK of the PEs that take part);    *)
(* every PE has one ASSIGN_SYNC register per barrier window (the blade the *)
(* window looks at and a valid bit).                                       *)
(*                                                                         *)
(* This module holds what a single register access computes; the module    *)
(* HwbDriver owns the register variables.  A bit mask is the set of its    *)
(* set bits.                                                               *)
(*                                                                         *)
(* A definition called Slip... is a deliberate error: no specification     *)
(* uses it.  It stands before the definition it could be mistaken for, and *)
(* shows that a property fails once that definition is wrong.              *)
(***************************************************************************)
EXTENDS Integers

CONSTANTS
  MAX_BB_PER_CMG,   \* barrier blades per CMG (6 on the A64FX)
  MAX_BW_PER_CMG    \* barrier windows per PE (4 on the A64FX)

ASSUME RegisterCounts ==
  /\ MAX_BB_PER_CMG \in Nat \ {0}
  /\ MAX_BW_PER_CMG \in Nat \ {0}

Blades  == 0 .. MAX_BB_PER_CMG - 1
Windows == 0 .. MAX_BW_PER_CMG - 1

(***************************************************************************)
(* The contents of an ASSIGN_SYNC register.                                *)
(***************************************************************************)
AssignSync == [valid : BOOLEAN, blade : Blades]

NotAssigned == [valid |-> FALSE, blade |-> 0]

(***************************************************************************)
(* write_init_sync_bb(blade, bst_mask): an empty mask is refused with      *)
(* -EINVAL before the register is touched, so it keeps its old mask.       *)
(***************************************************************************)
\* Slip: the new mask is added to the old one.
SlipInitSyncAdded(old, bst_mask) == old \cup bst_mask

InitSyncWritten(old, bst_mask) ==
  IF bst_mask = {} THEN old ELSE bst_mask

(***************************************************************************)
(* write_assign_sync_wr(window, valid, blade) on a PE whose windows are    *)
(* regs: a window or a blade that does not exist is refused with -EINVAL.  *)
(***************************************************************************)
\* Slip: the bound on the blade is off by one.
SlipLastBladeRefused(regs, window, valid, blade) ==
  IF window \in Windows /\ blade \in 0 .. MAX_BB_PER_CMG - 2
  THEN [regs EXCEPT ![window] = [valid |-> valid, blade |-> blade]]
  ELSE regs

AssignSyncWritten(regs, window, valid, blade) ==
  IF window \in Windows /\ blade \in Blades
  THEN [regs EXCEPT ![window] = [valid |-> valid, blade |-> blade]]
  ELSE regs

(***************************************************************************)
(* find_first_zero_bit(): bit is the lowest position of 0 .. size - 1 that *)
(* is not in the map.  It has no value when the map is full (the kernel    *)
(* returns size then, which every caller rejects).                         *)
(***************************************************************************)
\* Slip: a bit that is set already is returned.
SlipAnyBit(bit, map, size) == bit \in 0 .. size - 1

IsFirstZeroBit(bit, map, size) ==
  /\ bit \in 0 .. size - 1
  /\ bit \notin map
  /\ \A lower \in 0 .. size - 1 : lower < bit => lower \in map

(***************************************************************************)
(* Through a valid window a PE reads the LBSY of the blade and writes its  *)
(* own BST bit (read_bst_sync_wr, write_bst_sync_wr; user space executes   *)
(* the same two instructions).  Through a window that is not valid it      *)
(* reads 0 and writes nothing.                                             *)
(***************************************************************************)
LbsyRead(regs, window, lbsy) ==
  IF regs[window].valid THEN lbsy[regs[window].blade] ELSE 0

BstWritten(regs, window, bst, pe, sync) ==
  [b \in Blades |->
     IF ~ regs[window].valid \/ regs[window].blade # b THEN bst[b]
     ELSE IF sync = 1 THEN bst[b] \cup {pe} ELSE bst[b] \ {pe}]

\* The hardware changes the LBSY of a blade when the BST bits of all PEs in
\* BST_MASK are the same.
LbsyAfter(old, mask, bst) ==
  IF mask = {} THEN old
  ELSE IF mask \subseteq bst THEN 1
  ELSE IF mask \cap bst = {} THEN 0
  ELSE old

=============================================================================
