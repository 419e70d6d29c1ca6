--------------------------- MODULE HwbRefinement ----------------------------
(***************************************************************************)
(* HwbDriver implements HwbService.  Who holds a barrier and through which *)
(* windows it is looked at is read off the allocations; whom it waits for  *)
(* is read off the hardware (the BST_MASK of the blade).                   *)
(***************************************************************************)
EXTENDS HwbDriver

Barrier(k) == <<Cmg(k), Blade(k)>>

\* The allocations of a barrier (there is at most one: BladeOwnership).
AllocationsOf(x) == {k \in allocs : Barrier(k) = x}

holder == [x \in CMGs \X Blades |-> {tgid[Task(k)] : k \in AllocationsOf(x)}]

members == [x \in CMGs \X Blades |->
              UNION {init_sync[x[1]][x[2]] : k \in AllocationsOf(x)}]

windows == [x \in CMGs \X Blades |-> [c \in CPUs |->
              {window[k][c] : k \in {j \in AllocationsOf(x) : c \in assign_mask[j]}}]]

Service == INSTANCE HwbService WITH
  holder <- holder, members <- members, windows <- windows

\* Seen from the processes, every behaviour of the driver is one of a service
\* that gives a blade to one process at a time, for CPUs of one CMG, that sets
\* the hardware up for exactly the CPUs that have not left, and that shows a
\* blade in a window of a CPU only while the window shows no other: task
\* mappings, counts, bit maps, failed allocations and late reset interrupts do
\* not show.
ImplementsService == Service!Spec

=============================================================================
