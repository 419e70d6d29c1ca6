----------------------------- MODULE HwbService -----------------------------
(***************************************************************************)
(* What the driver promises to the processes that share the barrier        *)
(* hardware, without task mappings, bit maps, counts or registers: a blade *)
(* is free or held by one process, which has it set up for some CPUs; of   *)
(* those CPUs some look at the blade through a window of their own.        *)
(*                                                                         *)
(* The module HwbRefinement shows how HwbDriver implements it.             *)
(***************************************************************************)
CONSTANTS
  Groups,   \* processes
  CPUs,     \* CPUs
  CMGs,     \* core memory groups
  cmgOf,    \* the CMG a CPU belongs to
  Blades,   \* blades of a CMG
  Windows   \* windows of a CPU

\* A barrier is a blade of a CMG.
Barriers == CMGs \X Blades

VARIABLES
  holder,   \* the process that holds a barrier: a set, empty if there is none
  members,  \* the CPUs the barrier waits for, while it is held
  windows   \* the window of every CPU on a barrier: a set, empty if there is none

vars == <<holder, members, windows>>

Init ==
  /\ holder  = [x \in Barriers |-> {}]
  /\ members = [x \in Barriers |-> {}]
  /\ windows = [x \in Barriers |-> [c \in CPUs |-> {}]]

\* Process p gets a free barrier for CPUs of its CMG.
Acquire(p, x, mask) ==
  /\ holder[x] = {}
  /\ mask # {}
  /\ \A c \in mask : cmgOf[c] = x[1]
  /\ holder'  = [holder EXCEPT ![x] = {p}]
  /\ members' = [members EXCEPT ![x] = mask]
  /\ UNCHANGED windows

\* Process p gives barriers X of its own back, with all their windows.
Release(p, X) ==
  /\ \A x \in X : holder[x] = {p}
  /\ holder'  = [x \in Barriers |-> IF x \in X THEN {} ELSE holder[x]]
  /\ members' = [x \in Barriers |-> IF x \in X THEN {} ELSE members[x]]
  /\ windows' = [x \in Barriers |-> IF x \in X THEN [c \in CPUs |-> {}] ELSE windows[x]]

\* CPU c leaves a barrier of p that still has other members.
Leave(p, x, c) ==
  /\ holder[x] = {p}
  /\ c \in members[x]
  /\ members[x] # {c}
  /\ members' = [members EXCEPT ![x] = @ \ {c}]
  /\ windows' = [windows EXCEPT ![x][c] = {}]
  /\ UNCHANGED holder

\* Member c of a barrier of p looks at it through window w, which shows no
\* barrier yet.
Attach(p, x, c, w) ==
  /\ holder[x] = {p}
  /\ c \in members[x]
  /\ \A y \in Barriers : w \notin windows[y][c]
  /\ windows' = [windows EXCEPT ![x][c] = {w}]
  /\ UNCHANGED <<holder, members>>

Detach(p, x, c) ==
  /\ holder[x] = {p}
  /\ windows[x][c] # {}
  /\ windows' = [windows EXCEPT ![x][c] = {}]
  /\ UNCHANGED <<holder, members>>

\* Everything is taken away from everybody.
Reset ==
  /\ holder'  = [x \in Barriers |-> {}]
  /\ members' = [x \in Barriers |-> {}]
  /\ windows' = [x \in Barriers |-> [c \in CPUs |-> {}]]

Next ==
  \/ \E p \in Groups :
       \/ \E x \in Barriers, mask \in SUBSET CPUs : Acquire(p, x, mask)
       \/ \E X \in SUBSET Barriers : Release(p, X)
       \/ \E x \in Barriers, c \in CPUs : Leave(p, x, c)
       \/ \E x \in Barriers, c \in CPUs, w \in Windows : Attach(p, x, c, w)
       \/ \E x \in Barriers, c \in CPUs : Detach(p, x, c)
  \/ Reset

Spec == Init /\ [][Next]_vars

=============================================================================
