------------------------------ MODULE OpenFiles ------------------------------
(***************************************************************************)
(* What the file descriptors of a process promise: a table per process     *)
(* from descriptors to open files.  An open file is created by one Open,   *)
(* inherited by fork and exec, and exists as long as a table refers to it. *)
(***************************************************************************)
EXTENDS Naturals

CONSTANTS Processes, Descriptors, Files, Closed, Offsets

VARIABLES
  table,    \* per process: descriptor -> open file or Closed
  offset    \* per open file

vars == <<table, offset>>

Referenced(f) == \E p \in Processes, d \in Descriptors : table[p][d] = f

Init ==
  /\ table = [p \in Processes |-> [d \in Descriptors |-> Closed]]
  /\ offset = [f \in Files |-> 0]

(* A new open file, at offset zero, that nobody else refers to.            *)
Open(p, d, f) ==
  /\ table[p][d] = Closed
  /\ ~Referenced(f)
  /\ table' = [table EXCEPT ![p][d] = f]
  /\ offset' = [offset EXCEPT ![f] = 0]

(* Read, Write and Seek move the offset of the one file they work on.      *)
Move(p, d) ==
  /\ table[p][d] # Closed
  /\ \E n \in Offsets : offset' = [offset EXCEPT ![table[p][d]] = n]
  /\ UNCHANGED table

(* After the last Close an open file no longer exists.                     *)
Close(p, d) ==
  /\ table[p][d] # Closed
  /\ table' = [table EXCEPT ![p][d] = Closed]
  /\ offset' = [f \in Files |->
       IF \E q \in Processes, e \in Descriptors : <<q, e>> # <<p, d>> /\ table[q][e] = f
       THEN offset[f] ELSE 0]

(* Fork and exec: a new table shares the open files of p, all of them or   *)
(* those that are not closed on exec.                                      *)
Inherit(p, q) ==
  /\ table[q] = [d \in Descriptors |-> Closed]
  /\ UNCHANGED offset
  /\ \E kept \in SUBSET Descriptors :
       table' = [table EXCEPT ![q] = [d \in Descriptors |->
                   IF d \in kept THEN table[p][d] ELSE Closed]]

Next ==
  \E p \in Processes :
    \/ \E d \in Descriptors :
         Move(p, d) \/ Close(p, d) \/ \E f \in Files : Open(p, d, f)
    \/ \E q \in Processes : Inherit(p, q)

Spec == Init /\ [][Next]_vars
=============================================================================
