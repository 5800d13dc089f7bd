----------------------------- MODULE MCLsMemory -----------------------------
(***************************************************************************)
(* Workloads for TLC.  Mixed accesses overlap each other in every way, with *)
(* few in flight; Crossing are words and their upper bytes, loaded and     *)
(* stored in any order, with two flushes; Dense are loads and stores of    *)
(* one byte, of which as many are in flight as slots and queue can hold,   *)
(* and more.                                                               *)
(***************************************************************************)
EXTENDS LsMemory

Request(op, size, addr, value) == [op |-> op, size |-> size, addr |-> addr, value |-> value]

Mixed ==
  {Request("LOAD", "WORD", 0, 0), Request("LOAD", "BYTE", 1, 0),
   Request("STORE", "BYTE", 1, 1), Request("STORE", "WORD", 0, 1)}
Crossing == {Request("LOAD", "WORD", 0, 0), Request("STORE", "BYTE", 1, 1)}
Dense == {Request("LOAD", "BYTE", 0, 0), Request("STORE", "BYTE", 1, 0)}

MCRequests == Mixed \cup Dense
MCWorkloads ==
  {[requests |-> Mixed, pushes |-> 4, flushes |-> 1],
   [requests |-> Crossing, pushes |-> 5, flushes |-> 2],
   [requests |-> Dense, pushes |-> 6, flushes |-> 1]}

=============================================================================
