---------------------------- MODULE CbpfMachine -----------------------------
(***************************************************************************)
(* What a filter computes: a machine with a program counter that executes  *)
(* one instruction after the other.  Jumps only lead forward, so that a    *)
(* filter of n instructions takes at most n steps.  The instruction set is *)
(* a parameter: Exec(f, r, p) are the outcomes of f in registers r on p.   *)
(***************************************************************************)
EXTENDS Integers, Sequences

CONSTANTS Exec(_, _, _), ZeroRegs, MAX_INSTR, Filters, Packets

VARIABLES filter, packet, pc, regs, code, val

machineVars == <<filter, packet, pc, regs, code, val>>

MachineInit ==
  /\ filter \in Filters /\ packet \in Packets
  /\ pc = 0 /\ regs = ZeroRegs /\ code = "run" /\ val = 0

Execute ==
  /\ code = "run" /\ pc < Len(filter) /\ pc < MAX_INSTR
  /\ \E o \in Exec(filter[pc + 1], regs, packet) :
       /\ regs' = o.regs /\ code' = o.code /\ val' = o.val
       /\ pc' = IF o.code = "run" THEN pc + 1 + o.off ELSE pc
  /\ UNCHANGED <<filter, packet>>

\* No instruction is left, or more of them than the table holds.
RunOff ==
  /\ code = "run" /\ (pc >= Len(filter) \/ pc >= MAX_INSTR)
  /\ code' = IF pc < Len(filter) THEN "SANITY" ELSE "INSTREXCEEDED"
  /\ UNCHANGED <<filter, packet, pc, regs, val>>

MachineNext == Execute \/ RunOff

MachineSpec == MachineInit /\ [][MachineNext]_machineVars
=============================================================================
