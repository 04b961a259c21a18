-------------------------------- MODULE Cbpf --------------------------------
(***************************************************************************)
(* One instruction of the classic BPF interpreter (ebpf/ebpf_inter.c): the *)
(* registers it leaves, how far it jumps, and whether the filter stops.    *)
(*                                                                         *)
(* An instruction has an op, an operand (src "K", "X" or "A"), a width in  *)
(* bytes for loads, a constant k and two jump distances.  A packet is the  *)
(* sequence of its bytes from the UDP header on.                           *)
(***************************************************************************)
EXTENDS Integers, Sequences, FiniteSetsExt

CONSTANTS
  WordBits,            \* 32: the width of a register
  BPF_MEMWORDS,        \* 16: words of scratch memory
  MAX_INSTR            \* 64: instructions of a filter

WordMod == 2 ^ WordBits
UdpHdr == 8
\* The constant of the ancillary load of the protocol, -0x1000, and its values,
\* those of IPv4 and IPv6.
SKF_AD_PROTOCOL == WordMod - 4096
EthProtocols == {2048, 34525}

ASSUME WordAssumption ==
  /\ WordBits \in 17 .. 32 /\ BPF_MEMWORDS \in Nat \ {0}
  /\ MAX_INSTR \in Nat /\ MAX_INSTR > 1 /\ MAX_INSTR <= 65536
\* Follows from the width; stated because the prover does not know powers.
ASSUME WordModAssumption == WordMod \in Nat /\ WordMod >= 131072

Words == 0 .. WordMod - 1
Instructions ==
  [op : STRING, src : {"K", "X", "A"}, w : {1, 2, 4}, k : Words,
   jt : 0 .. 255, jf : 0 .. 255]
ZeroRegs == [A |-> 0, X |-> 0, M |-> [i \in 0 .. BPF_MEMWORDS - 1 |-> 0]]

\* Registers are unsigned and wrap around.
Wrap(n) == n % WordMod

Operand(f, r) == IF f.src = "X" THEN r.X ELSE f.k
Slot(f) == f.k % BPF_MEMWORDS

\* A shift by the width or more is undefined: compiled for a 32-bit register
\* it uses the low bits of the distance, for a 64-bit one nothing is left.
ShiftDistances(b) ==
  IF b < WordBits THEN {b} ELSE {WordBits, b % WordBits}
ShiftLeft(a, n) == (a % 2 ^ (WordBits - n)) * 2 ^ n
ShiftRight(a, n) == a \div 2 ^ n

\* Words are combined bit by bit.
BitAt(a, n) == (a \div 2 ^ n) % 2
BitByBit(F(_, _), a, b) ==
  MapThenSumSet(LAMBDA n : F(BitAt(a, n), BitAt(b, n)) * 2 ^ n, 0 .. WordBits - 1)
And(a, b) == BitByBit(LAMBDA x, y : x * y, a, b)
Or(a, b) == BitByBit(LAMBDA x, y : x + y - x * y, a, b)
Xor(a, b) == BitByBit(LAMBDA x, y : (x + y) % 2, a, b)

AluOps == {"add", "sub", "mul", "div", "mod", "and", "or", "xor", "neg",
           "lsh", "rsh"}
Alu(op, a, b) ==
  CASE op = "add" -> {Wrap(a + b)}
    [] op = "sub" -> {Wrap(a - b)}
    [] op = "mul" -> {Wrap(a * b)}
    [] op = "div" -> {a \div b}
    [] op = "mod" -> {a % b}
    [] op = "and" -> {And(a, b)}
    [] op = "or" -> {Or(a, b)}
    [] op = "xor" -> {Xor(a, b)}
    [] op = "neg" -> {Wrap(-a)}
    [] op = "lsh" -> {ShiftLeft(a, n) : n \in ShiftDistances(b)}
    [] op = "rsh" -> {ShiftRight(a, n) : n \in ShiftDistances(b)}

JmpOps == {"ja", "jeq", "jgt", "jge", "jset"}
Distance(f, r) ==
  LET b == Operand(f, r)
      taken == CASE f.op = "jeq" -> r.A = b
                 [] f.op = "jgt" -> r.A > b
                 [] f.op = "jge" -> r.A >= b
                 [] f.op = "jset" -> And(r.A, b) # 0
                 [] OTHER -> FALSE
  IN  IF f.op = "ja" THEN f.k ELSE IF taken THEN f.jt ELSE f.jf

\* bpf_skb_load_bytes at the payload, in network byte order.
LoadOps == {"ld_abs", "ld_ind", "ldx_msh"}
From(f, r) ==
  Wrap(UdpHdr + (IF f.op = "ld_ind" THEN Wrap(r.X + f.k) ELSE f.k))
Loads(f, r, p) == From(f, r) + f.w <= Len(p)
Append8(v, byte) == Wrap(256 * v + byte)
Loaded(f, r, p) ==
  LET at == From(f, r)
      u16 == Append8(p[at + 1], p[at + 2])
  IN  CASE f.w = 1 -> p[at + 1]
        [] f.w = 2 -> u16
        [] f.w = 4 -> Append8(Append8(u16, p[at + 3]), p[at + 4])

Moves(f, r, p) ==
  CASE f.op = "tax" -> [r EXCEPT !.X = r.A]
    [] f.op = "txa" -> [r EXCEPT !.A = r.X]
    [] f.op = "st" -> [r EXCEPT !.M[Slot(f)] = r.A]
    [] f.op = "stx" -> [r EXCEPT !.M[Slot(f)] = r.X]
    [] f.op = "ld_imm" -> [r EXCEPT !.A = f.k]
    [] f.op = "ldx_imm" -> [r EXCEPT !.X = f.k]
    [] f.op = "ld_mem" -> [r EXCEPT !.A = r.M[Slot(f)]]
    [] f.op = "ldx_mem" -> [r EXCEPT !.X = r.M[Slot(f)]]
    [] f.op \in {"ld_len", "ldx_len"} -> [r EXCEPT !.A = Len(p) - UdpHdr]
MoveOps == {"tax", "txa", "st", "stx", "ld_imm", "ldx_imm", "ld_mem", "ldx_mem",
            "ld_len", "ldx_len"}

\* What an instruction may do.
Goes(r, off) == [regs |-> r, off |-> off, code |-> "run", val |-> 0]
Stops(r, code, val) == [regs |-> r, off |-> 0, code |-> code, val |-> val]

\* Opcodes that have no variant with X as the operand, and the load that has no
\* other width than a byte.
Unknown(f) ==
  \/ f.op \in {"neg", "ja"} /\ f.src = "X"
  \/ f.op = "ldx_msh" /\ f.w # 1

Exec(f, r, p) ==
  CASE Unknown(f) -> {Stops(r, "BADINSTR", 0)}
    [] f.op \in MoveOps -> {Goes(Moves(f, r, p), 0)}
    [] f.op \in JmpOps /\ ~Unknown(f) -> {Goes(r, Distance(f, r))}
    [] f.op \in AluOps /\ ~Unknown(f) ->
         IF f.op \in {"div", "mod"} /\ Operand(f, r) = 0
         THEN {Stops(r, "BADINSTR", 0)}
         ELSE {Goes([r EXCEPT !.A = v], 0) : v \in Alu(f.op, r.A, Operand(f, r))}
    [] f.op \in LoadOps /\ ~Unknown(f) ->
         IF f.op = "ld_abs" /\ f.w = 2 /\ f.k = SKF_AD_PROTOCOL
         THEN {Goes([r EXCEPT !.A = v], 0) : v \in EthProtocols}
         ELSE IF ~Loads(f, r, p) THEN {Stops(r, "LOAD", 0)}
         ELSE IF f.op = "ldx_msh"
         THEN {Goes([r EXCEPT !.X = 4 * (Loaded(f, r, p) % 16)], 0)}
         ELSE {Goes([r EXCEPT !.A = Loaded(f, r, p)], 0)}
    [] f.op = "ret" ->
         {Stops(r, "OK", IF f.src = "A" THEN r.A ELSE Operand(f, r))}
    [] OTHER -> {Stops(r, "BADINSTR", 0)}
=============================================================================
