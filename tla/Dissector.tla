----------------------------- MODULE Dissector ------------------------------
(***************************************************************************)
(* dissector_cbpf: what a packet is to DISSECTOR_CBPF and to               *)
(* DISSECTOR_BESPOKE.  A group without a digest has a filter, which the    *)
(* interpreter runs; the digest 0xDEAD stands for the built-in dissector   *)
(* of QUIC packets.  Both give a value, whose meaning is the verdict that  *)
(* Dispatch takes as given.                                                *)
(*                                                                         *)
(* bpf_loop() cannot jump: the interpreter is called for every index and   *)
(* skips those below next_index.  CbpfMachine says what it implements.     *)
(* The built-in dissector runs on one CPU without interruption, one action *)
(* per packet, and its scratch page lives on to the next packet.           *)
(*                                                                         *)
(* A definition with a suffixed name is a wrong variant of the definition  *)
(* without the suffix, as in Registration.                                 *)
(***************************************************************************)
EXTENDS Cbpf, Quic, GrmCookie

CONSTANTS
  max_apps,
  Inputs,              \* filters of groups without a digest, with a packet each
  CookieFilter,        \* the filter of the README: ldh [0]; ret a
  bespoke_sni,         \* sequence of [hostname, app]
  QuicPackets,         \* packets for the built-in dissector
  MaxPackets           \* bound: packets for the built-in dissector

VARIABLES
  bespoke_digest, filter, skb,
  stage,               \* "loop" in bpf_loop(), "idle" before, "done" after
  index, next_index, regs, retcode, retval,
  page, sni,           \* the scratch page of the CPU: plaintext and name
  quic, handled        \* the last QUIC packet, and how many there were

loopVars == <<filter, skb, stage, index, next_index, regs>>
quicVars == <<page, sni, quic, handled>>
vars == <<bespoke_digest, loopVars, retcode, retval, quicVars>>

Half == WordMod \div 2
NoSkb == [bytes |-> <<>>, gen |-> 0, idx |-> 0, flip |-> 0]
NoQuic == [form |-> "none"]
OtherDigest == 1       \* any digest that no built-in dissector has

ASSUME DissectorAssumption ==
  max_apps \in Nat /\ max_apps <= Half /\ MaxPackets \in Nat
\* The filters are made of instructions, and no unconditional jump is so long
\* that next_index wraps around: such a jump would go backwards, which a filter
\* cannot, and the loop would only go on with the next instruction.
ASSUME FilterAssumption ==
  \A input \in Inputs :
    /\ input.filter \in Seq(Instructions) /\ input.skb.bytes \in Seq(0 .. 255)
    /\ \A i \in DOMAIN input.filter :
         LET f == input.filter[i]
         IN  f.op = "ja" => f.k < WordMod - Len(input.filter)

\* A client of the filter of the README sends the cookie of a slot in network
\* byte order, as it is or with one bit flipped on the way.
Flips == {1, 2, 4, 8, 16, 32, 64, 128, 256, 512, 1024, 2048, 4096, 8192, 16384,
          32768}
FlipBit(n, w) == IF Bit(n, w) = 0 THEN n + w ELSE n - w
Sent(s) ==
  LET c == grm_cookie_pack(s.gen, s.idx)
  IN  IF s.flip = 0 THEN c ELSE FlipBit(c, s.flip)
ASSUME CookieAssumption ==
  /\ Len(CookieFilter) = 2
  /\ CookieFilter[1].op = "ld_abs" /\ CookieFilter[1].src = "K"
  /\ CookieFilter[1].w = 2 /\ CookieFilter[1].k = 0
  /\ CookieFilter[2].op = "ret" /\ CookieFilter[2].src = "A"
  /\ \A input \in Inputs : input.filter = CookieFilter =>
       /\ input.skb.gen \in 0 .. 31 /\ input.skb.idx \in 0 .. 255
       /\ input.skb.flip \in Flips \cup {0}
       /\ Len(input.skb.bytes) >= UdpHdr + 2
       /\ input.skb.bytes[UdpHdr + 1] = Sent(input.skb) \div 256
       /\ input.skb.bytes[UdpHdr + 2] = Sent(input.skb) % 256

\* Fields are bytes, or integers of variable width.
ASSUME PacketAssumption ==
  \A p \in QuicPackets :
    /\ p.form \in {"initial", "long", "short"}
    /\ p.len \in Nat /\ p.linear \in 0 .. p.len /\ p.version \in Nat
    /\ p.dcid_len \in 0 .. 255 /\ p.scid_len \in 0 .. 255 /\ p.token_len \in Nat
    /\ p.token_width \in {1, 2, 4, 8} /\ p.length_width \in {1, 2, 4, 8}
    /\ p.load \in {"OK", "SANITY", "LOAD"}
    /\ p.body \in Seq(Cells)

Init ==
  /\ \/ /\ bespoke_digest = 0
        /\ \E input \in Inputs : filter = input.filter /\ skb = input.skb
        /\ stage = "loop"
     \/ /\ bespoke_digest \in {57005, OtherDigest}
        /\ filter = <<>> /\ skb = NoSkb /\ stage = "idle"
  /\ index = 0 /\ next_index = 0 /\ regs = ZeroRegs
  /\ retcode = "INSTREXCEEDED" /\ retval = 0
  /\ page = [i \in 1 .. BUF |-> Zero] /\ sni = NoName
  /\ quic = NoQuic /\ handled = 0

(***************************************************************************)
(* interpret_cbpf.                                                         *)
(***************************************************************************)
NextIndex_OffByOne(i, off) == Wrap(i + off)
NextIndex(i, off) == Wrap(1 + i + off)

\* The callback skips, or stops at an index that no table has, or executes.
Skip ==
  /\ stage = "loop" /\ index < Len(filter) /\ index < next_index
  /\ index' = index + 1
  /\ UNCHANGED <<bespoke_digest, filter, skb, stage, next_index, regs, retcode,
                 retval, quicVars>>

Sanity ==
  /\ stage = "loop" /\ index < Len(filter) /\ index >= next_index
  /\ index >= MAX_INSTR
  /\ retcode' = "SANITY" /\ stage' = "done"
  /\ UNCHANGED <<bespoke_digest, filter, skb, index, next_index, regs, retval,
                 quicVars>>

Interpret ==
  /\ stage = "loop" /\ index < Len(filter) /\ index >= next_index
  /\ index < MAX_INSTR
  /\ \E o \in Exec(filter[index + 1], regs, skb.bytes) :
       /\ regs' = o.regs
       /\ \/ /\ o.code = "run"
             /\ index' = index + 1
             /\ next_index' = IF filter[index + 1].op \in JmpOps
                              THEN NextIndex(index, o.off) ELSE next_index
             /\ UNCHANGED <<stage, retcode, retval>>
          \/ /\ o.code # "run"
             /\ stage' = "done" /\ retcode' = o.code /\ retval' = o.val
             /\ UNCHANGED <<index, next_index>>
  /\ UNCHANGED <<bespoke_digest, filter, skb, quicVars>>

\* The last index was visited: retcode is still what it was at the start.
LoopEnds ==
  /\ stage = "loop" /\ index = Len(filter)
  /\ stage' = "done"
  /\ UNCHANGED <<bespoke_digest, filter, skb, index, next_index, regs, retcode,
                 retval, quicVars>>

(***************************************************************************)
(* run_0xDEAD.                                                             *)
(***************************************************************************)
\* A connection id of ours has a cookie, or else the number of an application.
ByDcid(p) ==
  IF ~p.ours THEN Half
  ELSE IF p.cookie = 0 THEN Half + p.app ELSE p.cookie

\* The first entry of the table with the name.
BySni(name) ==
  LET same == {i \in DOMAIN bespoke_sni :
                 Overlay(bespoke_sni[i].hostname, NoName) = name}
  IN  IF same = {} THEN Half
      ELSE Half + bespoke_sni[CHOOSE i \in same : \A j \in same : i <= j].app

\* The header of a packet that is not linear is copied to the page.
HeaderPage(p) == IF Copied(p) THEN [page EXCEPT ![1] = Junk] ELSE page

\* The body is decrypted in the page; the bytes up to the end of its last block
\* are cleared, what lies behind is what it was or decrypts to anything.
Decrypted(p) ==
  LET len == AtMost(Len(p.body), BUF)
      rest(i) == {page[i], Junk} \cup (IF i = len + 1 THEN {Zero} ELSE {})
  IN  {pg \in [1 .. BUF -> UNION {rest(i) : i \in 1 .. BUF} \cup Range(p.body)] :
         \A i \in 1 .. BUF : IF i <= len THEN pg[i] = p.body[i] ELSE pg[i] \in rest(i)}

\* The memset of scratch->sni.
ClearSni_Stale(old) == old
ClearSni(old) == NoName

\* quic_extract_sni; when it fails the connection id decides.
ExtractSni(p) ==
  \/ /\ p.load = "OK"
     /\ \E pg \in Decrypted(p) :
          /\ page' = pg
          /\ \E h \in client_hello(pg) :
               /\ sni' = Overlay(h.name, ClearSni(sni))
               /\ retval' = IF h.code = "OK" /\ h.name # <<>>
                            THEN BySni(sni') ELSE ByDcid(p)
  \/ /\ p.load # "OK"
     /\ page' = IF p.load = "LOAD" THEN [i \in 1 .. BUF |-> Zero]
                                   ELSE HeaderPage(p)
     /\ retval' = ByDcid(p)
     /\ UNCHANGED sni

RunBespoke(p) ==
  /\ bespoke_digest = 57005 /\ handled < MaxPackets
  /\ \/ /\ parse_quic_fast(p) # "OK"
        /\ retcode' = parse_quic_fast(p)
        /\ UNCHANGED <<page, sni, retval>>
     \/ /\ parse_quic_fast(p) = "OK" /\ p.form # "initial"
        /\ retcode' = "OK" /\ retval' = ByDcid(p)
        /\ UNCHANGED <<page, sni>>
     \/ /\ parse_quic_fast(p) = "OK" /\ p.form = "initial"
        /\ quic_parse_hdr(p) # "OK"
        /\ retcode' = quic_parse_hdr(p) /\ page' = HeaderPage(p)
        /\ UNCHANGED <<sni, retval>>
     \/ /\ parse_quic_fast(p) = "OK" /\ p.form = "initial"
        /\ quic_parse_hdr(p) = "OK"
        /\ retcode' = "OK" /\ ExtractSni(p)
  /\ quic' = p /\ handled' = handled + 1
  /\ UNCHANGED <<bespoke_digest, loopVars>>

\* run_bespoke_by_digest does not look at the packet.
RunOther ==
  /\ bespoke_digest = OtherDigest /\ handled < MaxPackets
  /\ retcode' = "INSTREXCEEDED" /\ handled' = handled + 1
  /\ UNCHANGED <<bespoke_digest, loopVars, retval, page, sni, quic>>

Next ==
  \/ Skip \/ Sanity \/ Interpret \/ LoopEnds \/ RunOther
  \/ \E p \in QuicPackets : RunBespoke(p)

Spec == Init /\ [][Next]_vars

(***************************************************************************)
(* The verdict.                                                            *)
(***************************************************************************)
AppIdx == Wrap(retval - Half)
Verdict ==
  CASE retcode = "LOAD" -> "load_error"
    [] retcode \notin {"OK", "LOAD"} -> "prog_error"
    [] retcode = "OK" ->
         IF AppIdx < max_apps THEN "app"
         ELSE IF retval > 65535 THEN "new"
         ELSE IF ChecksumOk(retval) THEN "cookie" ELSE "bad_cookie"

(***************************************************************************)
(* Properties.                                                             *)
(***************************************************************************)
\* Calling the interpreter for every index and skipping those that a jump leaps
\* over (ebpf_inter.c:123-126) computes what a machine with a program counter
\* computes, jumps beyond the end and errors included.
AllFilters == {input.filter : input \in Inputs} \cup {<<>>}
AllPackets == {input.skb.bytes : input \in Inputs} \cup {<<>>}
Machine == INSTANCE CbpfMachine WITH
  Filters <- AllFilters, Packets <- AllPackets,
  packet <- skb.bytes,
  pc <- IF next_index > index THEN next_index ELSE index,
  code <- IF stage = "done" THEN retcode ELSE "run",
  val <- IF stage = "done" THEN retval ELSE 0
ImplementsMachine == Machine!MachineSpec

\* The cookie that getsockopt() gave for a slot comes back through the filter as
\* that very slot; with any of its bits flipped on the way it is recognised as
\* bad (README.md:360, "if the checksum ... doesn't match").
CookieRecovered ==
  filter = CookieFilter /\ stage = "done" =>
    IF skb.flip = 0
    THEN /\ Verdict = "cookie"
         /\ SockGen(retval) = skb.gen /\ SockIdx(retval) = skb.idx
    ELSE Verdict = "bad_cookie"

\* A client with ordinary lengths has a header that is understood, linear or
\* not: the copy of the first bytes is long enough (ebpf_quic.c:529-546).
Ordinary(p) ==
  /\ p.form = "initial" /\ p.version = 1 /\ p.len >= 1200
  /\ p.dcid_len \in 8 .. 20 /\ p.scid_len \in 0 .. 20 /\ p.token_len <= 64
OrdinaryInitialParsed ==
  handled > 0 /\ Ordinary(quic) => retcode = "OK"

\* An Initial packet with a whole ClientHello is dispatched by its own server
\* name, and by its connection id if it has none, whatever earlier packets left
\* in the scratch page (ebpf_quic.c:709-733, ebpf_bespoke.c:147-196).
Extensions(p) == SubSeq(p.body, 3, 2 + p.body[2].n)
Whole(p) ==
  /\ Len(p.body) \in 2 .. BUF /\ p.body[1].kind = "crypto"
  /\ p.body[2].kind = "hello" /\ 2 + p.body[2].n <= Len(p.body)
  /\ p.body[2].n <= MAX_EXTENSIONS
  /\ \A i \in 3 .. 2 + p.body[2].n :
       \/ p.body[i].kind = "other"
       \/ p.body[i].kind = "sni" /\ i + SNI_CELLS - 1 <= BUF
ServerName(p) ==
  LET named == {i \in 1 .. p.body[2].n : Extensions(p)[i].kind = "sni"}
  IN  IF named = {} THEN <<>>
      ELSE Extensions(p)[CHOOSE i \in named : \A j \in named : i <= j].name
DispatchedByOwnName ==
  handled > 0 /\ quic.form = "initial" /\ retcode = "OK" =>
    (quic.load = "OK" /\ Whole(quic) =>
       retval = IF ServerName(quic) = <<>> THEN ByDcid(quic)
                ELSE BySni(Overlay(ServerName(quic), NoName)))
=============================================================================
