----------------------------- MODULE GrmCookie ------------------------------
(***************************************************************************)
(* The udpgrm cookie: 16 bits that designate a slot of the group, with 5   *)
(* bits of generation, 8 bits of index and a checksum of 3 bits            *)
(* (include/udpgrm_internal.h).  An application puts it into packets, and  *)
(* the filter of DISSECTOR_CBPF gives it back.                             *)
(***************************************************************************)
EXTENDS Integers

\* The bit of n with weight w.
Bit(n, w) == (n \div w) % 2

\* Bit of 0xD ^ both nibbles of the index ^ both nibbles of the generation.
Parity(gen, idx, w) ==
  (Bit(13, w) + Bit(idx, w) + Bit(idx, 16 * w) + Bit(gen, w) + Bit(gen, 16 * w))
  % 2

\* The fourth bit is folded into the first one.
GRM_COOKIE_CS_NoFold(gen, idx) ==
  Parity(gen, idx, 1) + 2 * Parity(gen, idx, 2) + 4 * Parity(gen, idx, 4)
GRM_COOKIE_CS(gen, idx) ==
  ((Parity(gen, idx, 1) + Parity(gen, idx, 8)) % 2)
  + 2 * Parity(gen, idx, 2) + 4 * Parity(gen, idx, 4)

grm_cookie_pack(gen, idx) ==
  LET g == gen % 32
      i == idx % 256
  IN  g + 32 * GRM_COOKIE_CS(g, i) + 256 * i

\* grm_cookie_unpack: the fields, and whether the checksum is right.
SockGen(cookie) == cookie % 32
SockIdx(cookie) == (cookie \div 256) % 256
ChecksumOk(cookie) ==
  (cookie % 256) \div 32 = GRM_COOKIE_CS(SockGen(cookie), SockIdx(cookie))
=============================================================================
