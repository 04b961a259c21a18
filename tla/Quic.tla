-------------------------------- MODULE Quic --------------------------------
(***************************************************************************)
(* How the built-in dissector reads a QUIC packet (ebpf/ebpf_quic.c and    *)
(* ebpf/ebpf_bespoke.c).  Headers are a matter of lengths in bytes.  The   *)
(* plaintext of an Initial packet is a sequence of cells - the frame, the  *)
(* ClientHello, its extensions - and the page it is decrypted into holds   *)
(* BUF cells.  Cryptography is left out: what was decrypted is the body.   *)
(***************************************************************************)
EXTENDS Integers, Sequences

CONSTANTS
  BUF,                 \* cells of scratch->pkt
  SNI_CELLS,           \* cells that a copy of the server name may touch
  MAX_EXTENSIONS,      \* 32: extensions that are looked at
  NAME_LEN, NUL        \* characters compared, and the filler

MIN_QUIC_LEN == 32
HDR_LINEAR_Short == 128
HDR_LINEAR == 192

ASSUME QuicAssumption ==
  /\ BUF \in Nat /\ SNI_CELLS \in 1 .. BUF /\ MAX_EXTENSIONS \in Nat
  /\ NAME_LEN \in Nat

AtMost(a, b) == IF a < b THEN a ELSE b

\* The first check that fails decides.
FirstFailure(checks) ==
  LET failed == {i \in DOMAIN checks : checks[i][1]}
  IN  IF failed = {} THEN "OK"
      ELSE checks[CHOOSE i \in failed : \A j \in failed : i <= j][2]

\* parse_quic_fast: the packet has a header and a connection id.
parse_quic_fast(p) ==
  FirstFailure(<<
    <<p.len < MIN_QUIC_LEN, "SANITY">>,
    <<8 + MIN_QUIC_LEN > p.linear /\ p.len < 8 + MIN_QUIC_LEN, "LOAD">>,
    <<p.form # "short" /\ (p.dcid_len < 8 \/ p.dcid_len > 20), "SANITY">> >>)

\* quic_parse_hdr, for an Initial packet: the fields one after the other, in
\* the linear part of the packet or in a copy of its first bytes.
Copied(p) == p.linear < AtMost(p.len, HDR_LINEAR)
HeaderEnd(p) == IF Copied(p) THEN AtMost(p.len, HDR_LINEAR) ELSE p.linear
TokenAt(p) == 14 + p.dcid_len + 1 + p.scid_len
LengthAt(p) == TokenAt(p) + p.token_width + p.token_len
PnoAt(p) == LengthAt(p) + p.length_width

quic_parse_hdr(p) ==
  LET end == HeaderEnd(p)
  IN  FirstFailure(<<
        <<13 > end, "LOAD">>,
        <<p.version # 1, "BADINSTR">>,
        <<14 > end, "LOAD">>,
        <<p.dcid_len < 8 \/ p.dcid_len > 20, "SANITY">>,
        <<15 + p.dcid_len > end, "LOAD">>,
        <<TokenAt(p) + 8 > end, "LOAD">>,
        <<p.token_len > 255, "SANITY">>,
        <<LengthAt(p) + 8 > end, "LOAD">>,
        <<PnoAt(p) + 20 >= end, "LOAD">> >>)

\* parse_client_hello_extract_sni walks the cells of the page, whatever the
\* length of the packet was.  Zeroes read as a server name of length zero, and
\* what is left of another packet as anything.
Cells ==
  [kind : {"zero", "junk", "crypto", "hello", "other", "sni"}, n : Nat,
   name : Seq(STRING)]
Cell(kind, n, name) == [kind |-> kind, n |-> n, name |-> name]
Zero == Cell("zero", 0, <<>>)
Junk == Cell("junk", 0, <<>>)
Hello(code, name) == [code |-> code, name |-> name]
Anything == {Hello("OK", <<>>), Hello("OK", <<NUL>>), Hello("SANITY", <<>>),
             Hello("LOAD", <<>>)}

client_hello(page) ==
  LET walked == 1 .. AtMost(page[2].n, MAX_EXTENSIONS)
      decides == {i \in walked : 2 + i > BUF \/ page[2 + i].kind # "other"}
      first == CHOOSE i \in decides : \A j \in decides : i <= j
      cell == page[2 + first]
  IN  CASE page[1].kind = "junk" -> Anything
        [] page[1].kind \notin {"crypto", "junk"} -> {Hello("OK", <<>>)}
        [] page[1].kind = "crypto" ->
             IF page[2].kind = "junk" THEN Anything
             ELSE IF page[2].kind # "hello" THEN {Hello("SANITY", <<>>)}
             ELSE IF decides = {} THEN {Hello("OK", <<>>)}
             ELSE IF 2 + first > BUF THEN {Hello("LOAD", <<>>)}
             ELSE IF cell.kind = "junk" THEN Anything
             ELSE IF 1 + first + SNI_CELLS > BUF THEN {Hello("LOAD", <<>>)}
             ELSE {Hello("OK", cell.name)}

\* The bytes of a name over the bytes that were in scratch->sni.
Overlay(name, sni) ==
  [i \in 1 .. NAME_LEN |-> IF i <= Len(name) THEN name[i] ELSE sni[i]]
NoName == [i \in 1 .. NAME_LEN |-> NUL]
=============================================================================
