---------------------------- MODULE MCDissector -----------------------------
(* Instances of Dissector for TLC.                                         *)
EXTENDS Dissector

Instr(op, src, w, k, jt, jf) ==
  [op |-> op, src |-> src, w |-> w, k |-> k, jt |-> jt, jf |-> jf]
Do(op, src, k) == Instr(op, src, 1, k, 0, 0)
Load(op, w, k) == Instr(op, "K", w, k, 0, 0)

LdhRetA == <<Load("ld_abs", 2, 0), Do("ret", "A", 0)>>

\* Every operation on operands at the edges, with its result returned.
Sampled ==
  {<<Do("ldx_imm", "K", x), Do("ld_imm", "K", a), Do(op, src, k),
     Do("ret", "A", 0)>> :
     a \in {0, 5, WordMod - 1}, x \in {0, 3, WordBits}, k \in {0, 3},
     src \in {"K", "X"}, op \in AluOps \ {"mul"}}
  \cup {<<Do("ld_imm", "K", 3000), Do("mul", "K", 500), Do("ret", "A", 0)>>}
Moved ==
  {<<Do("ld_imm", "K", 7), Do(s, "K", 1), Do(m, "K", 1), l, Do("ret", r, 0)>> :
     s \in {"st", "stx", "tax"}, m \in {"ld_mem", "ldx_mem", "txa", "ld_len"},
     l \in {Load("ld_ind", 1, 2), Load("ldx_msh", 1, 1), Load("ldx_msh", 2, 1),
            Load("ld_abs", 2, SKF_AD_PROTOCOL), Load("ld_abs", 4, 0)},
     r \in {"A", "X", "K"}}

\* Short filters of jumps, of all kinds, that meet and leave each other.
Jumps ==
  {Do("ja", "K", k) : k \in {0, 1, 3}}
  \cup {Instr(op, src, 1, 0, 0, 2) : op \in JmpOps \ {"ja"}, src \in {"K", "X"}}
  \cup {Instr("jeq", "K", 1, 0, 1, 0), Do("ld_imm", "K", 1),
        Do("ret", "K", Half + 1), Do("bad", "K", 0)}
Jumping == UNION {[1 .. n -> Jumps] : n \in 1 .. 3}
TooLong == {<<i>> \o [j \in 1 .. MAX_INSTR |-> Do("ld_imm", "K", 1)] :
              i \in {Do("ja", "K", 0), Do("ja", "K", 1)}}

\* A datagram whose first bytes are a cookie, one of whose bits is flipped.
Carries(gen, idx, flip) ==
  LET sent == Sent([gen |-> gen, idx |-> idx, flip |-> flip])
  IN  [bytes |-> [i \in 1 .. UdpHdr |-> 0] \o <<sent \div 256, sent % 256, 9>>,
       gen |-> gen, idx |-> idx, flip |-> flip]
CookieSkbs ==
  {Carries(g, i, f) : g \in 0 .. 31, i \in {0, 1, 90, 255},
                      f \in Flips \cup {0}}
TestInputs ==
  {[filter |-> LdhRetA, skb |-> p] : p \in CookieSkbs}
  \cup {[filter |-> f, skb |-> Carries(1, 2, 0)] :
          f \in Sampled \cup Moved \cup Jumping \cup TooLong}

\* The server names ab, a and b; the first two have an application.
Sni == <<[hostname |-> <<"a", "b">>, app |-> 1], [hostname |-> <<"a">>, app |-> 2]>>
Crypto == Cell("crypto", 0, <<>>)
Ext(name) == IF name = <<>> THEN Cell("other", 0, <<>>) ELSE Cell("sni", 0, name)
Names == {<<>>, <<"a">>, <<"a", "b">>, <<"b">>}
Bodies ==
  {<<Crypto, Cell("hello", 2, <<>>), Ext(m), Ext(n)>> : m \in Names, n \in Names}
  \cup {<<Crypto, Cell("hello", 1, <<>>), Ext(n)>> : n \in Names}
  \cup {<<Crypto, Cell("hello", 2, <<>>), Ext(<<>>)>>, <<Crypto>>, <<Zero>>,
        <<Crypto, Zero>>}

Quic0(form, body) ==
  [form |-> form, version |-> 1, len |-> 1208, linear |-> 1208, dcid_len |-> 20,
   scid_len |-> 20, token_len |-> 64, token_width |-> 2, length_width |-> 2,
   pno_len |-> 4, load |-> "OK", body |-> body, ours |-> TRUE, cookie |-> 77,
   app |-> 0]
Initials == {[Quic0("initial", b) EXCEPT !.linear = l] : b \in Bodies, l \in {42, 1208}}
Headers ==
  {[Quic0("initial", <<Zero>>) EXCEPT !.dcid_len = d, !.scid_len = s, !.token_len = t,
                                      !.linear = l, !.version = v, !.length_width = w] :
     d \in {7, 8, 20, 21}, s \in {0, 20, 255}, t \in {0, 64, 255, 256},
     l \in {42, 1208}, v \in {1, 2}, w \in {2, 8}}
Others ==
  {[Quic0(f, <<>>) EXCEPT !.len = n, !.linear = n, !.ours = o, !.cookie = c] :
     f \in {"short", "long"}, n \in {20, 36, 1208}, o \in BOOLEAN, c \in {0, 77}}
  \cup {[Quic0("initial", <<>>) EXCEPT !.load = e] : e \in {"SANITY", "LOAD"}}
TestPackets == Initials \cup Headers \cup Others
=============================================================================
