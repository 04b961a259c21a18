--------------------------- MODULE DissectorProofs --------------------------
(* What the dissectors do with every packet, filter and cookie: the cookie   *)
(* is arithmetic, the interpreter implements CbpfMachine, and the built-in   *)
(* dissector takes each packet by itself.                                    *)
EXTENDS Dissector, WellFoundedInduction, TLAPS

(***************************************************************************)
(* The cookie.                                                             *)
(***************************************************************************)
\* A bit is 0 or 1.
LEMMA BitIsBit ==
  ASSUME NEW n \in Nat, NEW w \in Nat \ {0}
  PROVE  Bit(n, w) \in 0 .. 1
<1>1. n \div w \in Int
  OBVIOUS
<1>2. \A m \in Int : m % 2 \in 0 .. 1
  OBVIOUS
<1> QED
  BY <1>1, <1>2 DEF Bit

\* A parity is a bit, whatever the generation and the index are.
LEMMA ParityIsBit ==
  ASSUME NEW gen \in Nat, NEW idx \in Nat, NEW w \in Nat \ {0}
  PROVE  Parity(gen, idx, w) \in 0 .. 1
<1>1. 16 * w \in Nat \ {0} /\ 13 \in Nat
  OBVIOUS
<1>2. /\ Bit(13, w) \in Int /\ Bit(idx, w) \in Int /\ Bit(idx, 16 * w) \in Int
      /\ Bit(gen, w) \in Int /\ Bit(gen, 16 * w) \in Int
  BY <1>1, BitIsBit
<1>3. \A s \in Int : s % 2 \in 0 .. 1
  OBVIOUS
<1>4. \A a, b, c, d, e \in Int : (a + b + c + d + e) % 2 \in 0 .. 1
  BY <1>3
<1> QED
  BY <1>2, <1>4 DEF Parity

\* The checksum fits its three bits.
LEMMA ChecksumFits ==
  ASSUME NEW gen \in Nat, NEW idx \in Nat
  PROVE  GRM_COOKIE_CS(gen, idx) \in 0 .. 7
<1>1. /\ Parity(gen, idx, 1) \in 0 .. 1 /\ Parity(gen, idx, 2) \in 0 .. 1
      /\ Parity(gen, idx, 4) \in 0 .. 1 /\ Parity(gen, idx, 8) \in 0 .. 1
  BY ParityIsBit
<1>2. \A a, b, c, d \in 0 .. 1 : ((a + b) % 2) + 2 * c + 4 * d \in 0 .. 7
  OBVIOUS
<1> QED
  BY <1>1, <1>2 DEF GRM_COOKIE_CS

\* The three fields of a cookie do not overlap.
LEMMA GenField ==
  ASSUME NEW g \in 0 .. 31, NEW cs \in 0 .. 7, NEW i \in 0 .. 255
  PROVE  (g + 32 * cs + 256 * i) % 32 = g
OBVIOUS

\* The index is above the low byte.
LEMMA IdxField ==
  ASSUME NEW g \in 0 .. 31, NEW cs \in 0 .. 7, NEW i \in 0 .. 255
  PROVE  (g + 32 * cs + 256 * i) \div 256 = i
OBVIOUS

\* The low byte has generation and checksum.
LEMMA LowByte ==
  ASSUME NEW g \in 0 .. 31, NEW cs \in 0 .. 7, NEW i \in 0 .. 255
  PROVE  (g + 32 * cs + 256 * i) % 256 = g + 32 * cs
OBVIOUS

\* The checksum is above the generation.
LEMMA ChecksumField ==
  ASSUME NEW g \in 0 .. 31, NEW cs \in 0 .. 7
  PROVE  (g + 32 * cs) \div 32 = cs
OBVIOUS

\* The generation is reduced to five bits.
LEMMA FiveBits ==
  ASSUME NEW n \in Nat
  PROVE  n % 32 \in 0 .. 31
OBVIOUS

\* The index is reduced to eight bits.
LEMMA EightBits ==
  ASSUME NEW n \in Nat
  PROVE  n % 256 \in 0 .. 255
OBVIOUS

\* A reduced index stays as it is.
LEMMA ByteFits ==
  ASSUME NEW i \in 0 .. 255
  PROVE  i % 256 = i
OBVIOUS

\* The three fields together have 16 bits.
LEMMA SixteenBits ==
  ASSUME NEW g \in 0 .. 31, NEW cs \in 0 .. 7, NEW i \in 0 .. 255
  PROVE  g + 32 * cs + 256 * i < 256 * 256
OBVIOUS

\* grm_cookie_unpack (udpgrm_internal.h:193) accepts what grm_cookie_pack
\* (udpgrm_internal.h:208) made and gives back generation and index, up to the
\* 32 generations and 256 indices that 16 bits have room for.
THEOREM CookieRoundTrip ==
  ASSUME NEW gen \in Nat, NEW idx \in Nat
  PROVE  /\ ChecksumOk(grm_cookie_pack(gen, idx))
         /\ SockGen(grm_cookie_pack(gen, idx)) = gen % 32
         /\ SockIdx(grm_cookie_pack(gen, idx)) = idx % 256
         /\ grm_cookie_pack(gen, idx) < 256 * 256
<1>1. PICK g \in 0 .. 31 : g = gen % 32
  BY FiveBits
<1>2. PICK i \in 0 .. 255 : i = idx % 256
  BY EightBits
<1>3. g \in Nat /\ i \in Nat
  OBVIOUS
<1>4. PICK cs \in 0 .. 7 : cs = GRM_COOKIE_CS(g, i)
  BY <1>3, ChecksumFits
<1>5. PICK cookie : cookie = g + 32 * cs + 256 * i
  OBVIOUS
<1>6. grm_cookie_pack(gen, idx) = cookie
  BY <1>1, <1>2, <1>4, <1>5 DEF grm_cookie_pack
<1>7. cookie % 32 = g
  BY <1>5, GenField
<1>8. cookie \div 256 = i /\ i % 256 = i
  BY <1>5, IdxField, ByteFits
<1>9. cookie % 256 = g + 32 * cs
  BY <1>5, LowByte
<1>10. (g + 32 * cs) \div 32 = cs
  BY ChecksumField
<1>11. cookie < 256 * 256
  BY <1>5, SixteenBits
<1>12. SockGen(cookie) = g
  BY <1>7 DEF SockGen
<1>13. SockIdx(cookie) = i
  BY <1>8, Zenon DEF SockIdx
<1>14. (cookie % 256) \div 32 = cs
  BY <1>9, <1>10, Zenon
<1>15. ChecksumOk(cookie)
  BY <1>4, <1>12, <1>13, <1>14 DEF ChecksumOk
<1> QED
  BY <1>1, <1>2, <1>6, <1>11, <1>12, <1>13, <1>15

(***************************************************************************)
(* Detection of a flipped bit.  Bytes are written as eight bits, of which  *)
(* the checksum is a sum modulo two.                                       *)
(***************************************************************************)
Bits == [0 .. 7 -> 0 .. 1]
Byte(a) == a[0] + 2 * a[1] + 4 * a[2] + 8 * a[3]
             + 16 * a[4] + 32 * a[5] + 64 * a[6] + 128 * a[7]
Flipped(a, k) == [a EXCEPT ![k] = 1 - @]

\* The bits of a byte are its bits.
LEMMA BitsOfByte ==
  ASSUME NEW a \in Bits
  PROVE  /\ Byte(a) \in 0 .. 255
         /\ Bit(Byte(a), 1) = a[0] /\ Bit(Byte(a), 2) = a[1]
         /\ Bit(Byte(a), 4) = a[2] /\ Bit(Byte(a), 8) = a[3]
         /\ Bit(Byte(a), 16) = a[4] /\ Bit(Byte(a), 32) = a[5]
         /\ Bit(Byte(a), 64) = a[6] /\ Bit(Byte(a), 128) = a[7]
<1>1. /\ a[0] \in 0 .. 1 /\ a[1] \in 0 .. 1 /\ a[2] \in 0 .. 1 /\ a[3] \in 0 .. 1
      /\ a[4] \in 0 .. 1 /\ a[5] \in 0 .. 1 /\ a[6] \in 0 .. 1 /\ a[7] \in 0 .. 1
  BY DEF Bits
<1>2. Byte(a) \in 0 .. 255
  BY <1>1 DEF Byte
<1>3. Bit(Byte(a), 1) = a[0] /\ Bit(Byte(a), 2) = a[1]
  BY <1>1 DEF Byte, Bit
<1>4. Bit(Byte(a), 4) = a[2] /\ Bit(Byte(a), 8) = a[3]
  BY <1>1 DEF Byte, Bit
<1>5. Bit(Byte(a), 16) = a[4] /\ Bit(Byte(a), 32) = a[5]
  BY <1>1 DEF Byte, Bit
<1>6. Bit(Byte(a), 64) = a[6] /\ Bit(Byte(a), 128) = a[7]
  BY <1>1 DEF Byte, Bit
<1> QED
  BY <1>2, <1>3, <1>4, <1>5, <1>6

\* Every byte is written so.
LEMMA ByteHasBits ==
  ASSUME NEW n \in 0 .. 255
  PROVE  \E a \in Bits : n = Byte(a)
<1> DEFINE a == [k \in 0 .. 7 |->
                   CASE k = 0 -> Bit(n, 1)  [] k = 1 -> Bit(n, 2)
                     [] k = 2 -> Bit(n, 4)  [] k = 3 -> Bit(n, 8)
                     [] k = 4 -> Bit(n, 16) [] k = 5 -> Bit(n, 32)
                     [] k = 6 -> Bit(n, 64) [] k = 7 -> Bit(n, 128)]
<1>1. a \in Bits
  BY BitIsBit DEF Bits
<1>2. n = Bit(n, 1) + 2 * Bit(n, 2) + 4 * Bit(n, 4) + 8 * Bit(n, 8)
            + 16 * Bit(n, 16) + 32 * Bit(n, 32) + 64 * Bit(n, 64)
            + 128 * Bit(n, 128)
  BY DEF Bit
<1>3. n = Byte(a)
  BY <1>2 DEF Byte
<1> QED
  BY <1>1, <1>3

\* The checksum, bit by bit: two bits of index and of generation for each of the
\* upper two, and four for the lowest, into which the fourth is folded.
LEMMA ChecksumOfBits ==
  ASSUME NEW a \in Bits, NEW b \in Bits
  PROVE  GRM_COOKIE_CS(Byte(a), Byte(b)) =
           ((a[0] + a[3] + a[4] + a[7] + b[0] + b[3] + b[4] + b[7]) % 2)
           + 2 * ((a[1] + a[5] + b[1] + b[5]) % 2)
           + 4 * ((1 + a[2] + a[6] + b[2] + b[6]) % 2)
<1>1. \A k \in 0 .. 7 : a[k] \in 0 .. 1 /\ b[k] \in 0 .. 1
  BY DEF Bits
<1>2. Bit(13, 1) = 1 /\ Bit(13, 2) = 0 /\ Bit(13, 4) = 1 /\ Bit(13, 8) = 1
  BY DEF Bit
<1>3. /\ Parity(Byte(a), Byte(b), 1) = (1 + b[0] + b[4] + a[0] + a[4]) % 2
      /\ Parity(Byte(a), Byte(b), 2) = (0 + b[1] + b[5] + a[1] + a[5]) % 2
      /\ Parity(Byte(a), Byte(b), 4) = (1 + b[2] + b[6] + a[2] + a[6]) % 2
      /\ Parity(Byte(a), Byte(b), 8) = (1 + b[3] + b[7] + a[3] + a[7]) % 2
  BY <1>2, BitsOfByte DEF Parity
<1> QED
  BY <1>1, <1>3 DEF GRM_COOKIE_CS

\* A cookie as two bytes of bits.
Word(l, h) == Byte(l) + 256 * Byte(h)

\* Every 16-bit number is written so.
LEMMA WordHasBits ==
  ASSUME NEW n \in Nat, n < 256 * 256
  PROVE  \E l, h \in Bits : n = Word(l, h)
<1>1. n % 256 \in 0 .. 255 /\ n \div 256 \in 0 .. 255
  BY EightBits, SMT
<1>2. n = (n % 256) + 256 * (n \div 256)
  OBVIOUS
<1>3. PICK l \in Bits : n % 256 = Byte(l)
  BY <1>1, ByteHasBits
<1>4. PICK h \in Bits : n \div 256 = Byte(h)
  BY <1>1, ByteHasBits
<1> QED
  BY <1>2, <1>3, <1>4 DEF Word

\* The fields of a cookie, in bits.
LEMMA FieldsOfWord ==
  ASSUME NEW l \in Bits, NEW h \in Bits
  PROVE  /\ SockGen(Word(l, h)) = Byte([l EXCEPT ![5] = 0, ![6] = 0, ![7] = 0])
         /\ SockIdx(Word(l, h)) = Byte(h)
         /\ (Word(l, h) % 256) \div 32 = l[5] + 2 * l[6] + 4 * l[7]
<1>1. /\ l[0] \in 0 .. 1 /\ l[1] \in 0 .. 1 /\ l[2] \in 0 .. 1 /\ l[3] \in 0 .. 1
      /\ l[4] \in 0 .. 1 /\ l[5] \in 0 .. 1 /\ l[6] \in 0 .. 1 /\ l[7] \in 0 .. 1
  BY DEF Bits
<1>2. PICK g \in 0 .. 31 : g = l[0] + 2 * l[1] + 4 * l[2] + 8 * l[3] + 16 * l[4]
  BY <1>1
<1>3. PICK cs \in 0 .. 7 : cs = l[5] + 2 * l[6] + 4 * l[7]
  BY <1>1
<1>4. PICK i \in 0 .. 255 : i = Byte(h)
  BY BitsOfByte
<1>5. PICK w : w = Word(l, h)
  OBVIOUS
<1>6. w = g + 32 * cs + 256 * i
  BY <1>1, <1>2, <1>3, <1>4, <1>5 DEF Word, Byte
<1>7. w % 32 = g
  BY <1>6, GenField
<1>8. w \div 256 = i /\ i % 256 = i
  BY <1>6, IdxField, ByteFits
<1>9. w % 256 = g + 32 * cs
  BY <1>6, LowByte
<1>10. (g + 32 * cs) \div 32 = cs
  BY ChecksumField
<1>11. (w % 256) \div 32 = cs
  BY <1>9, <1>10, Zenon
<1>12. SockIdx(w) = i
  BY <1>8, Zenon DEF SockIdx
<1>13. g = Byte([l EXCEPT ![5] = 0, ![6] = 0, ![7] = 0])
  BY <1>1, <1>2 DEF Byte, Bits
<1> QED
  BY <1>3, <1>4, <1>5, <1>7, <1>11, <1>12, <1>13, Zenon DEF SockGen

\* Three bits are determined by the number they make.
LEMMA ThreeBits ==
  ASSUME NEW x \in 0 .. 1, NEW y \in 0 .. 1, NEW z \in 0 .. 1,
         NEW u \in 0 .. 1, NEW v \in 0 .. 1, NEW w \in 0 .. 1
  PROVE  x + 2 * y + 4 * z = u + 2 * v + 4 * w <=> x = u /\ y = v /\ z = w
  OBVIOUS

\* When the checksum is right, in bits.
LEMMA ChecksumOkInBits ==
  ASSUME NEW l \in Bits, NEW h \in Bits
  PROVE  ChecksumOk(Word(l, h)) <=>
           /\ l[5] = (l[0] + l[3] + l[4] + h[0] + h[3] + h[4] + h[7]) % 2
           /\ l[6] = (l[1] + h[1] + h[5]) % 2
           /\ l[7] = (1 + l[2] + h[2] + h[6]) % 2
<1> DEFINE a == [l EXCEPT ![5] = 0, ![6] = 0, ![7] = 0]
<1>1. \A k \in 0 .. 7 : l[k] \in 0 .. 1 /\ h[k] \in 0 .. 1
  BY DEF Bits
<1>2. /\ a \in Bits /\ a[0] = l[0] /\ a[1] = l[1] /\ a[2] = l[2] /\ a[3] = l[3]
      /\ a[4] = l[4] /\ a[5] = 0 /\ a[6] = 0 /\ a[7] = 0
  BY DEF Bits
<1>3. ChecksumOk(Word(l, h)) <=>
        l[5] + 2 * l[6] + 4 * l[7] = GRM_COOKIE_CS(Byte(a), Byte(h))
  <2>1. PICK w : w = Word(l, h)
    OBVIOUS
  <2>2. /\ SockGen(w) = Byte(a) /\ SockIdx(w) = Byte(h)
        /\ (w % 256) \div 32 = l[5] + 2 * l[6] + 4 * l[7]
    BY <2>1, FieldsOfWord, Zenon
  <2>3. PICK g : g = Byte(a)
    OBVIOUS
  <2>4. PICK i : i = Byte(h)
    OBVIOUS
  <2>5. ChecksumOk(w) <=> (w % 256) \div 32 = GRM_COOKIE_CS(g, i)
    BY <2>2, <2>3, <2>4, Zenon DEF ChecksumOk
  <2> QED
    BY <2>1, <2>2, <2>3, <2>4, <2>5, Zenon
<1> HIDE DEF a
<1>4. GRM_COOKIE_CS(Byte(a), Byte(h)) =
        ((l[0] + l[3] + l[4] + h[0] + h[3] + h[4] + h[7]) % 2)
        + 2 * ((l[1] + h[1] + h[5]) % 2)
        + 4 * ((1 + l[2] + h[2] + h[6]) % 2)
  <2>1. GRM_COOKIE_CS(Byte(a), Byte(h)) =
          ((a[0] + a[3] + a[4] + a[7] + h[0] + h[3] + h[4] + h[7]) % 2)
          + 2 * ((a[1] + a[5] + h[1] + h[5]) % 2)
          + 4 * ((1 + a[2] + a[6] + h[2] + h[6]) % 2)
    BY <1>2, ChecksumOfBits
  <2> QED
    BY <1>1, <1>2, <2>1
<1>5. \A m \in Int : m % 2 \in 0 .. 1
  OBVIOUS
<1>6. PICK u \in 0 .. 1 :
        u = (l[0] + l[3] + l[4] + h[0] + h[3] + h[4] + h[7]) % 2
  BY <1>1, <1>5
<1>7. PICK v \in 0 .. 1 : v = (l[1] + h[1] + h[5]) % 2
  BY <1>1, <1>5
<1>8. PICK w \in 0 .. 1 : w = (1 + l[2] + h[2] + h[6]) % 2
  BY <1>1, <1>5
<1>9. l[5] + 2 * l[6] + 4 * l[7] = u + 2 * v + 4 * w
        <=> l[5] = u /\ l[6] = v /\ l[7] = w
  <2>1. PICK x \in 0 .. 1, y \in 0 .. 1, z \in 0 .. 1 :
          x = l[5] /\ y = l[6] /\ z = l[7]
    BY <1>1
  <2>2. x + 2 * y + 4 * z = u + 2 * v + 4 * w <=> x = u /\ y = v /\ z = w
    BY ThreeBits
  <2> QED
    BY <2>1, <2>2, Zenon
<1>10. GRM_COOKIE_CS(Byte(a), Byte(h)) = u + 2 * v + 4 * w
  BY <1>4, <1>6, <1>7, <1>8
<1>11. ChecksumOk(Word(l, h)) <=> l[5] = u /\ l[6] = v /\ l[7] = w
  BY <1>3, <1>9, <1>10, Zenon
<1> QED
  BY <1>6, <1>7, <1>8, <1>11, Zenon

\* grm_cookie_unpack (udpgrm_internal.h:193) sees every flipped bit of a cookie,
\* of the generation, of the index or of the checksum itself: no packet whose
\* cookie was hit by a single error is sent to another slot.
THEOREM FlippedBitIsSeen ==
  ASSUME NEW l \in Bits, NEW h \in Bits, NEW k \in 0 .. 7,
         ChecksumOk(Word(l, h))
  PROVE  ~ChecksumOk(Word(Flipped(l, k), h)) /\ ~ChecksumOk(Word(l, Flipped(h, k)))
<1>1. \A j \in 0 .. 7 : l[j] \in 0 .. 1 /\ h[j] \in 0 .. 1
  BY DEF Bits
<1>2. Flipped(l, k) \in Bits /\ Flipped(h, k) \in Bits
  BY DEF Flipped, Bits
<1>3. \A j \in 0 .. 7 : /\ Flipped(l, k)[j] = IF j = k THEN 1 - l[j] ELSE l[j]
                        /\ Flipped(h, k)[j] = IF j = k THEN 1 - h[j] ELSE h[j]
  BY DEF Flipped, Bits
<1>4. /\ l[5] = (l[0] + l[3] + l[4] + h[0] + h[3] + h[4] + h[7]) % 2
      /\ l[6] = (l[1] + h[1] + h[5]) % 2
      /\ l[7] = (1 + l[2] + h[2] + h[6]) % 2
  BY ChecksumOkInBits
<1>5. k \in {0, 3, 4, 5, 7} \/ k \in {1, 2, 6}
  OBVIOUS
<1>6. CASE k \in {0, 3, 4, 5, 7}
  <2>1. ~ChecksumOk(Word(Flipped(l, k), h))
    BY <1>1, <1>2, <1>3, <1>4, <1>6, ChecksumOkInBits
  <2>2. ~ChecksumOk(Word(l, Flipped(h, k)))
    BY <1>1, <1>2, <1>3, <1>4, <1>6, ChecksumOkInBits
  <2> QED
    BY <2>1, <2>2
<1>7. CASE k \in {1, 2, 6}
  <2>1. ~ChecksumOk(Word(Flipped(l, k), h))
    BY <1>1, <1>2, <1>3, <1>4, <1>7, ChecksumOkInBits
  <2>2. ~ChecksumOk(Word(l, Flipped(h, k)))
    BY <1>1, <1>2, <1>3, <1>4, <1>7, ChecksumOkInBits
  <2> QED
    BY <2>1, <2>2
<1> QED
  BY <1>5, <1>6, <1>7

(***************************************************************************)
(* One instruction.                                                        *)
(***************************************************************************)
\* What is known of the outcome of an instruction: only jumps leave a distance,
\* and none of them goes back.
LEMMA ExecOutcome ==
  ASSUME NEW f \in Instructions, NEW r, NEW p, NEW o \in Exec(f, r, p),
         o.code = "run"
  PROVE  /\ o.val = 0
         /\ f.op \notin JmpOps => o.off = 0
         /\ f.op \in JmpOps => o.off = Distance(f, r)
<1>1. CASE Unknown(f)
  <2>1. Exec(f, r, p) = {Stops(r, "BADINSTR", 0)}
    BY <1>1 DEF Exec, Unknown, MoveOps, JmpOps, AluOps, LoadOps
  <2> QED
    BY <2>1 DEF Stops
<1>2. CASE f.op \in MoveOps
  <2>1. ~Unknown(f) /\ f.op \notin JmpOps
    BY <1>2 DEF Unknown, MoveOps, JmpOps
  <2>2. Exec(f, r, p) = {Goes(Moves(f, r, p), 0)}
    BY <1>2, <2>1 DEF Exec, MoveOps, JmpOps, AluOps, LoadOps
  <2> QED
    BY <2>1, <2>2 DEF Goes
<1>3. CASE f.op \in JmpOps /\ ~Unknown(f)
  <2>1. Exec(f, r, p) = {Goes(r, Distance(f, r))}
    BY <1>3 DEF Exec, MoveOps, JmpOps, AluOps, LoadOps
  <2> QED
    BY <1>3, <2>1 DEF Goes
<1>4. CASE f.op \in AluOps /\ ~Unknown(f)
  <2>1. f.op \notin JmpOps
    BY <1>4 DEF JmpOps, AluOps
  <2>2. \/ Exec(f, r, p) = {Stops(r, "BADINSTR", 0)}
        \/ Exec(f, r, p) =
             {Goes([r EXCEPT !.A = v], 0) : v \in Alu(f.op, r.A, Operand(f, r))}
    BY <1>4 DEF Exec, MoveOps, JmpOps, AluOps, LoadOps
  <2> QED
    BY <2>1, <2>2 DEF Goes, Stops
<1>5. CASE f.op \in LoadOps /\ ~Unknown(f)
  <2>1. f.op \notin JmpOps
    BY <1>5 DEF JmpOps, LoadOps
  <2>2. \/ Exec(f, r, p) = {Stops(r, "LOAD", 0)}
        \/ Exec(f, r, p) = {Goes([r EXCEPT !.A = v], 0) : v \in EthProtocols}
        \/ \E s : Exec(f, r, p) = {Goes(s, 0)}
    BY <1>5 DEF Exec, MoveOps, JmpOps, AluOps, LoadOps
  <2> QED
    BY <2>1, <2>2 DEF Goes, Stops
<1>6. CASE f.op = "ret"
  <2>1. ~Unknown(f)
    BY <1>6 DEF Unknown
  <2>2. \E v : Exec(f, r, p) = {Stops(r, "OK", v)}
    BY <1>6, <2>1 DEF Exec, MoveOps, JmpOps, AluOps, LoadOps
  <2> QED
    BY <2>2 DEF Stops
<1>7. CASE /\ ~Unknown(f) /\ f.op \notin MoveOps /\ f.op \notin JmpOps
           /\ f.op \notin AluOps /\ f.op \notin LoadOps /\ f.op # "ret"
  <2>1. Exec(f, r, p) = {Stops(r, "BADINSTR", 0)}
    BY <1>7 DEF Exec
  <2> QED
    BY <2>1 DEF Stops
<1> QED
  BY <1>1, <1>2, <1>3, <1>4, <1>5, <1>6, <1>7

(***************************************************************************)
(* The loop of the interpreter.                                            *)
(***************************************************************************)
\* What holds of every filter that a group may have.
FilterOK ==
  /\ filter \in Seq(Instructions)
  /\ \A i \in DOMAIN filter :
       filter[i].op = "ja" => filter[i].k < WordMod - Len(filter)

\* While the loop runs nothing has been decided; a group has a filter or the
\* built-in dissector.
LoopInv ==
  /\ FilterOK
  /\ stage \in {"idle", "loop", "done"}
  /\ index \in Nat /\ next_index \in Nat /\ handled \in Nat
  /\ index <= Len(filter)
  /\ stage = "loop" => retcode = "INSTREXCEEDED" /\ retval = 0
  /\ bespoke_digest \in {0, 57005, OtherDigest}
  /\ bespoke_digest = 0 => stage # "idle" /\ handled = 0
  /\ bespoke_digest # 0 => stage = "idle"
  /\ bespoke_digest = OtherDigest => quic = NoQuic

\* A jump that is taken from an index of the table does not wrap around.
LEMMA JumpIsForward ==
  ASSUME NEW f \in Instructions, NEW r, NEW n \in Nat, NEW i \in Nat, i < n,
         i < MAX_INSTR, f.op = "ja" => f.k < WordMod - n, f.op \in JmpOps
  PROVE  /\ Distance(f, r) \in Nat
         /\ NextIndex(i, Distance(f, r)) = 1 + i + Distance(f, r)
<1> DEFINE d == Distance(f, r)
<1>1. d \in Nat /\ (d = f.k \/ d \in 0 .. 255) /\ (f.op # "ja" => d \in 0 .. 255)
  BY WordModAssumption DEF Distance, Instructions, Words, JmpOps
<1>2. f.op = "ja" => d = f.k
  BY DEF Distance
<1> HIDE DEF d
<1>3. 1 + i + d \in Nat /\ 1 + i + d < WordMod
  <2>1. CASE f.op = "ja"
    BY <1>1, <1>2, <2>1, WordModAssumption
  <2>2. CASE f.op # "ja"
    <3>1. MAX_INSTR \in Nat /\ MAX_INSTR <= 65536
      BY WordAssumption
    <3>2. d \in Nat /\ d <= 255
      BY <1>1, <2>2
    <3> QED
      BY <3>1, <3>2, WordModAssumption
  <2> QED
    BY <2>1, <2>2
<1>4. \A m \in Nat : m < WordMod => m % WordMod = m
  BY WordModAssumption
<1> QED
  BY <1>1, <1>3, <1>4 DEF NextIndex, Wrap, d

\* At the start of a filter the machine is at its first instruction.
LEMMA LoopInvInit == Init => LoopInv
<1> SUFFICES ASSUME Init PROVE LoopInv
  OBVIOUS
<1>1. CASE bespoke_digest = 0
  <2>1. PICK input \in Inputs : filter = input.filter
    BY <1>1 DEF Init, OtherDigest
  <2>2. FilterOK
    BY <2>1, FilterAssumption DEF FilterOK
  <2>3. Len(filter) \in Nat
    BY <2>2 DEF FilterOK
  <2> QED
    BY <1>1, <2>2, <2>3 DEF Init, LoopInv, OtherDigest
<1>2. CASE bespoke_digest \in {57005, OtherDigest}
  <2>1. filter = <<>> /\ stage = "idle" /\ bespoke_digest # 0
    BY <1>2 DEF Init, OtherDigest
  <2>2. <<>> \in Seq(Instructions) /\ Len(<<>>) = 0 /\ DOMAIN <<>> = {}
    OBVIOUS
  <2>3. FilterOK /\ Len(filter) = 0
    BY <2>1, <2>2, Zenon DEF FilterOK
  <2> QED
    BY <1>2, <2>1, <2>3 DEF Init, LoopInv
<1> QED
  BY <1>1, <1>2 DEF Init

\* Every action keeps it: a call that skips, one that executes, the end of the loop.
LEMMA LoopInvStep ==
  ASSUME LoopInv, [Next]_vars
  PROVE  LoopInv'
<1>0. Len(filter) \in Nat
  BY DEF LoopInv, FilterOK
<1>1. CASE Skip
  BY <1>0, <1>1 DEF LoopInv, FilterOK, Skip, quicVars
<1>2. CASE Sanity
  BY <1>0, <1>2 DEF LoopInv, FilterOK, Sanity, quicVars
<1>3. CASE Interpret
  <2> DEFINE f == filter[index + 1]
  <2>1. /\ index \in Nat /\ index < Len(filter) /\ index < MAX_INSTR
        /\ stage = "loop" /\ next_index \in Nat
    BY <1>3 DEF LoopInv, Interpret
  <2>2. index + 1 \in DOMAIN filter /\ f \in Instructions
        /\ (f.op = "ja" => f.k < WordMod - Len(filter))
    BY <1>0, <2>1 DEF LoopInv, FilterOK
  <2>3. /\ UNCHANGED <<bespoke_digest, filter, quic, handled>>
        /\ \/ /\ index' = index + 1
              /\ \/ next_index' = next_index
                 \/ f.op \in JmpOps /\ next_index' = NextIndex(index, Distance(f, regs))
              /\ UNCHANGED <<stage, retcode, retval>>
           \/ stage' = "done" /\ UNCHANGED <<index, next_index>>
    <3>1. PICK o \in Exec(f, regs, skb.bytes) :
            \/ /\ o.code = "run"
               /\ index' = index + 1
               /\ next_index' = IF f.op \in JmpOps
                                THEN NextIndex(index, o.off) ELSE next_index
               /\ UNCHANGED <<stage, retcode, retval>>
            \/ /\ o.code # "run"
               /\ stage' = "done" /\ retcode' = o.code /\ retval' = o.val
               /\ UNCHANGED <<index, next_index>>
      BY <1>3 DEF Interpret
    <3>2. UNCHANGED <<bespoke_digest, filter, quic, handled>>
      BY <1>3 DEF Interpret, quicVars
    <3> QED
      BY <2>2, <3>1, <3>2, ExecOutcome
  <2>4. next_index' \in Nat
    <3>1. CASE next_index' = next_index
      BY <2>1, <3>1
    <3>2. CASE f.op \in JmpOps /\ next_index' = NextIndex(index, Distance(f, regs))
      <4>1. /\ Distance(f, regs) \in Nat
            /\ NextIndex(index, Distance(f, regs)) = 1 + index + Distance(f, regs)
        BY <1>0, <2>1, <2>2, <3>2, JumpIsForward
      <4> QED
        BY <2>1, <3>2, <4>1
    <3> QED
      BY <2>3, <3>1, <3>2
  <2> QED
    BY <1>0, <2>1, <2>3, <2>4 DEF LoopInv, FilterOK
<1>4. CASE LoopEnds
  BY <1>0, <1>4 DEF LoopInv, FilterOK, LoopEnds, quicVars
<1>5. ASSUME NEW p \in QuicPackets, RunBespoke(p) PROVE LoopInv'
  BY <1>0, <1>5 DEF LoopInv, FilterOK, RunBespoke, loopVars, OtherDigest
<1>6. CASE RunOther
  BY <1>0, <1>6 DEF LoopInv, FilterOK, RunOther, loopVars, OtherDigest
<1>7. CASE UNCHANGED vars
  BY <1>7 DEF LoopInv, FilterOK, vars, loopVars, quicVars
<1> QED
  BY <1>1, <1>2, <1>3, <1>4, <1>5, <1>6, <1>7 DEF Next

\* So it holds throughout.
LEMMA LoopInvariance == Spec => []LoopInv
  BY LoopInvInit, LoopInvStep, PTL DEF Spec

(***************************************************************************)
(* The machine with a program counter.                                     *)
(***************************************************************************)
\* The program counter of the machine, while the interpreter skips.
Pc == IF next_index > index THEN next_index ELSE index

\* An initial state of the interpreter is one of the machine.
LEMMA MachineInitial == Init => Machine!MachineInit
<1> SUFFICES ASSUME Init PROVE Machine!MachineInit
  OBVIOUS
<1>1. filter \in AllFilters /\ skb.bytes \in AllPackets
  BY DEF Init, AllFilters, AllPackets, NoSkb
<1>2. /\ index = 0 /\ next_index = 0 /\ regs = ZeroRegs /\ stage # "done"
  BY DEF Init
<1> QED
  BY <1>1, <1>2 DEF Machine!MachineInit

\* An index that is visited and executed is an instruction of the machine.
LEMMA InterpretExecutes ==
  ASSUME LoopInv, Interpret
  PROVE  Machine!Execute
<1> DEFINE f == filter[index + 1]
<1>1. /\ index \in Nat /\ index < Len(filter) /\ index < MAX_INSTR
      /\ stage = "loop" /\ next_index \in Nat /\ index >= next_index
      /\ Len(filter) \in Nat /\ retval = 0
  BY DEF LoopInv, FilterOK, Interpret
<1>2. f \in Instructions /\ (f.op = "ja" => f.k < WordMod - Len(filter))
  BY <1>1 DEF LoopInv, FilterOK
<1>3. PICK o \in Exec(f, regs, skb.bytes) :
        /\ regs' = o.regs
        /\ \/ /\ o.code = "run"
              /\ index' = index + 1
              /\ next_index' = IF f.op \in JmpOps
                               THEN NextIndex(index, o.off) ELSE next_index
              /\ UNCHANGED <<stage, retcode, retval>>
           \/ /\ o.code # "run"
              /\ stage' = "done" /\ retcode' = o.code /\ retval' = o.val
              /\ UNCHANGED <<index, next_index>>
  BY DEF Interpret
<1>4. UNCHANGED <<filter, skb>>
  BY DEF Interpret
<1>5. Pc = index
  BY <1>1 DEF Pc
<1>6. CASE o.code = "run"
  <2>1. o.val = 0 /\ stage' = "loop" /\ index' = index + 1
    BY <1>1, <1>2, <1>3, <1>6, ExecOutcome
  <2>2. Pc' = index + 1 + o.off
    <3>1. CASE f.op \in JmpOps
      <4>1. o.off \in Nat /\ next_index' = 1 + index + o.off
        BY <1>1, <1>2, <1>3, <1>6, <3>1, ExecOutcome, JumpIsForward
      <4> QED
        BY <1>1, <2>1, <4>1 DEF Pc
    <3>2. CASE f.op \notin JmpOps
      <4>1. o.off = 0 /\ next_index' = next_index
        BY <1>2, <1>3, <1>6, <3>2, ExecOutcome
      <4> QED
        BY <1>1, <2>1, <4>1 DEF Pc
    <3> QED
      BY <3>1, <3>2
  <2> QED
    BY <1>1, <1>3, <1>4, <1>5, <1>6, <2>1, <2>2 DEF Machine!Execute, Pc
<1>7. CASE o.code # "run"
  <2>1. Pc' = index /\ stage' = "done" /\ retcode' = o.code /\ retval' = o.val
    BY <1>1, <1>3, <1>7 DEF Pc
  <2> QED
    BY <1>1, <1>3, <1>4, <1>5, <1>7, <2>1 DEF Machine!Execute, Pc
<1> QED
  BY <1>6, <1>7

\* Every step of the loop is one of the machine or leaves it as it is.
LEMMA MachineStep ==
  ASSUME LoopInv, [Next]_vars
  PROVE  [Machine!MachineNext]_(Machine!machineVars)
<1>0. index \in Nat /\ next_index \in Nat /\ Len(filter) \in Nat
  BY DEF LoopInv, FilterOK
<1>1. CASE Skip
  BY <1>0, <1>1 DEF Skip, Machine!machineVars
<1>2. CASE Sanity
  <2>1. Machine!RunOff
    BY <1>0, <1>2 DEF LoopInv, Sanity, Machine!RunOff
  <2> QED
    BY <2>1 DEF Machine!MachineNext
<1>3. CASE Interpret
  BY <1>3, InterpretExecutes DEF Machine!MachineNext
<1>4. CASE LoopEnds
  <2>1. Machine!RunOff
    BY <1>0, <1>4 DEF LoopInv, LoopEnds, Machine!RunOff
  <2> QED
    BY <2>1 DEF Machine!MachineNext
<1>5. ASSUME NEW p \in QuicPackets, RunBespoke(p)
      PROVE  UNCHANGED Machine!machineVars
  BY <1>5 DEF LoopInv, RunBespoke, loopVars, Machine!machineVars
<1>6. CASE RunOther
  BY <1>6 DEF LoopInv, RunOther, loopVars, OtherDigest, Machine!machineVars
<1>7. CASE UNCHANGED vars
  BY <1>7 DEF vars, loopVars, Machine!machineVars
<1> QED
  BY <1>1, <1>2, <1>3, <1>4, <1>5, <1>6, <1>7 DEF Next

\* The interpreter (ebpf_inter.c:119-351), called for every index of the table and
\* skipping what a jump leaps over, implements the machine with a program counter.
THEOREM InterpreterImplementsMachine == Spec => ImplementsMachine
<1>1. Init => Machine!MachineInit
  BY MachineInitial
<1>2. LoopInv /\ [Next]_vars => [Machine!MachineNext]_(Machine!machineVars)
  BY MachineStep
<1> QED
  BY <1>1, <1>2, LoopInvariance, PTL DEF Spec, ImplementsMachine, Machine!MachineSpec

\* A set of numbers has a least one.
LEMMA LeastOfSet ==
  ASSUME NEW S \in SUBSET Nat, S # {}
  PROVE  \E i \in S : \A j \in S : i <= j
<1> DEFINE R == OpToRel(<, Nat)
<1>1. IsWellFoundedOn(R, Nat)
  BY NatLessThanWellFounded
<1>2. \A i, j \in Nat : i < j => <<i, j>> \in R
  BY DEF OpToRel
<1> HIDE DEF R
<1>3. PICK x \in S : \A y \in S : ~ (<<y, x>> \in R)
  BY <1>1, WFMin
<1>4. \A y \in S : ~(y < x)
  BY <1>2, <1>3
<1> QED
  BY <1>4

(***************************************************************************)
(* The built-in dissector.                                                 *)
(***************************************************************************)
\* Checks none of which fails give no error.
LEMMA NoFailure ==
  ASSUME NEW checks, \A i \in DOMAIN checks : ~checks[i][1]
  PROVE  FirstFailure(checks) = "OK"
  BY Zenon DEF FirstFailure

\* The header of a packet with ordinary lengths ends within the copied bytes.
LEMMA OrdinaryHeader ==
  ASSUME NEW p \in QuicPackets, Ordinary(p)
  PROVE  parse_quic_fast(p) = "OK" /\ quic_parse_hdr(p) = "OK"
<1>1. /\ p.form = "initial" /\ p.version = 1
      /\ p.len \in Nat /\ p.len >= 1200 /\ p.linear \in Nat
      /\ p.dcid_len \in 8 .. 20 /\ p.scid_len \in 0 .. 20
      /\ p.token_len \in 0 .. 64
      /\ p.token_width \in 1 .. 8 /\ p.length_width \in 1 .. 8
  <2>1. /\ p.form = "initial" /\ p.version = 1 /\ p.len >= 1200
        /\ p.dcid_len \in 8 .. 20 /\ p.scid_len \in 0 .. 20 /\ p.token_len <= 64
    BY DEF Ordinary
  <2>2. /\ p.len \in Nat /\ p.linear \in 0 .. p.len /\ p.token_len \in Nat
        /\ p.token_width \in {1, 2, 4, 8} /\ p.length_width \in {1, 2, 4, 8}
    BY PacketAssumption, Zenon
  <2> QED
    BY <2>1, <2>2
<1>2. parse_quic_fast(p) = "OK"
  <2> DEFINE c == <<
        <<p.len < MIN_QUIC_LEN, "SANITY">>,
        <<8 + MIN_QUIC_LEN > p.linear /\ p.len < 8 + MIN_QUIC_LEN, "LOAD">>,
        <<p.form # "short" /\ (p.dcid_len < 8 \/ p.dcid_len > 20), "SANITY">> >>
  <2>1. DOMAIN c = 1 .. 3
    OBVIOUS
  <2>2. /\ ~(p.len < MIN_QUIC_LEN) /\ ~(p.len < 8 + MIN_QUIC_LEN)
        /\ ~(p.dcid_len < 8) /\ ~(p.dcid_len > 20)
    BY <1>1 DEF MIN_QUIC_LEN
  <2>3. ~c[1][1] /\ ~c[2][1] /\ ~c[3][1]
    BY <2>2, Zenon
  <2> HIDE DEF c
  <2>4. \A i \in DOMAIN c : ~c[i][1]
    BY <2>1, <2>3
  <2>5. FirstFailure(c) = "OK"
    BY <2>4, NoFailure
  <2> QED
    BY <2>5, Zenon DEF parse_quic_fast, c
<1>3. quic_parse_hdr(p) = "OK"
  <2>1. PICK end \in Nat : end = HeaderEnd(p) /\ end >= 192
    BY <1>1 DEF HeaderEnd, Copied, AtMost, HDR_LINEAR
  <2>2. /\ TokenAt(p) \in 0 .. 55 /\ LengthAt(p) \in 0 .. 127
        /\ PnoAt(p) \in 0 .. 135
    <3>1. TokenAt(p) \in 0 .. 55
      BY <1>1 DEF TokenAt
    <3>2. LengthAt(p) \in 0 .. 127
      BY <1>1, <3>1 DEF LengthAt
    <3>3. PnoAt(p) \in 0 .. 135
      BY <1>1, <3>2 DEF PnoAt
    <3> QED
      BY <3>1, <3>2, <3>3
  <2> DEFINE c == <<
        <<13 > end, "LOAD">>,
        <<p.version # 1, "BADINSTR">>,
        <<14 > end, "LOAD">>,
        <<p.dcid_len < 8 \/ p.dcid_len > 20, "SANITY">>,
        <<15 + p.dcid_len > end, "LOAD">>,
        <<TokenAt(p) + 8 > end, "LOAD">>,
        <<p.token_len > 255, "SANITY">>,
        <<LengthAt(p) + 8 > end, "LOAD">>,
        <<PnoAt(p) + 20 >= end, "LOAD">> >>
  <2>3. DOMAIN c = 1 .. 9
    OBVIOUS
  <2>4. /\ ~(13 > end) /\ ~(14 > end) /\ ~(p.dcid_len < 8) /\ ~(p.dcid_len > 20)
        /\ ~(15 + p.dcid_len > end) /\ ~(TokenAt(p) + 8 > end) /\ ~(p.token_len > 255)
        /\ ~(LengthAt(p) + 8 > end) /\ ~(PnoAt(p) + 20 >= end) /\ p.version = 1
    BY <1>1, <2>1, <2>2
  <2>5. ~c[1][1] /\ ~c[3][1]
    BY <2>4, Zenon
  <2>6. ~c[2][1]
    BY <2>4, Zenon
  <2>7. ~c[4][1] /\ ~c[5][1] /\ ~c[6][1] /\ ~c[7][1] /\ ~c[8][1] /\ ~c[9][1]
    BY <2>4, Zenon
  <2> HIDE DEF c
  <2>8. \A i \in DOMAIN c : ~c[i][1]
    BY <2>3, <2>5, <2>6, <2>7
  <2>9. FirstFailure(c) = "OK"
    BY <2>8, NoFailure
  <2> QED
    BY <2>1, <2>9, Zenon DEF quic_parse_hdr, c
<1> QED
  BY <1>2, <1>3

\* The page holds the whole body of a packet that fits.
LEMMA DecryptedBody ==
  ASSUME NEW p, p.body \in Seq(Cells), Len(p.body) <= BUF,
         NEW pg \in Decrypted(p), NEW i \in 1 .. Len(p.body)
  PROVE  pg[i] = p.body[i]
<1>1. AtMost(Len(p.body), BUF) = Len(p.body) /\ Len(p.body) \in Nat /\ i \in 1 .. BUF
  BY QuicAssumption DEF AtMost
<1> QED
  BY <1>1 DEF Decrypted

\* Of a whole ClientHello, what is extracted is the name it asks for.
LEMMA OwnName ==
  ASSUME NEW p \in QuicPackets, Whole(p), NEW pg \in Decrypted(p),
         NEW h \in client_hello(pg)
  PROVE  h = Hello("OK", ServerName(p))
<1> DEFINE n == p.body[2].n
           kindAt(i) == p.body[2 + i].kind
           named == {i \in 1 .. n : Extensions(p)[i].kind = "sni"}
           walked == 1 .. AtMost(pg[2].n, MAX_EXTENSIONS)
           decides == {i \in walked : 2 + i > BUF \/ pg[2 + i].kind # "other"}
           first == CHOOSE i \in decides : \A j \in decides : i <= j
           cell == pg[2 + first]
<1>1. /\ p.body \in Seq(Cells) /\ Len(p.body) \in 2 .. BUF /\ n \in Nat
      /\ 2 + n <= Len(p.body) /\ n <= MAX_EXTENSIONS
      /\ BUF \in Nat /\ MAX_EXTENSIONS \in Nat /\ SNI_CELLS \in Nat
  <2>1. p.body \in Seq(Cells)
    BY PacketAssumption, Zenon
  <2>2. /\ Len(p.body) \in 2 .. BUF /\ 2 + n <= Len(p.body)
        /\ n <= MAX_EXTENSIONS
    BY Zenon DEF Whole
  <2>3. BUF \in Nat /\ MAX_EXTENSIONS \in Nat /\ SNI_CELLS \in Nat
    BY QuicAssumption
  <2>4. p.body[2] \in Cells
    BY <2>1, <2>2, <2>3
  <2>5. n \in Nat
    BY <2>4 DEF Cells
  <2> QED
    BY <2>1, <2>2, <2>3, <2>5
<1>2. \A i \in 1 .. Len(p.body) : pg[i] = p.body[i]
  BY <1>1, DecryptedBody
<1>3. pg[1].kind = "crypto" /\ pg[2].kind = "hello" /\ walked = 1 .. n
  BY <1>1, <1>2 DEF Whole, AtMost
<1>4. \A i \in 1 .. n : /\ 2 + i <= BUF /\ pg[2 + i] = p.body[2 + i]
                        /\ Extensions(p)[i] = p.body[2 + i]
  <2>1. TAKE i \in 1 .. n
  <2>2. 2 + i \in 1 .. Len(p.body) /\ 2 + i <= BUF
    BY <1>1
  <2>3. Extensions(p)[i] = p.body[2 + i]
    BY <1>1 DEF Extensions
  <2> QED
    BY <1>2, <2>2, <2>3
<1>5. \A i \in 1 .. n : \/ kindAt(i) = "other"
                        \/ kindAt(i) = "sni" /\ 1 + i + SNI_CELLS <= BUF
  <2>1. TAKE i \in 1 .. n
  <2>2. 2 + i \in 3 .. 2 + n
    BY <1>1
  <2>3. \/ p.body[2 + i].kind = "other"
        \/ p.body[2 + i].kind = "sni" /\ (2 + i) + SNI_CELLS - 1 <= BUF
    BY <2>2 DEF Whole
  <2> QED
    BY <1>1, <2>3
<1>6. decides = named
  <2>1. decides = {i \in 1 .. n : 2 + i > BUF \/ pg[2 + i].kind # "other"}
    BY <1>3, Zenon
  <2>2. \A i \in 1 .. n : ~(2 + i > BUF)
    BY <1>1, <1>4
  <2>3. \A i \in 1 .. n : (2 + i > BUF \/ pg[2 + i].kind # "other")
                            <=> Extensions(p)[i].kind = "sni"
    BY <1>4, <1>5, <2>2, Zenon
  <2> QED
    BY <2>1, <2>3, Zenon
<1>7. CASE named = {}
  <2>1. ServerName(p) = <<>>
    BY <1>7 DEF ServerName
  <2>2. client_hello(pg) = {Hello("OK", <<>>)}
    BY <1>3, <1>6, <1>7 DEF client_hello
  <2> QED
    BY <2>1, <2>2
<1>8. CASE named # {}
  <2>1. first \in named
    <3>1. \E i \in named : \A j \in named : i <= j
      <4>1. named \in SUBSET Nat
        OBVIOUS
      <4> QED
        BY <1>8, <4>1, LeastOfSet, Zenon
    <3> QED
      BY <1>6, <3>1
  <2>2. ServerName(p) = Extensions(p)[first].name
    BY <1>6, <1>8 DEF ServerName
  <2>3. /\ 2 + first <= BUF /\ cell = Extensions(p)[first] /\ cell.kind = "sni"
        /\ 1 + first + SNI_CELLS <= BUF /\ first \in Nat
    <3>1. first \in 1 .. n /\ Extensions(p)[first].kind = "sni"
      BY <2>1, Zenon
    <3> HIDE DEF first
    <3>2. /\ 2 + first <= BUF /\ cell = p.body[2 + first]
          /\ Extensions(p)[first] = p.body[2 + first]
      BY <1>4, <3>1, Zenon
    <3>3. kindAt(first) # "other"
      BY <3>1, <3>2
    <3>4. 1 + first + SNI_CELLS <= BUF
      BY <1>5, <3>1, <3>3, Zenon
    <3>5. first \in Nat
      BY <1>1, <3>1
    <3> QED
      BY <3>1, <3>2, <3>4, <3>5
  <2>4. client_hello(pg) = {Hello("OK", cell.name)}
    <3>1. ~(2 + first > BUF) /\ ~(1 + first + SNI_CELLS > BUF)
      BY <1>1, <2>3
    <3>2. decides # {}
      BY <1>6, <1>8
    <3> HIDE DEF first, decides
    <3> QED
      BY <1>3, <2>3, <3>1, <3>2 DEF client_hello, first, decides
  <2> QED
    BY <2>2, <2>3, <2>4
<1> QED
  BY <1>7, <1>8

\* The packet of the last run, and what became of it.
QuicInv ==
  /\ handled > 0 => quic \in QuicPackets \cup {NoQuic}
  /\ OrdinaryInitialParsed
  /\ DispatchedByOwnName

\* A packet leaves nothing of the packets before it in the verdict.
LEMMA BespokeStep ==
  ASSUME NEW p \in QuicPackets, RunBespoke(p)
  PROVE  QuicInv'
<1>1. quic' = p
  BY DEF RunBespoke
<1>2. OrdinaryInitialParsed'
  <2> SUFFICES ASSUME Ordinary(p) PROVE retcode' = "OK"
    BY <1>1 DEF OrdinaryInitialParsed
  <2>1. parse_quic_fast(p) = "OK" /\ quic_parse_hdr(p) = "OK"
    BY OrdinaryHeader
  <2> QED
    BY <2>1 DEF RunBespoke
<1>3. DispatchedByOwnName'
  <2> SUFFICES ASSUME p.form = "initial", retcode' = "OK", p.load = "OK", Whole(p)
               PROVE  retval' = IF ServerName(p) = <<>> THEN ByDcid(p)
                                ELSE BySni(Overlay(ServerName(p), NoName))
    BY <1>1 DEF DispatchedByOwnName
  <2>1. ExtractSni(p)
    BY DEF RunBespoke
  <2>2. PICK pg \in Decrypted(p) : \E h \in client_hello(pg) :
          /\ sni' = Overlay(h.name, ClearSni(sni))
          /\ retval' = IF h.code = "OK" /\ h.name # <<>>
                       THEN BySni(sni') ELSE ByDcid(p)
    BY <2>1 DEF ExtractSni
  <2>3. PICK h \in client_hello(pg) :
          /\ sni' = Overlay(h.name, ClearSni(sni))
          /\ retval' = IF h.code = "OK" /\ h.name # <<>>
                       THEN BySni(sni') ELSE ByDcid(p)
    BY <2>2
  <2>4. h.code = "OK" /\ h.name = ServerName(p)
    BY OwnName DEF Hello
  <2>5. sni' = Overlay(ServerName(p), NoName)
    BY <2>3, <2>4 DEF ClearSni
  <2> QED
    BY <2>3, <2>4, <2>5
<1> QED
  BY <1>1, <1>2, <1>3 DEF QuicInv

\* Every action keeps it: a packet by BespokeStep, and a filter has no packets.
LEMMA QuicStep ==
  ASSUME LoopInv, QuicInv, [Next]_vars
  PROVE  QuicInv'
<1>1. ASSUME UNCHANGED <<handled, quic>>, UNCHANGED <<retcode, retval>> \/ handled = 0
      PROVE  QuicInv'
  BY <1>1 DEF QuicInv, OrdinaryInitialParsed, DispatchedByOwnName
<1>2. CASE Skip \/ Sanity \/ Interpret \/ LoopEnds
  <2>1. stage = "loop" /\ UNCHANGED <<handled, quic>>
    BY <1>2 DEF Skip, Sanity, Interpret, LoopEnds, quicVars
  <2>2. handled = 0
    BY <2>1 DEF LoopInv
  <2> QED
    BY <1>1, <2>1, <2>2
<1>3. ASSUME NEW p \in QuicPackets, RunBespoke(p) PROVE QuicInv'
  BY <1>3, BespokeStep
<1>4. CASE RunOther
  <2>1. quic' = NoQuic
    BY <1>4 DEF RunOther, LoopInv
  <2> QED
    BY <2>1 DEF QuicInv, OrdinaryInitialParsed, DispatchedByOwnName, Ordinary, NoQuic
<1>5. CASE UNCHANGED vars
  BY <1>1, <1>5 DEF vars, quicVars
<1> QED
  BY <1>2, <1>3, <1>4, <1>5 DEF Next

\* So it holds between any two packets.
LEMMA QuicInvariance == Spec => []QuicInv
<1>1. Init => QuicInv
  BY DEF Init, QuicInv, OrdinaryInitialParsed, DispatchedByOwnName
<1> QED
  BY <1>1, QuicStep, LoopInvariance, PTL DEF Spec

\* quic_parse_hdr (ebpf_quic.c:529-640) understands the header of every Initial
\* packet with ordinary lengths, in the packet or in the copy of its first bytes.
THEOREM OrdinaryInitialsParsed == Spec => []OrdinaryInitialParsed
<1>1. QuicInv => OrdinaryInitialParsed
  BY DEF QuicInv
<1> QED
  BY <1>1, QuicInvariance, PTL

\* run_0xDEAD (ebpf_bespoke.c:147-217) dispatches a packet with a whole ClientHello
\* by its own server name, whatever is left of earlier packets in the scratch page.
THEOREM EachByItsOwnName == Spec => []DispatchedByOwnName
<1>1. QuicInv => DispatchedByOwnName
  BY DEF QuicInv
<1> QED
  BY <1>1, QuicInvariance, PTL

\* The weights of the bits of a byte.
Weights == {1, 2, 4, 8, 16, 32, 64, 128}

\* A bit that is flipped adds its weight to a byte or takes it away.
LEMMA FlipOfByte ==
  ASSUME NEW a \in Bits, NEW w \in Weights
  PROVE  \E k \in 0 .. 7 : Byte(Flipped(a, k)) = FlipBit(Byte(a), w)
<1>1. /\ a[0] \in 0 .. 1 /\ a[1] \in 0 .. 1 /\ a[2] \in 0 .. 1 /\ a[3] \in 0 .. 1
      /\ a[4] \in 0 .. 1 /\ a[5] \in 0 .. 1 /\ a[6] \in 0 .. 1 /\ a[7] \in 0 .. 1
  BY DEF Bits
<1>2. CASE w = 1
  <2>1. Byte(Flipped(a, 0)) = Byte(a) + 1 - 2 * a[0]
    BY <1>1 DEF Bits, Byte, Flipped
  <2>2. Bit(Byte(a), 1) = a[0] /\ Byte(a) \in 0 .. 255
    BY BitsOfByte
  <2>3. Byte(Flipped(a, 0)) = IF a[0] = 0 THEN Byte(a) + 1 ELSE Byte(a) - 1
    BY <1>1, <2>1, <2>2
  <2>4. Byte(Flipped(a, 0)) = FlipBit(Byte(a), w)
    BY <1>2, <2>2, <2>3 DEF FlipBit
  <2> QED
    BY <2>4
<1>3. CASE w = 2
  <2>1. Byte(Flipped(a, 1)) = Byte(a) + 2 - 4 * a[1]
    BY <1>1 DEF Bits, Byte, Flipped
  <2>2. Bit(Byte(a), 2) = a[1] /\ Byte(a) \in 0 .. 255
    BY BitsOfByte
  <2>3. Byte(Flipped(a, 1)) = IF a[1] = 0 THEN Byte(a) + 2 ELSE Byte(a) - 2
    BY <1>1, <2>1, <2>2
  <2>4. Byte(Flipped(a, 1)) = FlipBit(Byte(a), w)
    BY <1>3, <2>2, <2>3 DEF FlipBit
  <2> QED
    BY <2>4
<1>4. CASE w = 4
  <2>1. Byte(Flipped(a, 2)) = Byte(a) + 4 - 8 * a[2]
    BY <1>1 DEF Bits, Byte, Flipped
  <2>2. Bit(Byte(a), 4) = a[2] /\ Byte(a) \in 0 .. 255
    BY BitsOfByte
  <2>3. Byte(Flipped(a, 2)) = IF a[2] = 0 THEN Byte(a) + 4 ELSE Byte(a) - 4
    BY <1>1, <2>1, <2>2
  <2>4. Byte(Flipped(a, 2)) = FlipBit(Byte(a), w)
    BY <1>4, <2>2, <2>3 DEF FlipBit
  <2> QED
    BY <2>4
<1>5. CASE w = 8
  <2>1. Byte(Flipped(a, 3)) = Byte(a) + 8 - 16 * a[3]
    BY <1>1 DEF Bits, Byte, Flipped
  <2>2. Bit(Byte(a), 8) = a[3] /\ Byte(a) \in 0 .. 255
    BY BitsOfByte
  <2>3. Byte(Flipped(a, 3)) = IF a[3] = 0 THEN Byte(a) + 8 ELSE Byte(a) - 8
    BY <1>1, <2>1, <2>2
  <2>4. Byte(Flipped(a, 3)) = FlipBit(Byte(a), w)
    BY <1>5, <2>2, <2>3 DEF FlipBit
  <2> QED
    BY <2>4
<1>6. CASE w = 16
  <2>1. Byte(Flipped(a, 4)) = Byte(a) + 16 - 32 * a[4]
    BY <1>1 DEF Bits, Byte, Flipped
  <2>2. Bit(Byte(a), 16) = a[4] /\ Byte(a) \in 0 .. 255
    BY BitsOfByte
  <2>3. Byte(Flipped(a, 4)) = IF a[4] = 0 THEN Byte(a) + 16 ELSE Byte(a) - 16
    BY <1>1, <2>1, <2>2
  <2>4. Byte(Flipped(a, 4)) = FlipBit(Byte(a), w)
    BY <1>6, <2>2, <2>3 DEF FlipBit
  <2> QED
    BY <2>4
<1>7. CASE w = 32
  <2>1. Byte(Flipped(a, 5)) = Byte(a) + 32 - 64 * a[5]
    BY <1>1 DEF Bits, Byte, Flipped
  <2>2. Bit(Byte(a), 32) = a[5] /\ Byte(a) \in 0 .. 255
    BY BitsOfByte
  <2>3. Byte(Flipped(a, 5)) = IF a[5] = 0 THEN Byte(a) + 32 ELSE Byte(a) - 32
    BY <1>1, <2>1, <2>2
  <2>4. Byte(Flipped(a, 5)) = FlipBit(Byte(a), w)
    BY <1>7, <2>2, <2>3 DEF FlipBit
  <2> QED
    BY <2>4
<1>8. CASE w = 64
  <2>1. Byte(Flipped(a, 6)) = Byte(a) + 64 - 128 * a[6]
    BY <1>1 DEF Bits, Byte, Flipped
  <2>2. Bit(Byte(a), 64) = a[6] /\ Byte(a) \in 0 .. 255
    BY BitsOfByte
  <2>3. Byte(Flipped(a, 6)) = IF a[6] = 0 THEN Byte(a) + 64 ELSE Byte(a) - 64
    BY <1>1, <2>1, <2>2
  <2>4. Byte(Flipped(a, 6)) = FlipBit(Byte(a), w)
    BY <1>8, <2>2, <2>3 DEF FlipBit
  <2> QED
    BY <2>4
<1>9. CASE w = 128
  <2>1. Byte(Flipped(a, 7)) = Byte(a) + 128 - 256 * a[7]
    BY <1>1 DEF Bits, Byte, Flipped
  <2>2. Bit(Byte(a), 128) = a[7] /\ Byte(a) \in 0 .. 255
    BY BitsOfByte
  <2>3. Byte(Flipped(a, 7)) = IF a[7] = 0 THEN Byte(a) + 128 ELSE Byte(a) - 128
    BY <1>1, <2>1, <2>2
  <2>4. Byte(Flipped(a, 7)) = FlipBit(Byte(a), w)
    BY <1>9, <2>2, <2>3 DEF FlipBit
  <2> QED
    BY <2>4
<1> QED
  BY <1>2, <1>3, <1>4, <1>5, <1>6, <1>7, <1>8, <1>9 DEF Weights

\* Two bytes make a number.
Octets == 0 .. 255
Two(x, y) == x + 256 * y

\* Its low bits are those of one byte.
LEMMA LowBits ==
  ASSUME NEW x \in Octets, NEW y \in Octets, NEW w \in Weights
  PROVE  Bit(Two(x, y), w) = Bit(x, w)
<1>1. CASE w = 1
  <2>1. Bit(x + 256 * y, 1) = Bit(x, 1)
    BY DEF Bit, Octets
  <2> QED
    BY <1>1, <2>1 DEF Two
<1>2. CASE w = 2
  <2>1. Bit(x + 256 * y, 2) = Bit(x, 2)
    BY DEF Bit, Octets
  <2> QED
    BY <1>2, <2>1 DEF Two
<1>3. CASE w = 4
  <2>1. Bit(x + 256 * y, 4) = Bit(x, 4)
    BY DEF Bit, Octets
  <2> QED
    BY <1>3, <2>1 DEF Two
<1>4. CASE w = 8
  <2>1. Bit(x + 256 * y, 8) = Bit(x, 8)
    BY DEF Bit, Octets
  <2> QED
    BY <1>4, <2>1 DEF Two
<1>5. CASE w = 16
  <2>1. Bit(x + 256 * y, 16) = Bit(x, 16)
    BY DEF Bit, Octets
  <2> QED
    BY <1>5, <2>1 DEF Two
<1>6. CASE w = 32
  <2>1. Bit(x + 256 * y, 32) = Bit(x, 32)
    BY DEF Bit, Octets
  <2> QED
    BY <1>6, <2>1 DEF Two
<1>7. CASE w = 64
  <2>1. Bit(x + 256 * y, 64) = Bit(x, 64)
    BY DEF Bit, Octets
  <2> QED
    BY <1>7, <2>1 DEF Two
<1>8. CASE w = 128
  <2>1. Bit(x + 256 * y, 128) = Bit(x, 128)
    BY DEF Bit, Octets
  <2> QED
    BY <1>8, <2>1 DEF Two
<1> QED
  BY <1>1, <1>2, <1>3, <1>4, <1>5, <1>6, <1>7, <1>8 DEF Weights

\* Its high bits are those of one byte.
LEMMA HighBits ==
  ASSUME NEW x \in Octets, NEW y \in Octets, NEW w \in Weights
  PROVE  Bit(Two(x, y), Two(0, w)) = Bit(y, w)
<1>1. CASE w = 1
  <2>1. Bit(x + 256 * y, 256) = Bit(y, 1)
    BY DEF Bit, Octets
  <2> QED
    BY <1>1, <2>1 DEF Two
<1>2. CASE w = 2
  <2>1. Bit(x + 256 * y, 512) = Bit(y, 2)
    BY DEF Bit, Octets
  <2> QED
    BY <1>2, <2>1 DEF Two
<1>3. CASE w = 4
  <2>1. Bit(x + 256 * y, 1024) = Bit(y, 4)
    BY DEF Bit, Octets
  <2> QED
    BY <1>3, <2>1 DEF Two
<1>4. CASE w = 8
  <2>1. Bit(x + 256 * y, 2048) = Bit(y, 8)
    BY DEF Bit, Octets
  <2> QED
    BY <1>4, <2>1 DEF Two
<1>5. CASE w = 16
  <2>1. Bit(x + 256 * y, 4096) = Bit(y, 16)
    BY DEF Bit, Octets
  <2> QED
    BY <1>5, <2>1 DEF Two
<1>6. CASE w = 32
  <2>1. Bit(x + 256 * y, 8192) = Bit(y, 32)
    BY DEF Bit, Octets
  <2> QED
    BY <1>6, <2>1 DEF Two
<1>7. CASE w = 64
  <2>1. Bit(x + 256 * y, 16384) = Bit(y, 64)
    BY DEF Bit, Octets
  <2> QED
    BY <1>7, <2>1 DEF Two
<1>8. CASE w = 128
  <2>1. Bit(x + 256 * y, 32768) = Bit(y, 128)
    BY DEF Bit, Octets
  <2> QED
    BY <1>8, <2>1 DEF Two
<1> QED
  BY <1>1, <1>2, <1>3, <1>4, <1>5, <1>6, <1>7, <1>8 DEF Weights

\* A bit that is flipped in a byte is flipped in the number.
LEMMA FlipLow ==
  ASSUME NEW x \in Octets, NEW y \in Octets, NEW w \in Weights
  PROVE  FlipBit(Two(x, y), w) = Two(FlipBit(x, w), y)
<1>1. Bit(Two(x, y), w) = Bit(x, w) /\ w \in Nat
  BY LowBits DEF Weights
<1> QED
  BY <1>1 DEF FlipBit, Two, Octets

\* A flipped bit above the first byte changes the second byte only.
LEMMA FlipHigh ==
  ASSUME NEW x \in Octets, NEW y \in Octets, NEW w \in Weights
  PROVE  FlipBit(Two(x, y), Two(0, w)) = Two(x, FlipBit(y, w))
<1>1. Bit(Two(x, y), Two(0, w)) = Bit(y, w) /\ w \in Nat
  BY HighBits DEF Weights
<1> QED
  BY <1>1 DEF FlipBit, Two, Octets

\* A flipped bit of a cookie is one of its low or of its high byte.
LEMMA FlipOfWord ==
  ASSUME NEW l \in Bits, NEW h \in Bits, NEW f \in Flips
  PROVE  \E k \in 0 .. 7 : \/ FlipBit(Word(l, h), f) = Word(Flipped(l, k), h)
                           \/ FlipBit(Word(l, h), f) = Word(l, Flipped(h, k))
<1>1. Byte(l) \in Octets /\ Byte(h) \in Octets
  BY BitsOfByte DEF Octets
<1>2. \A a, b : Word(a, b) = Two(Byte(a), Byte(b))
  BY Zenon DEF Word, Two
<1>3. f \in Weights \/ \E w \in Weights : f = Two(0, w)
  BY DEF Flips, Weights, Two
<1>4. CASE f \in Weights
  <2>1. PICK k \in 0 .. 7 : Byte(Flipped(l, k)) = FlipBit(Byte(l), f)
    BY <1>4, FlipOfByte
  <2>2. FlipBit(Word(l, h), f) = Word(Flipped(l, k), h)
    BY <1>1, <1>2, <1>4, <2>1, FlipLow, Zenon
  <2> QED
    BY <2>2
<1>5. ASSUME NEW w \in Weights, f = Two(0, w)
      PROVE  \E k \in 0 .. 7 : FlipBit(Word(l, h), f) = Word(l, Flipped(h, k))
  <2>1. PICK k \in 0 .. 7 : Byte(Flipped(h, k)) = FlipBit(Byte(h), w)
    BY FlipOfByte
  <2>2. FlipBit(Word(l, h), f) = Word(l, Flipped(h, k))
    BY <1>1, <1>2, <1>5, <2>1, FlipHigh, Zenon
  <2> QED
    BY <2>2
<1> QED
  BY <1>3, <1>4, <1>5

(***************************************************************************)
(* The filter of the README.                                               *)
(***************************************************************************)
\* What a client sends that was given a cookie.
CarriesCookie(s) ==
  /\ s.gen \in 0 .. 31 /\ s.idx \in 0 .. 255 /\ s.flip \in Flips \cup {0}
  /\ s.bytes \in Seq(0 .. 255) /\ Len(s.bytes) >= UdpHdr + 2
  /\ s.bytes[UdpHdr + 1] = Sent(s) \div 256
  /\ s.bytes[UdpHdr + 2] = Sent(s) % 256

\* What is sent has 16 bits, and a right checksum only if it is the cookie.
LEMMA SentIsSeen ==
  ASSUME NEW s, CarriesCookie(s)
  PROVE  /\ Sent(s) \in Nat /\ Sent(s) < 256 * 256
         /\ IF s.flip = 0
            THEN /\ ChecksumOk(Sent(s))
                 /\ SockGen(Sent(s)) = s.gen /\ SockIdx(Sent(s)) = s.idx
            ELSE ~ChecksumOk(Sent(s))
<1> DEFINE c == grm_cookie_pack(s.gen, s.idx)
<1>1. s.gen \in 0 .. 31 /\ s.idx \in 0 .. 255 /\ s.flip \in Flips \cup {0}
  BY DEF CarriesCookie
<1>2. s.gen \in Nat /\ s.idx \in Nat /\ s.gen % 32 = s.gen /\ s.idx % 256 = s.idx
  BY <1>1
<1>3. /\ ChecksumOk(c) /\ SockGen(c) = s.gen /\ SockIdx(c) = s.idx
      /\ c < 256 * 256
  BY <1>2, CookieRoundTrip
<1>4. c \in Nat
  <2>1. GRM_COOKIE_CS(s.gen, s.idx) \in 0 .. 7
    BY <1>2, ChecksumFits
  <2> QED
    BY <1>2, <2>1 DEF grm_cookie_pack
<1> HIDE DEF c
<1>5. CASE s.flip = 0
  <2>1. Sent(s) = c
    BY <1>5 DEF Sent, c
  <2> QED
    BY <1>3, <1>4, <1>5, <2>1
<1>6. CASE s.flip \in Flips
  <2>1. PICK l, h \in Bits : c = Word(l, h)
    BY <1>3, <1>4, WordHasBits
  <2>2. s.flip # 0
    BY <1>6 DEF Flips
  <2>3. Sent(s) = FlipBit(Word(l, h), s.flip)
    BY <2>1, <2>2 DEF Sent, c
  <2>4. PICK k \in 0 .. 7 : \/ FlipBit(Word(l, h), s.flip) = Word(Flipped(l, k), h)
                            \/ FlipBit(Word(l, h), s.flip) = Word(l, Flipped(h, k))
    BY <1>6, FlipOfWord
  <2>5. Sent(s) = Word(Flipped(l, k), h) \/ Sent(s) = Word(l, Flipped(h, k))
    BY <2>3, <2>4, Zenon
  <2>6. ~ChecksumOk(Sent(s))
    BY <1>3, <2>1, <2>5, FlippedBitIsSeen, Zenon
  <2>7. Flipped(l, k) \in Bits /\ Flipped(h, k) \in Bits
    BY DEF Flipped, Bits
  <2>8. \A a, b \in Bits : Word(a, b) \in Nat /\ Word(a, b) < 256 * 256
    <3>1. TAKE a, b \in Bits
    <3>2. PICK x \in 0 .. 255 : x = Byte(a)
      BY BitsOfByte
    <3>3. PICK y \in 0 .. 255 : y = Byte(b)
      BY BitsOfByte
    <3>4. x + 256 * y \in Nat /\ x + 256 * y < 256 * 256
      OBVIOUS
    <3> QED
      BY <3>2, <3>3, <3>4 DEF Word
  <2>9. Sent(s) \in Nat /\ Sent(s) < 256 * 256
    BY <2>5, <2>7, <2>8
  <2> QED
    BY <2>2, <2>6, <2>9
<1> QED
  BY <1>1, <1>5, <1>6

\* The filter loads what was sent, and returns it.
LEMMA CookieLoaded ==
  ASSUME NEW s, CarriesCookie(s), NEW o \in Exec(CookieFilter[1], ZeroRegs, s.bytes)
  PROVE  o.code = "run" /\ o.regs.A = Sent(s)
<1> DEFINE f == CookieFilter[1]
           r == ZeroRegs
           p == s.bytes
<1>1. f.op = "ld_abs" /\ f.src = "K" /\ f.w = 2 /\ f.k = 0
  BY CookieAssumption, Zenon
<1>2. From(f, r) = 8
  <2>1. 8 % WordMod = 8
    BY WordModAssumption
  <2> QED
    BY <1>1, <2>1 DEF From, Wrap, UdpHdr
<1>3. Len(p) \in Nat /\ Len(p) >= 10
  BY DEF CarriesCookie, UdpHdr
<1>4. Loads(f, r, p)
  BY <1>1, <1>2, <1>3 DEF Loads
<1>5. PICK n \in Nat : n = Sent(s) /\ n < 256 * 256
  BY SentIsSeen
<1>6. p[9] = n \div 256 /\ p[10] = n % 256
  BY <1>5 DEF CarriesCookie, UdpHdr
<1>7. n = 256 * (n \div 256) + (n % 256)
  OBVIOUS
<1>8. n % WordMod = n
  BY <1>5, WordModAssumption
<1>9. Append8(p[9], p[10]) = n
  BY <1>6, <1>7, <1>8 DEF Append8, Wrap
<1>10. Loaded(f, r, p) = Append8(p[9], p[10])
  BY <1>1, <1>2 DEF Loaded
<1>11. f.k # SKF_AD_PROTOCOL
  BY <1>1, WordModAssumption DEF SKF_AD_PROTOCOL
<1>12. Exec(f, r, p) = {Goes([r EXCEPT !.A = Loaded(f, r, p)], 0)}
  <2>1. ~Unknown(f)
    BY <1>1 DEF Unknown
  <2> QED
    BY <1>1, <1>4, <1>11, <2>1 DEF Exec, MoveOps, JmpOps, AluOps, LoadOps
<1>13. o = Goes([r EXCEPT !.A = n], 0)
  BY <1>9, <1>10, <1>12
<1> QED
  BY <1>5, <1>13 DEF Goes, ZeroRegs

\* The second instruction returns what the first one has loaded.
LEMMA CookieReturned ==
  ASSUME NEW r, NEW p, NEW o \in Exec(CookieFilter[2], r, p)
  PROVE  o.code = "OK" /\ o.val = r.A
<1> DEFINE f == CookieFilter[2]
<1>1. f.op = "ret" /\ f.src = "A"
  BY CookieAssumption, Zenon
<1>2. ~Unknown(f)
  BY <1>1 DEF Unknown
<1>3. Exec(f, r, p) = {Stops(r, "OK", r.A)}
  BY <1>1, <1>2 DEF Exec, MoveOps, JmpOps, AluOps, LoadOps
<1> QED
  BY <1>3 DEF Stops

\* A group with the filter of the README loads what was sent, then returns it.
CookieInv ==
  filter = CookieFilter =>
    /\ CarriesCookie(skb) /\ next_index = 0
    /\ stage = "loop" => \/ index = 0 /\ regs = ZeroRegs
                         \/ index = 1 /\ regs.A = Sent(skb)
    /\ stage = "done" => retcode = "OK" /\ retval = Sent(skb)
    /\ stage # "idle"

\* Before the first instruction nothing is loaded.
LEMMA CookieInvInit == Init => CookieInv
<1> SUFFICES ASSUME Init, filter = CookieFilter
             PROVE  /\ CarriesCookie(skb) /\ next_index = 0 /\ stage = "loop"
                    /\ index = 0 /\ regs = ZeroRegs
  BY DEF CookieInv
<1>1. filter # <<>>
  <2>1. Len(CookieFilter) = 2 /\ Len(<<>>) = 0
    BY CookieAssumption
  <2> QED
    BY <2>1
<1>2. PICK input \in Inputs : filter = input.filter /\ skb = input.skb
  BY <1>1 DEF Init
<1>3. CarriesCookie(skb)
  BY <1>2, CookieAssumption, FilterAssumption DEF CarriesCookie
<1> QED
  BY <1>1, <1>3 DEF Init

\* The first instruction loads the two bytes, the second returns them.
LEMMA CookieInvStep ==
  ASSUME LoopInv, CookieInv, [Next]_vars
  PROVE  CookieInv'
<1>0. Len(CookieFilter) = 2
  BY CookieAssumption
<1>1. CASE Skip
  BY <1>1 DEF CookieInv, Skip
<1>2. CASE Sanity
  <2>1. filter # CookieFilter
    BY <1>0, <1>2, WordAssumption DEF CookieInv, Sanity
  <2> QED
    BY <1>2, <2>1 DEF CookieInv, Sanity
<1>3. CASE Interpret
  <2> SUFFICES ASSUME filter = CookieFilter
               PROVE  CookieInv'
    BY <1>3 DEF CookieInv, Interpret
  <2>1. /\ UNCHANGED <<filter, skb>> /\ stage = "loop" /\ CarriesCookie(skb)
        /\ next_index = 0
    BY <1>3 DEF CookieInv, Interpret
  <2>2. CASE index = 0 /\ regs = ZeroRegs
    <3>1. PICK o \in Exec(CookieFilter[1], ZeroRegs, skb.bytes) :
            /\ regs' = o.regs
            /\ o.code = "run" =>
                 /\ index' = 1 /\ UNCHANGED stage
                 /\ CookieFilter[1].op \notin JmpOps => next_index' = next_index
            /\ o.code # "run" => stage' = "done"
      BY <1>3, <2>2 DEF Interpret
    <3>2. o.code = "run" /\ o.regs.A = Sent(skb)
      BY <2>1, CookieLoaded
    <3>3. CookieFilter[1].op \notin JmpOps
      BY CookieAssumption DEF JmpOps
    <3> QED
      BY <2>1, <3>1, <3>2, <3>3 DEF CookieInv
  <2>3. CASE index = 1 /\ regs.A = Sent(skb)
    <3>1. PICK o \in Exec(CookieFilter[2], regs, skb.bytes) :
            o.code # "run" => /\ stage' = "done" /\ retcode' = o.code
                              /\ retval' = o.val /\ next_index' = next_index
      BY <1>3, <2>3 DEF Interpret
    <3>2. o.code = "OK" /\ o.val = Sent(skb)
      BY <2>3, CookieReturned
    <3> QED
      BY <2>1, <3>1, <3>2 DEF CookieInv
  <2> QED
    BY <2>1, <2>2, <2>3 DEF CookieInv
<1>4. CASE LoopEnds
  <2>1. filter # CookieFilter
    BY <1>0, <1>4 DEF CookieInv, LoopEnds
  <2> QED
    BY <1>4, <2>1 DEF CookieInv, LoopEnds
<1>5. ASSUME NEW p \in QuicPackets, RunBespoke(p) PROVE CookieInv'
  <2>1. UNCHANGED <<filter, skb, stage, index, next_index, regs>>
    BY <1>5 DEF RunBespoke, loopVars
  <2>2. stage = "idle"
    BY <1>5 DEF LoopInv, RunBespoke
  <2> QED
    BY <2>1, <2>2 DEF CookieInv
<1>6. CASE RunOther
  <2>1. UNCHANGED <<filter, skb, stage, index, next_index, regs>>
    BY <1>6 DEF RunOther, loopVars
  <2>2. stage = "idle"
    BY <1>6 DEF LoopInv, RunOther, OtherDigest
  <2> QED
    BY <2>1, <2>2 DEF CookieInv
<1>7. CASE UNCHANGED vars
  BY <1>7 DEF CookieInv, vars, loopVars
<1> QED
  BY <1>1, <1>2, <1>3, <1>4, <1>5, <1>6, <1>7 DEF Next

\* A value of 16 bits is a cookie, good or bad.
LEMMA VerdictOfCookie ==
  ASSUME NEW n \in Nat, n < 256 * 256, retcode = "OK", retval = n
  PROVE  Verdict = IF ChecksumOk(n) THEN "cookie" ELSE "bad_cookie"
<1>1. PICK w \in Nat : w = WordMod /\ w >= 131072
  BY WordModAssumption
<1>2. PICK half \in Nat : half = Half /\ half >= 65536 /\ half + half <= w
  BY <1>1 DEF Half
<1>3. n - half + w \in 0 .. w - 1 /\ (n - half + w) % w = (n - half) % w
  BY <1>1, <1>2
<1>4. (n - half) % w = n - half + w
  BY <1>1, <1>2, <1>3
<1>5. AppIdx = n - half + w
  BY <1>1, <1>2, <1>4 DEF AppIdx, Wrap
<1>6. ~(AppIdx < max_apps)
  BY <1>1, <1>2, <1>5, DissectorAssumption
<1>7. ~(retval > 65535)
  OBVIOUS
<1> QED
  BY <1>6, <1>7 DEF Verdict

\* The cookie that getsockopt() gave for a slot comes back through dissector_cbpf
\* (ebpf.c:145-173) as that slot, and with a flipped bit as a bad cookie.
THEOREM CookiesRecovered == Spec => []CookieRecovered
<1>1. CookieInv => CookieRecovered
  <2> SUFFICES ASSUME CookieInv, filter = CookieFilter, stage = "done"
               PROVE  IF skb.flip = 0
                      THEN /\ Verdict = "cookie"
                           /\ SockGen(retval) = skb.gen /\ SockIdx(retval) = skb.idx
                      ELSE Verdict = "bad_cookie"
    BY DEF CookieRecovered
  <2>1. CarriesCookie(skb) /\ retcode = "OK" /\ retval = Sent(skb)
    BY DEF CookieInv
  <2> QED
    BY <2>1, SentIsSeen, VerdictOfCookie
<1> QED
  BY <1>1, CookieInvInit, CookieInvStep, LoopInvariance, PTL DEF Spec
=============================================================================
