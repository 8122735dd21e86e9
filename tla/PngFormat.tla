----------------------------- MODULE PngFormat -----------------------------
(***************************************************************************)
(* PNG and DEFLATE from the side of the program that writes the file, as   *)
(* the two documents define them that core/loader/png.cpp names in its     *)
(* first lines: prefix codes, tokens, blocks, row filters and chunks.      *)
(* Nothing here is taken from the loader; it is what the loader is         *)
(* compared with.                                                          *)
(*                                                                         *)
(* A prefix code is a function from the symbols that occur to the lengths  *)
(* of their codes.  A stream of bits is a sequence of 0 and 1.             *)
(***************************************************************************)
EXTENDS Integers, Sequences, SequencesExt, FiniteSetsExt

MinimumOf(m, n) == IF m < n THEN m ELSE n

(* The n bits of a number, lowest first; a code is written highest first.  *)
Bits(v, n) == [k \in 1 .. n |-> (v \div 2^(k - 1)) % 2]
CodeBits(v, n) == Reverse(Bits(v, n))

-----------------------------------------------------------------------------
(* Prefix codes *)

(* Codes are given out by length, and among equals by symbol: each takes   *)
(* the first place behind those before it.                                 *)
Code(lens, s) ==
  LET before == {t \in DOMAIN lens : lens[t] < lens[s] \/ (lens[t] = lens[s] /\ t < s)}
  IN  MapThenSumSet(LAMBDA t : 2^(lens[s] - lens[t]), before)

SymbolBits(lens, s) == CodeBits(Code(lens, s), lens[s])

(* Two ways to give lengths to the symbols that occur: as equal as can be, *)
(* or the next length for each one, if no length gets too long.            *)
Log2(n) == CHOOSE k \in 0 .. 9 : 2^k >= n /\ (k > 0 => 2^(k - 1) < n)

Lengths(used, shape, longest) ==
  LET n == Cardinality(used)
      short == 2^Log2(n) - n
      rank(s) == Cardinality({t \in used : t < s})
  IN  [s \in used |->
         IF n = 1 THEN 1
         ELSE IF shape = "even" \/ n > longest + 1
           THEN Log2(n) - (IF rank(s) < short THEN 1 ELSE 0)
         ELSE MinimumOf(rank(s) + 1, n - 1)]

(* The code both sides know without a header *)
FixedBits(s) ==
  IF s < 144 THEN CodeBits(48 + s, 8)
  ELSE IF s < 256 THEN CodeBits(400 + s - 144, 9)
  ELSE IF s < 280 THEN CodeBits(s - 256, 7)
  ELSE CodeBits(192 + s - 280, 8)

FixedDistanceBits(s) == CodeBits(s, 5)

-----------------------------------------------------------------------------
(* Tokens: a literal byte, or the length and the distance of a copy.       *)

EndOfBlock == 256

LengthBase(i) ==
  IF i = 28 THEN 258 ELSE IF i < 8 THEN i + 3
  ELSE (4 + (i % 4)) * 2^(i \div 4 - 1) + 3
LengthBits(i) == IF i < 8 \/ i = 28 THEN 0 ELSE i \div 4 - 1

DistanceBase(i) == IF i < 4 THEN i + 1 ELSE (2 + (i % 2)) * 2^(i \div 2 - 1) + 1
DistanceBits(i) == IF i < 4 THEN 0 ELSE i \div 2 - 1

LengthIndex(len) == CHOOSE i \in 0 .. 28 : /\ LengthBase(i) <= len
                                           /\ i < 28 => len < LengthBase(i + 1)
DistanceIndex(d) == CHOOSE i \in 0 .. 29 : /\ DistanceBase(i) <= d
                                           /\ i < 29 => d < DistanceBase(i + 1)

IsCopy(t) == t.len > 0
LiteralToken(b) == [len |-> 0, dist |-> 0, byte |-> b]
TokenSymbol(t) == IF IsCopy(t) THEN 257 + LengthIndex(t.len) ELSE t.byte

TokenBits(Lit(_), Dist(_), t) ==
  Lit(TokenSymbol(t)) \o
  IF ~IsCopy(t) THEN <<>>
  ELSE LET i == LengthIndex(t.len)
           j == DistanceIndex(t.dist)
       IN  Bits(t.len - LengthBase(i), LengthBits(i)) \o Dist(j) \o
           Bits(t.dist - DistanceBase(j), DistanceBits(j))

(* Cutting bytes into tokens: at each place the longest copy from one of   *)
(* the given distances, if it has three bytes, or else a literal.          *)
CopyLength(bytes, at, d) ==
  LET same(n) == at > d /\ \A k \in 0 .. n - 1 :
                   at + k <= Len(bytes) /\ bytes[at + k] = bytes[at + k - d]
  IN  Max({n \in 0 .. MinimumOf(258, Len(bytes) - at + 1) : n = 0 \/ same(n)})

Tokens(bytes, dists) ==
  LET copies(at) == {[len |-> CopyLength(bytes, at, d), dist |-> d, byte |-> 0] : d \in dists}
      long(at) == {t \in copies(at) : t.len >= 3}
      token(at) == IF long(at) = {} THEN LiteralToken(bytes[at])
                   ELSE CHOOSE t \in long(at) : \A u \in long(at) : u.len <= t.len
      cut[at \in 1 .. Len(bytes) + 1] ==
        IF at > Len(bytes) THEN <<>>
        ELSE LET t == token(at) IN <<t>> \o cut[at + (IF IsCopy(t) THEN t.len ELSE 1)]
  IN  cut[1]

-----------------------------------------------------------------------------
(* Blocks *)

Body(Lit(_), Dist(_), tokens) ==
  FlattenSeq([k \in DOMAIN tokens |-> TokenBits(Lit, Dist, tokens[k])]) \o Lit(EndOfBlock)

Header(final, type) == <<IF final THEN 1 ELSE 0>> \o Bits(type, 2)

FixedBlock(final, tokens) ==
  Header(final, 1) \o Body(FixedBits, FixedDistanceBits, tokens)

(* The lengths of both codes in one row, a run of zeros or a repetition of *)
(* the length before it written as one symbol with a count.                *)
LengthSymbols(row) ==
  LET n == Len(row)
      run(at) == Min({i \in at .. n : row[i] # row[at]} \cup {n + 1}) - at
      symbol(s, bits, extra, takes) == [sym |-> s, bits |-> bits, extra |-> extra, takes |-> takes]
      next(at) ==
        LET r == run(at) IN
        IF row[at] = 0 /\ r >= 11 THEN symbol(18, 7, MinimumOf(r, 138) - 11, MinimumOf(r, 138))
        ELSE IF row[at] = 0 /\ r >= 3 THEN symbol(17, 3, r - 3, r)
        ELSE IF at > 1 /\ row[at] # 0 /\ row[at - 1] = row[at] /\ r >= 3
          THEN symbol(16, 2, MinimumOf(r, 6) - 3, MinimumOf(r, 6))
        ELSE symbol(row[at], 0, 0, 1)
      all[at \in 1 .. n + 1] ==
        IF at > n THEN <<>> ELSE <<next(at)>> \o all[at + next(at).takes]
  IN  all[1]

LengthOrder == <<16, 17, 18, 0, 8, 7, 9, 6, 10, 5, 11, 4, 12, 3, 13, 2, 14, 1, 15>>

DynamicBlock(final, shape, tokens) ==
  LET used == {EndOfBlock} \cup {TokenSymbol(tokens[k]) : k \in DOMAIN tokens}
      usedDists == {DistanceIndex(t.dist) : t \in {u \in ToSet(tokens) : IsCopy(u)}}
      hlit == Max(used) + 1
      hdist == Max(usedDists \cup {0}) + 1
      lits == Lengths(used, shape, 15)
      dists == Lengths(usedDists, shape, 15)
      at(lens, s) == IF s \in DOMAIN lens THEN lens[s] ELSE 0
      row == [k \in 1 .. hlit |-> at(lits, k - 1)] \o [k \in 1 .. hdist |-> at(dists, k - 1)]
      symbols == LengthSymbols(row)
      lens == Lengths({symbols[k].sym : k \in DOMAIN symbols}, shape, 7)
      hclen == Max({4} \cup {k \in 1 .. 19 : LengthOrder[k] \in DOMAIN lens})
  IN  Header(final, 2) \o Bits(hlit - 257, 5) \o Bits(hdist - 1, 5) \o Bits(hclen - 4, 4)
        \o FlattenSeq([k \in 1 .. hclen |-> Bits(at(lens, LengthOrder[k]), 3)])
        \o FlattenSeq([k \in DOMAIN symbols |->
             SymbolBits(lens, symbols[k].sym) \o Bits(symbols[k].extra, symbols[k].bits)])
        \o Body(LAMBDA s : SymbolBits(lits, s), LAMBDA s : SymbolBits(dists, s), tokens)

(* Bits are packed lowest first; two bytes come before, a checksum after.  *)
Packed(bits) ==
  [b \in 1 .. (Len(bits) + 7) \div 8 |->
     MapThenSumSet(LAMBDA k : bits[8 * (b - 1) + k] * 2^(k - 1),
                   {k \in 1 .. 8 : 8 * (b - 1) + k <= Len(bits)})]

Zlib(bits) == <<120, 156>> \o Packed(bits) \o <<0, 0, 0, 0>>

-----------------------------------------------------------------------------
(* Images: width, height, depth (8 or 16), components and rows of bytes.   *)

BytesPerPixel(img) == (img.depth \div 8) * img.components

(* What is near is taken, the left byte before the one above and both      *)
(* before the one between them.                                            *)
Nearest(p, a, b, c) ==
  LET far(x) == IF p > x THEN p - x ELSE x - p IN
  IF far(a) <= far(b) /\ far(a) <= far(c) THEN a
  ELSE IF far(b) <= far(c) THEN b ELSE c

Predicted(filter, a, b, c) ==
  CASE filter = 0 -> 0
    [] filter = 1 -> a
    [] filter = 2 -> b
    [] filter = 3 -> (a + b) \div 2
    [] filter = 4 -> Nearest(a + b - c, a, b, c)
    [] OTHER -> 0

FilteredRow(img, r, filter) ==
  LET bpp == BytesPerPixel(img)
      at(row, j) == IF row < 1 \/ j < 1 THEN 0 ELSE img.rows[row][j]
  IN  <<filter>> \o
      [j \in DOMAIN img.rows[r] |->
         (at(r, j) + 256 - Predicted(filter, at(r, j - bpp), at(r - 1, j), at(r - 1, j - bpp))) % 256]

Filtered(img, filters) ==
  FlattenSeq([r \in 1 .. img.height |-> FilteredRow(img, r, filters[r])])

(* What the loader is to deliver: rows one after the other, samples of two *)
(* bytes with the low byte first, three components made four by an opaque  *)
(* one.                                                                    *)
Pixels(img) ==
  LET bytes == FlattenSeq(img.rows)
      n == img.depth \div 8
      samples == [k \in 1 .. Len(bytes) \div n |-> Reverse(SubSeq(bytes, (k - 1) * n + 1, k * n))]
      opaque == [k \in 1 .. n |-> 255]
      pixel(p) == FlattenSeq(SubSeq(samples, (p - 1) * img.components + 1, p * img.components))
                    \o IF img.components = 3 THEN opaque ELSE <<>>
  IN  FlattenSeq([p \in 1 .. img.width * img.height |-> pixel(p)])

ColorType(components) == CASE components = 1 -> 0 [] components = 3 -> 2 [] components = 4 -> 6

Chunk(type, content) == [type |-> type, content |-> content]

ImageHeader(img) ==
  Chunk("IHDR", [width |-> img.width, height |-> img.height, depth |-> img.depth,
                 color |-> ColorType(img.components), methods |-> <<0, 0, 0>>])
=============================================================================
