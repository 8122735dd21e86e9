----------------------------- MODULE PngLoader -----------------------------
(***************************************************************************)
(* Png_loader_t (core/loader/png.cpp): the walk over the chunks of a file, *)
(* the bit stream with its cache of 32 bits, DEFLATE with its two kinds of *)
(* prefix codes, the row filters and the last touches to the pixels.       *)
(*                                                                         *)
(* A file is a sequence of chunks, an image header being a record and any  *)
(* other content bytes.  An array that C++ counts from 0 is a sequence or  *)
(* a function from 0 on; a byte read through U8 is a number below 256.     *)
(*                                                                         *)
(* Left out: the format, which only names depth and components, and the    *)
(* stop at bytes behind the end of the data, which a whole file never      *)
(* makes the bit stream read.                                              *)
(***************************************************************************)
EXTENDS Integers, Sequences, SequencesExt, FiniteSetsExt

CONSTANTS
  Files,     \* what may be on the disk, and what it is to be loaded as
  FastBits   \* M_fast_bit_count

ASSUME PngAssumption == FastBits \in 1 .. 15

VARIABLES
  file,    \* the file: its chunks, the stream and the image it was made from
  pc,      \* where init is
  chunk,   \* the number of the chunk at i
  header,  \* m_width, m_height, m_bit_depth, components and bytes per pixel
  idat,    \* idat_full
  bs,      \* the bit stream
  block,   \* the block being decoded
  lens,    \* lit_and_dist_lens up to index
  out,     \* deflated_data up to deflated_p
  row,     \* r
  data     \* m_data

vars == <<file, pc, chunk, header, idat, bs, block, lens, out, row, data>>

Byte == 0 .. 255

-----------------------------------------------------------------------------
(* Bit_stream_t.  The cache is kept as its four bytes. *)

CacheAt(byte) == [k \in 0 .. 3 |-> IF byte + k < Len(idat) THEN idat[byte + k + 1] ELSE 0]

StreamAt(byte, bit) == [byte |-> byte, bit |-> bit, cache |-> CacheAt(byte)]

(* m_cache_lsb >> m_bit_index, as far as it fits into 16 bits *)
Shifted(b) ==
  LET at(k) == IF k > 3 THEN 0 ELSE b.cache[k]
      k == b.bit \div 8
  IN  ((at(k) + 256 * at(k + 1) + 65536 * at(k + 2)) \div 2^(b.bit % 8)) % 65536

(* Mutant: the second byte is shifted like the first. *)
PeekTwice(b, n) ==
  LET left == 32 - b.bit
      rest == n - left
      byte(k) == idat[b.byte + k + 1]
  IN  IF rest <= 0 THEN Shifted(b) % 2^n
      ELSE IF rest <= 8 THEN Shifted(b) + (byte(4) % 2^rest) * 2^left
      ELSE Shifted(b) + byte(4) * 2^left + (byte(5) % 2^(rest - 8)) * 2^left

(* peek_lsb: bits behind the cache come from the bytes behind it *)
Peek(b, n) ==
  LET left == 32 - b.bit
      rest == n - left
      byte(k) == idat[b.byte + k + 1]
  IN  IF rest <= 0 THEN Shifted(b) % 2^n
      ELSE IF rest <= 8 THEN Shifted(b) + (byte(4) % 2^rest) * 2^left
      ELSE Shifted(b) + byte(4) * 2^left + (byte(5) % 2^(rest - 8)) * 2^(left + 8)

(* skip, or several in a row: after 32 bits the cache is filled again *)
Skip(b, n) ==
  LET at == b.bit + n IN
  IF at > 31 THEN StreamAt(b.byte + 4 * (at \div 32), at % 32) ELSE [b EXCEPT !.bit = at]

(* The lowest n bits of a number, in the other order *)
Reversed(v, n) ==
  LET bits[k \in 0 .. n] == IF k = 0 THEN 0 ELSE 2 * bits[k - 1] + ((v \div 2^(k - 1)) % 2)
  IN  bits[n]

PeekMsb(b, n) == Reversed(Peek(b, n), n)

-----------------------------------------------------------------------------
(* Alphabet_t_ *)

MaxLength == 15
Lengths == 0 .. MaxLength

(* build_alphabet_: the symbols of each length in increasing order, and    *)
(* their smallest code.  len_counts are U8: of 256 symbols or more of one  *)
(* length, the first ones are overwritten and count starts at 0 again.     *)
Alphabet(lengths) ==
  LET symbols == SelectSeq([k \in DOMAIN lengths |-> k - 1], LAMBDA s : lengths[s + 1] > 0)
      ofLength == [l \in Lengths |-> SelectSeq(symbols, LAMBDA s : lengths[s + 1] = l)]
      counts == [l \in Lengths |-> Len(ofLength[l]) % 256]
      used == {l \in Lengths : counts[l] > 0}
      min[l \in Lengths] ==
        IF \A k \in used : k >= l THEN 0 ELSE 2 * (min[l - 1] + counts[l - 1])
  IN  [codes |-> [l \in Lengths |->
                    SubSeq(ofLength[l], Len(ofLength[l]) - counts[l] + 1, Len(ofLength[l]))],
       min |-> [l \in Lengths |-> min[l]],
       maxLen |-> IF used = {} THEN 0 ELSE Max(used)]

(* The lengths and indices of the codes whose reversed bits end v: the     *)
(* entry of fast_table at v is the last one written.                       *)
FastCodes(alphabet, v) ==
  {c \in UNION {{l} \X (0 .. Len(alphabet.codes[l]) - 1) : l \in 1 .. FastBits} :
     v % 2^c[1] = Reversed(alphabet.min[c[1]] + c[2], c[1])}

Decoded(val, b) == [val |-> val, bs |-> b]

(* decode_ past the fast table: one more bit each time the bits so far are *)
(* not a code.                                                             *)
DecodeSlow(alphabet, b, v) ==
  LET bits[l \in FastBits .. MaxLength] ==
        IF l = FastBits THEN Reversed(v, FastBits)
        ELSE 2 * bits[l - 1] + Peek(Skip(b, l - 1), 1)
      code(l) == bits[l] - alphabet.min[l]
      ends == {l \in FastBits .. alphabet.maxLen : code(l) < Len(alphabet.codes[l])}
      end == Min(ends)
  IN  IF ends = {} THEN Decoded(-1, Skip(b, Max({FastBits, alphabet.maxLen + 1})))
      ELSE Decoded(alphabet.codes[end][code(end) + 1], Skip(b, end))

Decode(alphabet, b) ==
  LET v == Peek(b, FastBits)
      fast == FastCodes(alphabet, v)
      len == Max({c[1] : c \in fast})
      code == CHOOSE c \in fast : c[1] = len
  IN  IF fast = {} THEN DecodeSlow(alphabet, b, v)
      ELSE Decoded(alphabet.codes[len][code[2] + 1], Skip(b, len))

(* The codes of a fixed block, taken apart by their ranges; what is none   *)
(* of them cannot be met.                                                  *)
DecodeFixed(b) ==
  LET seven == PeekMsb(b, 7)
      eight == PeekMsb(b, 8)
      nine == PeekMsb(b, 9)
  IN  IF seven <= 23 THEN Decoded(seven + 256, Skip(b, 7))
      ELSE IF eight \in 48 .. 191 THEN Decoded(eight - 48, Skip(b, 8))
      ELSE IF eight \in 192 .. 199 THEN Decoded(eight + 88, Skip(b, 8))
      ELSE Decoded(nine - 256, Skip(b, 9))

DecodeSymbol(b) == IF block.fixed THEN DecodeFixed(b) ELSE Decode(block.lits, b)

(* decode_len_and_dist_: the distance of a fixed block is read with its    *)
(* lowest bit first.                                                       *)
DecodeDistance(b) ==
  IF block.fixed THEN Decoded(Peek(b, 5), Skip(b, 5)) ELSE Decode(block.dists, b)

LenBases == <<3, 4, 5, 6, 7, 8, 9, 10, 11, 13, 15, 17, 19, 23, 27, 31, 35, 43, 51, 59,
              67, 83, 99, 115, 131, 163, 195, 227, 258>>
LenExtraBits == <<0, 0, 0, 0, 0, 0, 0, 0, 1, 1, 1, 1, 2, 2, 2, 2, 3, 3, 3, 3,
                  4, 4, 4, 4, 5, 5, 5, 5, 0>>
DistBases == <<1, 2, 3, 4, 5, 7, 9, 13, 17, 25, 33, 49, 65, 97, 129, 193, 257, 385, 513, 769,
               1025, 1537, 2049, 3073, 4097, 6145, 8193, 12289, 16385, 24577>>
DistExtraBits == <<0, 0, 0, 0, 1, 1, 2, 2, 3, 3, 4, 4, 5, 5, 6, 6, 7, 7, 8, 8,
                   9, 9, 10, 10, 11, 11, 12, 12, 13, 13>>

-----------------------------------------------------------------------------

NoBlock == [final |-> FALSE, fixed |-> TRUE]

Init ==
  /\ file \in Files
  /\ pc = "signature" /\ chunk = 1
  /\ header = [width |-> 0, height |-> 0, depth |-> 0, components |-> 0, bpp |-> 0]
  /\ idat = <<>> /\ bs = [byte |-> 0, bit |-> 0, cache |-> [k \in 0 .. 3 |-> 0]]
  /\ block = NoBlock /\ lens = <<>> /\ out = <<>> /\ row = 0 /\ data = <<>>

CheckSignature ==
  /\ pc = "signature"
  /\ pc' = IF file.signed THEN "chunks" ELSE "failed"
  /\ UNCHANGED <<file, chunk, header, idat, bs, block, lens, out, row, data>>

AtChunk(type) ==
  /\ pc = "chunks"
  /\ chunk <= Len(file.chunks)
  /\ file.chunks[chunk].type = type

Content == file.chunks[chunk].content

(* The components of a color type; grey with alpha falls through.  A       *)
(* palette is logged and leaves them as they were.                         *)
Components(color) ==
  CASE color = 0 -> 1 [] color = 2 -> 3 [] color \in {4, 6} -> 4 [] OTHER -> header.components

ReadHeader ==
  /\ AtChunk("IHDR")
  /\ header' = [width |-> Content.width, height |-> Content.height, depth |-> Content.depth,
                components |-> Components(Content.color),
                bpp |-> (Content.depth \div 8) * Components(Content.color)]
  /\ pc' = IF Content.color \in {0, 2, 3, 4, 6} /\ Content.methods = <<0, 0, 0>>
           THEN "chunks" ELSE "failed"
  /\ chunk' = chunk + 1
  /\ UNCHANGED <<file, idat, bs, block, lens, out, row, data>>

AppendData ==
  /\ AtChunk("IDAT")
  /\ idat' = idat \o Content
  /\ chunk' = chunk + 1
  /\ UNCHANGED <<file, pc, header, bs, block, lens, out, row, data>>

(* Any other chunk.  The file is read as text, with a 0 behind it, which   *)
(* makes for one chunk more; it is taken to have no known name.            *)
SkipChunk ==
  /\ pc = "chunks"
  /\ chunk <= Len(file.chunks) + 1
  /\ chunk <= Len(file.chunks) => file.chunks[chunk].type \notin {"IHDR", "IDAT", "IEND"}
  /\ chunk' = chunk + 1
  /\ UNCHANGED <<file, pc, header, idat, bs, block, lens, out, row, data>>

EndChunks ==
  /\ pc = "chunks"
  /\ chunk > Len(file.chunks) + 1
  /\ pc' = "done"
  /\ UNCHANGED <<file, chunk, header, idat, bs, block, lens, out, row, data>>

(* The 16 bits of the zlib header; all but the method and the check are    *)
(* ignored.                                                                *)
StartInflate ==
  LET b == StreamAt(0, 0) IN
  /\ AtChunk("IEND")
  /\ pc' = IF Peek(b, 4) = 8 /\ (idat[1] * 256 + idat[2]) % 31 = 0 THEN "block" ELSE "failed"
  /\ bs' = Skip(b, 4 + 4 + 5 + 1 + 2)
  /\ out' = <<>>
  /\ UNCHANGED <<file, chunk, header, idat, block, lens, row, data>>

-----------------------------------------------------------------------------
(* Blocks *)

AfterBlock(final) == IF final THEN "rows" ELSE "block"

LenAlphabet == <<16, 17, 18, 0, 8, 7, 9, 6, 10, 5, 11, 4, 12, 3, 13, 2, 14, 1, 15>>

(* The header of a dynamic block behind its three bits *)
DynamicBlock(final, b) ==
  LET b1 == Skip(b, 5)
      b2 == Skip(b1, 5)
      hclen == Peek(b2, 4) + 4
      at(k) == Skip(b2, 4 + 3 * (k - 1))
      lenOfLen(s) == LET k == CHOOSE k \in 1 .. 19 : LenAlphabet[k] = s
                     IN  IF k <= hclen THEN Peek(at(k), 3) ELSE 0
      lensOfLens == [k \in 1 .. 19 |-> lenOfLen(k - 1)]
  IN  [block |-> [final |-> final, fixed |-> FALSE,
                  hlit |-> Peek(b, 5) + 257, hdist |-> Peek(b1, 5) + 1,
                  lens |-> Alphabet(lensOfLens)],
       bs |-> at(hclen + 1)]

(* A block of any other type than 1 and 2 is nothing but its header. *)
ReadBlockHeader ==
  LET final == Peek(bs, 1) = 1
      type == Peek(Skip(bs, 1), 2)
      b == Skip(bs, 1 + 2)
      dynamic == DynamicBlock(final, b)
  IN  /\ pc = "block"
      /\ block' = IF type = 2 THEN dynamic.block ELSE [NoBlock EXCEPT !.final = final]
      /\ bs' = IF type = 2 THEN dynamic.bs ELSE b
      /\ pc' = CASE type = 1 -> "symbols" [] type = 2 -> "lengths" [] OTHER -> AfterBlock(final)
      /\ lens' = <<>>
      /\ UNCHANGED <<file, chunk, header, idat, out, row, data>>

(* A length, or a run of the length before or of zeros *)
ReadLength ==
  LET code == Decode(block.lens, bs)
      run(bits, least, len) == [k \in 1 .. Peek(code.bs, bits) + least |-> len]
      read == CASE code.val < 16 -> [lens |-> <<code.val>>, bs |-> code.bs]
                [] code.val = 16 -> [lens |-> run(2, 3, lens[Len(lens)]), bs |-> Skip(code.bs, 2)]
                [] code.val = 17 -> [lens |-> run(3, 3, 0), bs |-> Skip(code.bs, 3)]
                [] code.val = 18 -> [lens |-> run(7, 11, 0), bs |-> Skip(code.bs, 7)]
  IN  /\ pc = "lengths"
      /\ Len(lens) < block.hlit + block.hdist
      /\ lens' = lens \o read.lens
      /\ bs' = read.bs
      /\ pc' = IF Len(lens') <= block.hlit + block.hdist THEN "lengths" ELSE "failed"
      /\ UNCHANGED <<file, chunk, header, idat, block, out, row, data>>

BuildAlphabets ==
  /\ pc = "lengths"
  /\ Len(lens) = block.hlit + block.hdist
  /\ block' = [final |-> block.final, fixed |-> FALSE,
               lits |-> Alphabet(SubSeq(lens, 1, block.hlit)),
               dists |-> Alphabet(SubSeq(lens, block.hlit + 1, Len(lens)))]
  /\ pc' = IF lens[257] = 0 THEN "failed" ELSE "symbols"
  /\ lens' = <<>>
  /\ UNCHANGED <<file, chunk, header, idat, bs, out, row, data>>

(* Mutant: the whole copy is taken from what was there before it. *)
CopiedAtOnce(len, dist) ==
  out \o SubSeq(out, Len(out) - dist + 1, Min({Len(out), Len(out) - dist + len}))

(* Byte by byte: the copy may reach into itself. *)
Copied(len, dist) == out \o [k \in 1 .. len |-> out[Len(out) - dist + 1 + ((k - 1) % dist)]]

Literal ==
  LET code == DecodeSymbol(bs) IN
  /\ pc = "symbols"
  /\ code.val < 256
  /\ out' = Append(out, code.val % 256)
  /\ bs' = code.bs
  /\ UNCHANGED <<file, pc, chunk, header, idat, block, lens, row, data>>

Copy ==
  LET code == DecodeSymbol(bs)
      i == (code.val % 257) + 1
      b == Skip(code.bs, LenExtraBits[i])
      dist == DecodeDistance(b)
      j == dist.val + 1
  IN  /\ pc = "symbols"
      /\ code.val > 256
      /\ out' = Copied(LenBases[i] + Peek(code.bs, LenExtraBits[i]),
                       DistBases[j] + Peek(dist.bs, DistExtraBits[j]))
      /\ bs' = Skip(dist.bs, DistExtraBits[j])
      /\ UNCHANGED <<file, pc, chunk, header, idat, block, lens, row, data>>

EndBlock ==
  LET code == DecodeSymbol(bs) IN
  /\ pc = "symbols"
  /\ code.val = 256
  /\ pc' = AfterBlock(block.final)
  /\ bs' = code.bs
  /\ block' = NoBlock
  /\ UNCHANGED <<file, chunk, header, idat, lens, out, row, data>>

-----------------------------------------------------------------------------
(* Rows and pixels *)

RowBytes == header.width * header.bpp

(* Mutant: what is only as near as the byte between them is not taken. *)
Nearer(a, b, c) ==
  LET p == a + b - c
      far(x) == IF p > x THEN p - x ELSE x - p
  IN  IF far(a) <= far(b) /\ far(a) < far(c) THEN a
      ELSE IF far(b) < far(c) THEN b ELSE c

Paeth(a, b, c) ==
  LET p == a + b - c
      far(x) == IF p > x THEN p - x ELSE x - p
  IN  IF far(a) <= far(b) /\ far(a) <= far(c) THEN a
      ELSE IF far(b) <= far(c) THEN b ELSE c

(* What a row adds to byte j, from the byte a pixel before it, the one     *)
(* above and the one above that: the first row has nothing above it, and   *)
(* with filter 4 adds nothing at all.                                      *)
Prediction(filter, j, a, above, corner) ==
  LET first == row = 0
      inner == j >= header.bpp
  IN  CASE filter = 0 -> 0
        [] filter = 1 -> IF inner THEN a ELSE 0
        [] filter = 2 -> IF first THEN 0 ELSE above
        [] filter = 3 -> IF first THEN (IF inner THEN a \div 2 ELSE 0)
                         ELSE IF inner THEN (a + above) \div 2 ELSE above \div 2
        [] filter = 4 -> IF first THEN 0
                         ELSE IF inner THEN Paeth(a, above, corner) ELSE Paeth(0, above, 0)

(* What goes into a U8 *)
ByteSum(raw, added) == (raw + added) % 256

Unfiltered(filter) ==
  LET raw(j) == out[row * (RowBytes + 1) + 1 + j + 1]
      above(j) == IF row = 0 \/ j < 0 THEN 0 ELSE data[(row - 1) * RowBytes + j + 1]
      bytes[j \in 0 .. RowBytes - 1] ==
        LET a == IF j < header.bpp THEN 0 ELSE bytes[j - header.bpp] IN
        ByteSum(raw(j), Prediction(filter, j, a, above(j), above(j - header.bpp)))
  IN  [k \in 1 .. RowBytes |-> bytes[k - 1]]

UnfilterRow ==
  LET filter == out[row * (RowBytes + 1) + 1] IN
  /\ pc = "rows"
  /\ row < header.height
  /\ IF filter \in 0 .. 4 THEN data' = data \o Unfiltered(filter) /\ UNCHANGED pc
                          ELSE pc' = "failed" /\ UNCHANGED data
  /\ row' = row + 1
  /\ UNCHANGED <<file, chunk, header, idat, bs, block, lens, out>>

(* Samples of two bytes get their low byte first, three components a       *)
(* fourth one, and the walk over the chunks goes on.                       *)
FinishPixels ==
  LET bytes == header.depth \div 8
      n == header.width * header.height
      swapped == IF header.depth # 16 THEN data
                 ELSE [k \in DOMAIN data |-> IF k % 2 = 1 THEN data[k + 1] ELSE data[k - 1]]
      opaque(p) == SubSeq(swapped, (p - 1) * header.bpp + 1, p * header.bpp)
                     \o [k \in 1 .. bytes |-> 255]
      expand == header.components = 3
  IN  /\ pc = "rows"
      /\ row = header.height
      /\ data' = IF expand THEN FlattenSeq([p \in 1 .. n |-> opaque(p)]) ELSE swapped
      /\ header' = IF expand THEN [header EXCEPT !.components = 4, !.bpp = 4 * bytes] ELSE header
      /\ pc' = "chunks" /\ chunk' = chunk + 1
      /\ UNCHANGED <<file, idat, bs, block, lens, out, row>>

(* init has returned; a state without a step anywhere else would be init   *)
(* at a loss.                                                              *)
Returned == pc \in {"done", "failed"} /\ UNCHANGED vars

Next ==
  \/ CheckSignature \/ ReadHeader \/ AppendData \/ SkipChunk \/ EndChunks
  \/ StartInflate \/ ReadBlockHeader \/ ReadLength \/ BuildAlphabets
  \/ Literal \/ Copy \/ EndBlock
  \/ UnfilterRow \/ FinishPixels
  \/ Returned

Spec == Init /\ [][Next]_vars

-----------------------------------------------------------------------------
(***************************************************************************)
(* Properties                                                              *)
(***************************************************************************)

(* deflated_data has room for what is inflated, the lengths of a block     *)
(* stay in their array, and bytes are bytes.                               *)
TypeOK ==
  /\ pc \in {"signature", "chunks", "block", "lengths", "symbols", "rows", "done", "failed"}
  /\ chunk \in 1 .. Len(file.chunks) + 2
  /\ bs.bit \in 0 .. 31 /\ bs.byte % 4 = 0
  /\ Len(lens) <= 316 /\ ToSet(lens) \subseteq Lengths
  /\ Len(out) <= (header.width + 1) * header.height * header.bpp
  /\ row \in 0 .. header.height
  /\ ToSet(idat) \cup ToSet(out) \cup ToSet(data) \subseteq Byte

(* Wherever the stream stands, the next bits are those of the data, also   *)
(* across the end of the cache and when they fill the last of three bytes. *)
BitsInOrder ==
  pc \in {"block", "lengths", "symbols"} =>
    \A n \in 0 .. 16 :
      LET at == 8 * bs.byte + bs.bit IN
      at + n <= 8 * Len(idat) =>
        Peek(bs, n) = MapThenSumSet(
          LAMBDA k : ((idat[(at + k) \div 8 + 1] \div 2^((at + k) % 8)) % 2) * 2^k, 0 .. n - 1)

(* The loader and its bit stream between two steps.                        *)
WellFormed == TypeOK /\ BitsInOrder

(* What is inflated is at any time the beginning of what was deflated,     *)
(* whatever codes, copies and blocks it was written with.                  *)
InflatesInOrder == IsPrefix(out, file.stream)

(* What init returns true for is the image the file was made from, and     *)
(* what it refuses are the files with an error, all of them.               *)
LoadsTheImage ==
  /\ pc = "done" => file.sound /\ data = file.pixels
  /\ pc = "failed" => ~file.sound
=============================================================================
