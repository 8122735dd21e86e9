---------------------------- MODULE MCPngLoader ----------------------------
(***************************************************************************)
(* The files: small images of every kind that is loaded, with every choice *)
(* of filters for their rows, written in several ways; and files with one  *)
(* error each.  FastBits is 3, so that codes of four bits and more take    *)
(* the slow path that in the code takes twelve.                            *)
(*                                                                         *)
(* Two rules keep the passing run off what the loader gets wrong: the      *)
(* first row has no filter 4, and copies in a fixed block come from        *)
(* distances whose five bits read the same from both ends.                 *)
(***************************************************************************)
EXTENDS PngLoader

Format == INSTANCE PngFormat

Image(width, height, depth, components, rows) ==
  [width |-> width, height |-> height, depth |-> depth, components |-> components,
   rows |-> rows]

Images == {
  Image(3, 2, 8, 1, <<<<2, 4, 200>>, <<1, 255, 7>>>>),
  Image(14, 2, 8, 1, <<[k \in 1 .. 14 |-> 5], [k \in 1 .. 14 |-> IF k < 9 THEN 5 ELSE 6]>>),
  Image(2, 2, 8, 3, <<<<1, 2, 3, 4, 5, 255>>, <<255, 1, 2, 3, 4, 4>>>>),
  Image(1, 2, 8, 4, <<<<10, 20, 30, 40>>, <<11, 19, 30, 250>>>>),
  Image(2, 2, 16, 1, <<<<1, 2, 1, 3>>, <<0, 255, 1, 2>>>>),
  Image(1, 2, 16, 3, <<<<1, 2, 3, 4, 5, 6>>, <<6, 5, 4, 3, 2, 1>>>>)}

(* How the stream is written: the distances copies may come from, and the  *)
(* blocks.                                                                 *)
FixedDistances == {1, 5, 6}
AnyDistances == {1, 2, 3, 7, 15}

Half(tokens) == Len(tokens) \div 2

Writings(stream) ==
  LET plain == Format!Tokens(stream, {})
      runs == Format!Tokens(stream, FixedDistances)
      copies == Format!Tokens(stream, AnyDistances)
      before(tokens) == SubSeq(tokens, 1, Half(tokens))
      behind(tokens) == SubSeq(tokens, Half(tokens) + 1, Len(tokens))
  IN  {Format!FixedBlock(TRUE, plain),
       Format!FixedBlock(TRUE, runs),
       Format!DynamicBlock(TRUE, "even", copies),
       Format!DynamicBlock(TRUE, "steep", plain),
       Format!FixedBlock(FALSE, before(runs))
         \o Format!DynamicBlock(TRUE, "steep", behind(runs)),
       Format!DynamicBlock(FALSE, "even", copies)
         \o Format!FixedBlock(TRUE, <<>>)}

File(img, stream, ihdr, zlib, signed, sound) ==
  LET n == Len(zlib) \div 2 IN
  [chunks |-> <<ihdr, Format!Chunk("IDAT", SubSeq(zlib, 1, n)), Format!Chunk("tEXt", <<>>),
                Format!Chunk("IDAT", SubSeq(zlib, n + 1, Len(zlib))), Format!Chunk("IEND", <<>>)>>,
   signed |-> signed, sound |-> sound, stream |-> stream, pixels |-> Format!Pixels(img)]

SoundFiles ==
  UNION {LET stream == Format!Filtered(img, filters) IN
         {File(img, stream, Format!ImageHeader(img), Format!Zlib(bits), TRUE, TRUE) :
            bits \in Writings(stream)} :
         img \in Images, filters \in (0 .. 3) \X (0 .. 4)}

(* One image more, whose files have an error each. *)
OneImage == Image(2, 1, 8, 1, <<<<7, 200>>>>)
OneStream == Format!Filtered(OneImage, <<0>>)
OneZlib == Format!Zlib(Format!FixedBlock(TRUE, Format!Tokens(OneStream, {})))
OneHeader == Format!ImageHeader(OneImage)
BadStream == <<5, 7, 200>>

BrokenFiles ==
  {File(OneImage, OneStream, OneHeader, OneZlib, FALSE, FALSE),
   File(OneImage, OneStream, [OneHeader EXCEPT !.content.methods = <<0, 0, 1>>], OneZlib, TRUE, FALSE),
   File(OneImage, OneStream, [OneHeader EXCEPT !.content.color = 5], OneZlib, TRUE, FALSE),
   File(OneImage, OneStream, OneHeader, [OneZlib EXCEPT ![1] = 119], TRUE, FALSE),
   File(OneImage, OneStream, OneHeader, [OneZlib EXCEPT ![2] = 157], TRUE, FALSE),
   File(OneImage, BadStream, OneHeader,
        Format!Zlib(Format!FixedBlock(TRUE, Format!Tokens(BadStream, {}))), TRUE, FALSE)}

AllFiles == SoundFiles \cup BrokenFiles
=============================================================================
