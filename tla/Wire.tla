-------------------------------- MODULE Wire ---------------------------------
(***************************************************************************)
(* What a server sends in a session, as pieces: the rectangles of an update *)
(* in each encoding, what they draw, and the other messages.  This is the   *)
(* RFB protocol as the decoders of noVNC read it, not code of noVNC.        *)
(***************************************************************************)
EXTENDS Integers, Sequences, SequencesExt, FiniteSetsExt

Piece(kind, of, n) == [kind |-> kind, of |-> of, n |-> n]
P(kind) == Piece(kind, "", 0)
Draw(what, parts) == [what |-> what, parts |-> parts]

Header(enc, size) == <<Piece("rect", enc, size)>>
Tile(sub, n) == Piece("tile", sub, n)
Control(of) == <<Piece("control", of, 0)>>
Segment(of, n) == Piece("segment", of, n)
Picture(n) == <<Segment("frame", n), Segment("end", 0)>>
Compressed == <<P("length"), P("data")>>
Palette == <<Piece("filter", "palette", 0), Piece("numColors", "", 2), P("palette")>>

Rects ==
  {"raw", "emptyRaw", "copyRect", "rre", "hextile", "badHextile", "tightFill", "tightJpeg",
   "tightCopy", "tightFew", "tightPalette", "emptyPalette", "tightGradient", "tightPng",
   "pngInTight", "zrle", "jpeg", "jpegQuant", "jpegBare", "lastRect", "cursor", "vmwareCursor",
   "vmwareUnknown", "qemuKey", "name", "size1", "size2", "extendedSize2", "resizeRefused",
   "other"}

\* The pieces of a rectangle.  The size in the header is 0 for an empty one, the
\* number of lines or tiles, the framebuffer's, or whether pixels are many.
RectPieces(rect) ==
  CASE rect = "raw" -> Header("raw", 2) \o <<P("line"), P("line")>>
    [] rect = "emptyRaw" -> Header("raw", 0)
    [] rect = "copyRect" -> Header("copyRect", 1) \o <<P("from")>>
    [] rect = "rre" -> Header("rre", 1)
         \o <<Piece("subrects", "", 2), Piece("subrect", "", 1), Piece("subrect", "", 2)>>
    [] rect = "hextile" -> Header("hextile", 5)
         \o <<Tile("back", 1), P("pixels"), Tile("blank", 2), Tile("subrects", 3),
              P("subrects"), P("pixels"), Tile("raw", 4), P("pixels"), Tile("blank", 5)>>
    [] rect = "badHextile" -> Header("hextile", 1) \o <<Tile("illegal", 1), P("pixels")>>
    [] rect = "tightFill" -> Header("tight", 1) \o Control("fill") \o <<P("colour")>>
    [] rect = "tightJpeg" -> Header("tight", 1) \o Control("jpeg") \o Compressed
    [] rect = "tightCopy" -> Header("tight", 2) \o Control("basic") \o Compressed
    [] rect = "tightFew" -> Header("tight", 1) \o Control("basic") \o <<P("pixels")>>
    [] rect = "tightPalette" -> Header("tight", 2) \o Control("filtered") \o Palette
         \o Compressed
    [] rect = "emptyPalette" -> Header("tight", 0) \o Control("filtered") \o Palette
    [] rect = "tightGradient" -> Header("tight", 2) \o Control("filtered")
         \o <<Piece("filter", "gradient", 0)>>
    [] rect = "tightPng" -> Header("tightPng", 1) \o Control("png") \o Compressed
    [] rect = "pngInTight" -> Header("tight", 1) \o Control("png") \o Compressed
    [] rect = "zrle" -> Header("zrle", 2) \o Compressed
    [] rect = "jpeg" -> Header("jpeg", 1)
         \o <<Segment("quant", 1), Segment("quant", 2), Segment("huffman", 3)>> \o Picture(1)
    [] rect = "jpegQuant" -> Header("jpeg", 1) \o <<Segment("quant", 4)>> \o Picture(2)
    [] rect = "jpegBare" -> Header("jpeg", 1) \o Picture(3)
    [] rect = "lastRect" -> Header("lastRect", 0)
    [] rect = "cursor" -> Header("cursor", 1) \o <<P("pixels")>>
    [] rect = "vmwareCursor" -> Header("vmwareCursor", 1)
         \o <<Piece("cursorType", "alpha", 0), P("pixels")>>
    [] rect = "vmwareUnknown" -> Header("vmwareCursor", 1)
         \o <<Piece("cursorType", "unknown", 0), P("pixels")>>
    [] rect = "qemuKey" -> Header("qemuKey", 0)
    [] rect = "name" -> Header("name", 0) \o <<P("length"), P("text")>>
    [] rect = "size1" -> Header("size", 1)
    [] rect = "size2" -> Header("size", 2)
    [] rect = "extendedSize2" -> Header("extendedSize", 2) \o <<P("screens"), P("screen")>>
    [] rect = "resizeRefused" -> Header("extendedSize", 0) \o <<P("screens"), P("screen")>>
    [] OTHER -> Header("unknown", 1)

\* What a rectangle draws, with the tables a JPEG file without its own refers to.
RectDraws(rect, tables) ==
  CASE rect = "raw" -> <<Draw("line", <<1>>), Draw("line", <<2>>)>>
    [] rect = "copyRect" -> <<Draw("copy", <<>>)>>
    [] rect = "rre" -> [i \in 1 .. 3 |-> Draw("fill", <<i - 1>>)]
    [] rect = "hextile" -> [i \in 1 .. 4 |-> Draw("tile", <<i>>)]
    [] rect = "tightFill" -> <<Draw("fill", <<>>)>>
    [] rect = "tightJpeg" -> <<Draw("jpeg", <<>>)>>
    [] rect = "tightPng" -> <<Draw("png", <<>>)>>
    [] rect \in {"tightCopy", "tightFew", "tightPalette"} -> <<Draw("pixels", <<>>)>>
    [] rect = "zrle" -> <<Draw("tile", <<1>>), Draw("tile", <<2>>)>>
    [] rect \in {"jpeg", "jpegQuant", "jpegBare"} ->
         <<Draw("image", tables.quant \o tables.huffman)>>
    [] OTHER -> <<>>

NeedsTables == {"jpegQuant", "jpegBare"}
TablesOf(rect, before) ==
  CASE rect = "jpeg" -> [quant |-> <<1, 2>>, huffman |-> <<3>>]
    [] rect = "jpegQuant" -> [before EXCEPT !.quant = <<4>>]
    [] OTHER -> before
TablesAfter(picture, before) ==
  FoldLeft(LAMBDA t, rect : TablesOf(rect, t), before, picture)

\* The last rectangle that changes the framebuffer's size.
NewSize == [size1 |-> 1, size2 |-> 2, extendedSize2 |-> 2]
SizeAfter(picture, before) ==
  LET changes == {i \in DOMAIN picture : picture[i] \in DOMAIN NewSize} IN
  IF changes = {} THEN before ELSE NewSize[picture[Max(changes)]]

\* A whole update.  One that ends with a last rectangle counts 65535 of them.
EndsEarly(picture) == picture # <<>> /\ picture[Len(picture)] = "lastRect"
UpdatePieces(picture) ==
  <<P("update"), Piece("count", "", Len(picture) + IF EndsEarly(picture) THEN 9 ELSE 0)>>
  \o FlattenSeq([i \in 1 .. Len(picture) |-> RectPieces(picture[i])])
UpdateDraws(picture, before) ==
  FlattenSeq([i \in 1 .. Len(picture) |->
    RectDraws(picture[i], TablesAfter(SubSeq(picture, 1, i), before))])

\* The other messages.
Fence(of) == <<P("fence"), Piece("length", of, 0), P("payload")>>
XvpMessage(of) == <<P("xvp"), Piece("version", of, 0)>>
Messages ==
  {<<P("bell")>>, <<P("cutText"), P("length"), P("text")>>, Fence("request"),
   Fence("response"), XvpMessage("known"), XvpMessage("illegal"),
   <<P("endContinuous")>>, <<P("colourMap")>>, <<P("unexpected")>>}
=============================================================================
