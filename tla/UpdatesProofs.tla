--------------------------- MODULE UpdatesProofs ---------------------------
(***************************************************************************)
(* The viewer reads the stream of updates in step with the server, asks for *)
(* the whole of its framebuffer, holds the end of one update at most in its *)
(* render queue, and draws what was sent, in its order, for every set of    *)
(* updates a server may send, of every length.                              *)
(*                                                                         *)
(* What a server has sent is a walk through a graph of places: a place is   *)
(* a block (a message, the header of an update, a rectangle) with how much  *)
(* of it has been read, and says which blocks may follow; its ink is all    *)
(* that has been drawn up to there, with the tables of JPEG files.  The     *)
(* invariant is that the unread stream is such a walk, from a place that    *)
(* the state of the viewer (_FBU and the fields of the decoders) agrees     *)
(* with, and that what is due is what the queue holds, what is left of the  *)
(* rectangle at hand and what the walk still adds.                          *)
(*                                                                         *)
(* The part about drawing is stated for the updates in which no rectangle   *)
(* comes after an image whose draws refer to the receive queue (Orderly).   *)
(***************************************************************************)
EXTENDS Updates, SequenceTheorems, FiniteSetTheorems, WellFoundedInduction, TLAPS

-----------------------------------------------------------------------------
(* Induction, and sequences put end to end *)

\* Induction over a set, since one over a predicate cannot be instantiated.
LEMMA Induction ==
  ASSUME NEW S \in SUBSET Nat, 0 \in S, \A n \in S : n + 1 \in S
  PROVE  S = Nat
<1> SUFFICES ASSUME Nat \ S # {}
             PROVE  FALSE
  OBVIOUS
<1>1. PICK m \in Nat \ S : \A x \in Nat \ S : <<x, m>> \notin OpToRel(<, Nat)
  BY WFMin, NatLessThanWellFounded, Zenon
<1>2. \A x \in Nat \ S : ~ (x < m)
  BY <1>1 DEF OpToRel
<1>3. m # 0
  OBVIOUS
<1>4. m - 1 \in Nat /\ m - 1 < m /\ (m - 1) + 1 = m
  BY <1>3
<1>5. m - 1 \in S
  BY <1>2, <1>4
<1> QED
  BY <1>4, <1>5

LEMMA Associative ==
  ASSUME NEW S
  PROVE  \A a, b, c \in Seq(S) : (a \o b) \o c = a \o (b \o c)
BY ConcatAssociative

LEMMA Joined ==
  ASSUME NEW S, NEW s \in Seq(S), NEW t \in Seq(S)
  PROVE  /\ s \o t \in Seq(S) /\ Len(s \o t) = Len(s) + Len(t)
         /\ \A i \in 1 .. Len(s) : (s \o t)[i] = s[i]
         /\ \A i \in 1 .. Len(t) : (s \o t)[Len(s) + i] = t[i]
<1>1. /\ s \o t \in Seq(S) /\ Len(s \o t) = Len(s) + Len(t)
      /\ \A i \in 1 .. Len(s) + Len(t) : (s \o t)[i] = IF i <= Len(s) THEN s[i] ELSE t[i - Len(s)]
  BY ConcatProperties
<1>2. Len(s) \in Nat /\ Len(t) \in Nat
  OBVIOUS
<1> QED
  BY <1>1, <1>2

LEMMA Dropped ==
  ASSUME NEW S, NEW s \in Seq(S), NEW n \in 0 .. Len(s)
  PROVE  /\ SubSeq(s, n + 1, Len(s)) \in Seq(S)
         /\ Len(SubSeq(s, n + 1, Len(s))) = Len(s) - n
         /\ \A i \in 1 .. Len(s) - n : SubSeq(s, n + 1, Len(s))[i] = s[n + i]
<1>1. Len(s) \in Nat
  BY LenProperties
<1>2. \A i \in n + 1 .. Len(s) : i \in 1 .. Len(s)
  BY <1>1
<1>3. \A i \in n + 1 .. Len(s) : s[i] \in S
  BY <1>2, ElementOfSeq
<1> DEFINE low == n + 1
           high == Len(s)
<1>4. low \in Int /\ high \in Int /\ \A i \in low .. high : s[i] \in S
  BY <1>1, <1>3
<1> HIDE DEF low, high
<1>5. /\ SubSeq(s, low, high) \in Seq(S)
      /\ Len(SubSeq(s, low, high)) = IF low <= high THEN high - low + 1 ELSE 0
      /\ \A i \in 1 .. high - low + 1 : SubSeq(s, low, high)[i] = s[low + i - 1]
  BY <1>4, SubSeqProperties
<1>6. /\ high - low + 1 = Len(s) - n /\ (~ low <= high => Len(s) - n = 0)
      /\ \A i \in 1 .. Len(s) - n : low + i - 1 = n + i
  BY <1>1 DEF low, high
<1> QED
  BY <1>5, <1>6 DEF low, high

\* What FlattenSeq has put together after each of the sequences.
Gathers(f, seqs, n, S) ==
  /\ DOMAIN f = 1 .. n /\ f[1] = seqs[1]
  /\ \A i \in 2 .. n : f[i] = f[i - 1] \o seqs[i]
  /\ \A i \in 1 .. n : f[i] \in Seq(S)
  /\ FlattenSeq(seqs) = f[n]

LEMMA Flattened ==
  ASSUME NEW S, NEW n \in Nat \ {0}, NEW seqs, DOMAIN seqs = 1 .. n, Len(seqs) = n,
         \A i \in 1 .. n : seqs[i] \in Seq(S)
  PROVE  \E f : Gathers(f, seqs, n, S)
<1> DEFINE Grown(f, m) == [i \in 1 .. m |-> IF i = 1 THEN seqs[i] ELSE f[i - 1] \o seqs[i]]
           Up == {m \in Nat : \E f : f = Grown(f, m)}
           f == CHOOSE f : f = Grown(f, n)
<1>1. 0 \in Up
  <2>1. [i \in 1 .. 0 |-> seqs[i]] = Grown([i \in 1 .. 0 |-> seqs[i]], 0)
    OBVIOUS
  <2> QED
    BY <2>1
<1>2. ASSUME NEW m \in Up
      PROVE  m + 1 \in Up
  <2>1. PICK g : g = Grown(g, m)
    OBVIOUS
  <2> DEFINE h == [i \in 1 .. m + 1 |->
                     IF i = m + 1 THEN (IF i = 1 THEN seqs[i] ELSE g[i - 1] \o seqs[i]) ELSE g[i]]
  <2>2. \A i \in 1 .. m + 1 : h[i] = IF i = 1 THEN seqs[i] ELSE h[i - 1] \o seqs[i]
    <3> SUFFICES ASSUME NEW i \in 1 .. m + 1
                 PROVE  h[i] = IF i = 1 THEN seqs[i] ELSE h[i - 1] \o seqs[i]
      OBVIOUS
    <3>1. i # 1 => i - 1 \in 1 .. m /\ i - 1 # m + 1 /\ i - 1 \in 1 .. m + 1
      OBVIOUS
    <3>2. i # 1 => h[i - 1] = g[i - 1]
      BY <3>1
    <3>3. CASE i = m + 1
      BY <3>2, <3>3
    <3>4. CASE i # m + 1
      <4>1. i \in 1 .. m
        BY <3>4
      <4>2. g[i] = IF i = 1 THEN seqs[i] ELSE g[i - 1] \o seqs[i]
        BY <2>1, <4>1
      <4> QED
        BY <3>2, <3>4, <4>2
    <3> QED
      BY <3>3, <3>4
  <2>3. h = [i \in 1 .. m + 1 |-> h[i]] /\ m + 1 \in Nat
    OBVIOUS
  <2> HIDE DEF h
  <2>4. h = Grown(h, m + 1)
    BY <2>2, <2>3
  <2> HIDE DEF Grown
  <2> QED
    BY <2>3, <2>4
<1>3. n \in Up
  <2> HIDE DEF Up
  <2>1. Up \subseteq Nat
    BY DEF Up
  <2>2. Up = Nat
    BY <1>1, <1>2, <2>1, Induction, Zenon
  <2> QED
    BY <2>2
<1>4. f = Grown(f, n)
  BY <1>3, Zenon
<1>5. FlattenSeq(seqs) = f[n]
  BY DEF FlattenSeq
<1> HIDE DEF f
<1>6. DOMAIN f = 1 .. n /\ f[1] = seqs[1] /\ \A i \in 2 .. n : f[i] = f[i - 1] \o seqs[i]
  <2>1. \A i \in 1 .. n : f[i] = IF i = 1 THEN seqs[i] ELSE f[i - 1] \o seqs[i]
    BY <1>4
  <2>2. DOMAIN f = 1 .. n
    BY <1>4
  <2>3. 1 \in 1 .. n /\ \A i \in 2 .. n : i \in 1 .. n /\ i # 1
    OBVIOUS
  <2> QED
    BY <2>1, <2>2, <2>3
<1>7. \A i \in 1 .. n : f[i] \in Seq(S)
  <2> DEFINE Typed == {m \in Nat : m \in 1 .. n => f[m] \in Seq(S)}
  <2>1. 0 \in Typed
    OBVIOUS
  <2>2. ASSUME NEW m \in Typed
        PROVE  m + 1 \in Typed
    <3> SUFFICES ASSUME m + 1 \in 1 .. n
                 PROVE  f[m + 1] \in Seq(S)
      OBVIOUS
    <3>1. CASE m = 0
      BY <1>6, <3>1
    <3>2. CASE m # 0
      <4>1. m \in 1 .. n /\ m + 1 \in 2 .. n /\ (m + 1) - 1 = m
        BY <3>2
      <4>2. f[m + 1] = f[m] \o seqs[m + 1]
        BY <1>6, <4>1
      <4>3. f[m] \in Seq(S) /\ seqs[m + 1] \in Seq(S)
        BY <4>1
      <4> QED
        BY <4>2, <4>3, Joined
    <3> QED
      BY <3>1, <3>2
  <2> HIDE DEF Typed
  <2>3. Typed \subseteq Nat
    BY DEF Typed
  <2>4. Typed = Nat
    BY <2>1, <2>2, <2>3, Induction
  <2> QED
    BY <2>4 DEF Typed
<1>8. Gathers(f, seqs, n, S)
  BY <1>5, <1>6, <1>7 DEF Gathers
<1> QED
  BY <1>8

-----------------------------------------------------------------------------
(* The pieces of each rectangle *)

\* The rectangles that noVNC reads to their end, or fails on.  After an empty one
\* with a palette it keeps the palette, and of a cursor of unknown type it never
\* reads the rest.
Readable == Rects \ {"emptyPalette", "vmwareUnknown"}

Kinds ==
  {"bell", "colour", "colourMap", "control", "count", "cursorType", "cutText", "data",
   "endContinuous", "fence", "filter", "from", "length", "line", "numColors", "palette",
   "payload", "pixels", "rect", "screen", "screens", "segment", "subrect", "subrects", "text",
   "tile", "unexpected", "update", "version", "xvp"}
Ofs ==
  {"", "alpha", "back", "basic", "blank", "copyRect", "cursor", "end", "extendedSize", "fill",
   "filtered", "frame", "gradient", "hextile", "huffman", "illegal", "jpeg", "known",
   "lastRect", "name", "palette", "png", "qemuKey", "quant", "raw", "request", "response",
   "rre", "size", "subrects", "tight", "tightPng", "unknown", "vmwareCursor", "zrle"}
AllPieces == [kind : Kinds, of : Ofs, n : Nat]

LEMMA PieceIs == \A k \in Kinds, of \in Ofs, m \in Nat : Piece(k, of, m) \in AllPieces
BY DEF Piece, AllPieces

LEMMA PIs == \A k \in Kinds : P(k) \in AllPieces
<1>1. "" \in Ofs
  BY DEF Ofs
<1> QED
  BY <1>1, PieceIs DEF P

LEMMA Closed == \A s, t \in Seq(AllPieces) : s \o t \in Seq(AllPieces)
BY ConcatProperties

LEMMA Short ==
  /\ \A a \in AllPieces : <<a>> \in Seq(AllPieces)
  /\ \A a, b \in AllPieces : <<a, b>> \in Seq(AllPieces)
  /\ \A a, b, c \in AllPieces : <<a, b, c>> \in Seq(AllPieces)
  /\ <<>> \in Seq(AllPieces)
OBVIOUS

LEMMA Parts ==
  /\ \A e \in Ofs, m \in Nat : Header(e, m) \in Seq(AllPieces)
  /\ \A of \in Ofs : Control(of) \in Seq(AllPieces)
  /\ \A m \in Nat : Picture(m) \in Seq(AllPieces)
  /\ Compressed \in Seq(AllPieces) /\ Palette \in Seq(AllPieces)
  /\ \A k \in Kinds : <<P(k)>> \in Seq(AllPieces)
  /\ \A k, l \in Kinds : <<P(k), P(l)>> \in Seq(AllPieces)
<1>1. \A e \in Ofs, m \in Nat : Header(e, m) \in Seq(AllPieces)
  <2>1. "rect" \in Kinds
    BY DEF Kinds
  <2> QED
    BY <2>1, PieceIs, Short DEF Header
<1>2. \A of \in Ofs : Control(of) \in Seq(AllPieces)
  <2>1. "control" \in Kinds
    BY DEF Kinds
  <2> QED
    BY <2>1, PieceIs, Short DEF Control
<1>3. \A m \in Nat : Picture(m) \in Seq(AllPieces)
  <2>1. "segment" \in Kinds /\ "frame" \in Ofs /\ "end" \in Ofs
    BY DEF Kinds, Ofs
  <2> QED
    BY <2>1, PieceIs, Short DEF Picture, Segment
<1>4. Compressed \in Seq(AllPieces) /\ Palette \in Seq(AllPieces)
  <2>1. {P("length"), P("data"), P("palette")} \subseteq AllPieces
    BY PIs DEF Kinds
  <2>2. {Piece("filter", "palette", 0), Piece("numColors", "", 2)} \subseteq AllPieces
    <3>1. "filter" \in Kinds /\ "numColors" \in Kinds /\ "palette" \in Ofs /\ "" \in Ofs
      BY DEF Kinds, Ofs
    <3> QED
      BY <3>1, PieceIs
  <2> QED
    BY <2>1, <2>2, Short DEF Compressed, Palette
<1>5. /\ \A k \in Kinds : <<P(k)>> \in Seq(AllPieces)
      /\ \A k, l \in Kinds : <<P(k), P(l)>> \in Seq(AllPieces)
  BY PIs, Short
<1> QED
  BY <1>1, <1>2, <1>3, <1>4, <1>5

LEMMA Shape4 ==
  ASSUME NEW x, NEW a, NEW b, NEW c
  PROVE  LET s == <<x>> \o <<a, b, c>> IN
         Len(s) = 4 /\ s[1] = x /\ s[2] = a /\ s[3] = b /\ s[4] = c
OBVIOUS

LEMMA Shape7 ==
  ASSUME NEW x, NEW y, NEW a, NEW b, NEW c, NEW d, NEW e
  PROVE  LET s == <<x>> \o <<y>> \o <<a, b, c>> \o <<d, e>> IN
         /\ Len(s) = 7 /\ s[1] = x /\ s[2] = y
         /\ s[3] = a /\ s[4] = b /\ s[5] = c /\ s[6] = d /\ s[7] = e
OBVIOUS

LEMMA Shape10 ==
  ASSUME NEW x, NEW a, NEW b, NEW c, NEW d, NEW e, NEW f, NEW g, NEW h, NEW i
  PROVE  LET s == <<x>> \o <<a, b, c, d, e, f, g, h, i>> IN
         /\ Len(s) = 10 /\ s[1] = x /\ s[2] = a /\ s[3] = b /\ s[4] = c /\ s[5] = d
         /\ s[6] = e /\ s[7] = f /\ s[8] = g /\ s[9] = h /\ s[10] = i
OBVIOUS

LEMMA RawIs == LET b == RectPieces("raw") IN
  /\ b \in Seq(AllPieces) /\ Len(b) = 3 /\ b[1] = Piece("rect", "raw", 2) /\ b[2] = P("line")
  /\ b[3] = P("line")
<1>1. RectPieces("raw") = Header("raw", 2) \o <<P("line"), P("line")>>
  BY DEF RectPieces
<1>3. {Header("raw", 2), <<P("line"), P("line")>>} \subseteq Seq(AllPieces)
  BY Parts DEF Ofs, Kinds
<1>4. RectPieces("raw") \in Seq(AllPieces)
  BY <1>1, <1>3, Closed
<1> QED
  BY <1>1, <1>4 DEF Header

LEMMA EmptyRawIs == LET b == RectPieces("emptyRaw") IN
  /\ b \in Seq(AllPieces) /\ Len(b) = 1 /\ b[1] = Piece("rect", "raw", 0)
<1>1. RectPieces("emptyRaw") = Header("raw", 0)
  BY DEF RectPieces
<1>3. {Header("raw", 0)} \subseteq Seq(AllPieces)
  BY Parts DEF Ofs, Kinds
<1>4. RectPieces("emptyRaw") \in Seq(AllPieces)
  BY <1>1, <1>3, Closed
<1> QED
  BY <1>1, <1>4 DEF Header

LEMMA CopyRectIs == LET b == RectPieces("copyRect") IN
  /\ b \in Seq(AllPieces) /\ Len(b) = 2 /\ b[1] = Piece("rect", "copyRect", 1) /\ b[2] = P("from")
<1>1. RectPieces("copyRect") = Header("copyRect", 1) \o <<P("from")>>
  BY DEF RectPieces
<1>3. {Header("copyRect", 1), <<P("from")>>} \subseteq Seq(AllPieces)
  BY Parts DEF Ofs, Kinds
<1>4. RectPieces("copyRect") \in Seq(AllPieces)
  BY <1>1, <1>3, Closed
<1> QED
  BY <1>1, <1>4 DEF Header

LEMMA RreIs == LET b == RectPieces("rre") IN
  /\ b \in Seq(AllPieces) /\ Len(b) = 4 /\ b[1] = Piece("rect", "rre", 1)
  /\ b[2] = Piece("subrects", "", 2) /\ b[3] = Piece("subrect", "", 1)
  /\ b[4] = Piece("subrect", "", 2)
<1>1. RectPieces("rre") = Header("rre", 1)
        \o <<Piece("subrects", "", 2), Piece("subrect", "", 1), Piece("subrect", "", 2)>>
  BY DEF RectPieces
<1>2. {Piece("subrects", "", 2), Piece("subrect", "", 1), Piece("subrect", "", 2)}
      \subseteq AllPieces
  <2>1. "subrects" \in Kinds /\ "subrect" \in Kinds /\ "" \in Ofs
    BY DEF Kinds, Ofs
  <2> QED
    BY <2>1, PieceIs
<1>3. {Header("rre", 1),
        <<Piece("subrects", "", 2), Piece("subrect", "", 1), Piece("subrect", "", 2)>>}
      \subseteq Seq(AllPieces)
  BY <1>2, Parts, Short DEF Ofs, Kinds
<1>4. RectPieces("rre") \in Seq(AllPieces)
  BY <1>1, <1>3, Closed
<1> DEFINE x == Piece("rect", "rre", 1)
           a == Piece("subrects", "", 2)
           b == Piece("subrect", "", 1)
           c == Piece("subrect", "", 2)
<1>5. RectPieces("rre") = <<x>> \o <<a, b, c>>
  BY <1>1 DEF Header
<1> HIDE DEF x, a, b, c
<1>6. LET s == RectPieces("rre") IN
      Len(s) = 4 /\ s[1] = x /\ s[2] = a /\ s[3] = b /\ s[4] = c
  BY <1>5, Shape4
<1> QED
  BY <1>4, <1>6 DEF x, a, b, c

LEMMA HextileIs == LET b == RectPieces("hextile") IN
  /\ b \in Seq(AllPieces) /\ Len(b) = 10 /\ b[1] = Piece("rect", "hextile", 5)
  /\ b[2] = Piece("tile", "back", 1) /\ b[3] = P("pixels") /\ b[4] = Piece("tile", "blank", 2)
  /\ b[5] = Piece("tile", "subrects", 3) /\ b[6] = P("subrects") /\ b[7] = P("pixels")
  /\ b[8] = Piece("tile", "raw", 4) /\ b[9] = P("pixels") /\ b[10] = Piece("tile", "blank", 5)
<1> DEFINE x == Piece("rect", "hextile", 5)
           a == Piece("tile", "back", 1)
           b == P("pixels")
           c == Piece("tile", "blank", 2)
           d == Piece("tile", "subrects", 3)
           e == P("subrects")
           f == Piece("tile", "raw", 4)
           g == Piece("tile", "blank", 5)
<1>1. RectPieces("hextile") = <<x>> \o <<a, b, c, d, e, b, f, b, g>>
  BY DEF RectPieces, Header, Tile
<1>2. x \in AllPieces /\ {a, b, c, d, e, f, g} \subseteq AllPieces
  <2>1. /\ {"rect", "tile", "pixels", "subrects"} \subseteq Kinds
        /\ {"hextile", "back", "blank", "subrects", "raw"} \subseteq Ofs
    BY DEF Kinds, Ofs
  <2>2. x \in AllPieces /\ a \in AllPieces /\ c \in AllPieces
    BY <2>1, PieceIs
  <2>3. d \in AllPieces /\ f \in AllPieces /\ g \in AllPieces
    BY <2>1, PieceIs
  <2>4. b \in AllPieces /\ e \in AllPieces
    BY <2>1, PIs
  <2> HIDE DEF x, a, b, c, d, e, f, g
  <2> QED
    BY <2>2, <2>3, <2>4
<1> HIDE DEF x, a, b, c, d, e, f, g
<1>3. <<x>> \in Seq(AllPieces) /\ <<a, b, c, d, e, b, f, b, g>> \in Seq(AllPieces)
  BY <1>2
<1>4. RectPieces("hextile") \in Seq(AllPieces)
  BY <1>1, <1>3, Closed
<1>5. LET s == RectPieces("hextile") IN
      /\ Len(s) = 10 /\ s[1] = x /\ s[2] = a /\ s[3] = b /\ s[4] = c /\ s[5] = d
      /\ s[6] = e /\ s[7] = b /\ s[8] = f /\ s[9] = b /\ s[10] = g
  BY <1>1, Shape10
<1> QED
  BY <1>4, <1>5 DEF x, a, b, c, d, e, f, g

LEMMA BadHextileIs == LET b == RectPieces("badHextile") IN
  /\ b \in Seq(AllPieces) /\ Len(b) = 3 /\ b[1] = Piece("rect", "hextile", 1)
  /\ b[2] = Piece("tile", "illegal", 1) /\ b[3] = P("pixels")
<1>1. RectPieces("badHextile") = Header("hextile", 1) \o <<Tile("illegal", 1), P("pixels")>>
  BY DEF RectPieces
<1>2. {Tile("illegal", 1), P("pixels")} \subseteq AllPieces
  BY PieceIs, PIs DEF Kinds, Ofs, Tile
<1>3. {Header("hextile", 1), <<Tile("illegal", 1), P("pixels")>>} \subseteq Seq(AllPieces)
  BY <1>2, Parts, Short DEF Ofs, Kinds
<1>4. RectPieces("badHextile") \in Seq(AllPieces)
  BY <1>1, <1>3, Closed
<1> QED
  BY <1>1, <1>4 DEF Header, Tile

LEMMA TightFillIs == LET b == RectPieces("tightFill") IN
  /\ b \in Seq(AllPieces) /\ Len(b) = 3 /\ b[1] = Piece("rect", "tight", 1)
  /\ b[2] = Piece("control", "fill", 0) /\ b[3] = P("colour")
<1>1. RectPieces("tightFill") = Header("tight", 1) \o Control("fill") \o <<P("colour")>>
  BY DEF RectPieces
<1>3. {Header("tight", 1), Control("fill"), <<P("colour")>>} \subseteq Seq(AllPieces)
  BY Parts DEF Ofs, Kinds
<1>4. RectPieces("tightFill") \in Seq(AllPieces)
  BY <1>1, <1>3, Closed
<1> QED
  BY <1>1, <1>4 DEF Header, Control

LEMMA TightJpegIs == LET b == RectPieces("tightJpeg") IN
  /\ b \in Seq(AllPieces) /\ Len(b) = 4 /\ b[1] = Piece("rect", "tight", 1)
  /\ b[2] = Piece("control", "jpeg", 0) /\ b[3] = P("length") /\ b[4] = P("data")
<1>1. RectPieces("tightJpeg") = Header("tight", 1) \o Control("jpeg") \o Compressed
  BY DEF RectPieces
<1>3. {Header("tight", 1), Control("jpeg"), Compressed} \subseteq Seq(AllPieces)
  BY Parts DEF Ofs, Kinds
<1>4. RectPieces("tightJpeg") \in Seq(AllPieces)
  BY <1>1, <1>3, Closed
<1> QED
  BY <1>1, <1>4 DEF Header, Control, Compressed

LEMMA TightCopyIs == LET b == RectPieces("tightCopy") IN
  /\ b \in Seq(AllPieces) /\ Len(b) = 4 /\ b[1] = Piece("rect", "tight", 2)
  /\ b[2] = Piece("control", "basic", 0) /\ b[3] = P("length") /\ b[4] = P("data")
<1>1. RectPieces("tightCopy") = Header("tight", 2) \o Control("basic") \o Compressed
  BY DEF RectPieces
<1>3. {Header("tight", 2), Control("basic"), Compressed} \subseteq Seq(AllPieces)
  BY Parts DEF Ofs, Kinds
<1>4. RectPieces("tightCopy") \in Seq(AllPieces)
  BY <1>1, <1>3, Closed
<1> QED
  BY <1>1, <1>4 DEF Header, Control, Compressed

LEMMA TightFewIs == LET b == RectPieces("tightFew") IN
  /\ b \in Seq(AllPieces) /\ Len(b) = 3 /\ b[1] = Piece("rect", "tight", 1)
  /\ b[2] = Piece("control", "basic", 0) /\ b[3] = P("pixels")
<1>1. RectPieces("tightFew") = Header("tight", 1) \o Control("basic") \o <<P("pixels")>>
  BY DEF RectPieces
<1>3. {Header("tight", 1), Control("basic"), <<P("pixels")>>} \subseteq Seq(AllPieces)
  BY Parts DEF Ofs, Kinds
<1>4. RectPieces("tightFew") \in Seq(AllPieces)
  BY <1>1, <1>3, Closed
<1> QED
  BY <1>1, <1>4 DEF Header, Control

LEMMA TightPaletteIs == LET b == RectPieces("tightPalette") IN
  /\ b \in Seq(AllPieces) /\ Len(b) = 7 /\ b[1] = Piece("rect", "tight", 2)
  /\ b[2] = Piece("control", "filtered", 0) /\ b[3] = Piece("filter", "palette", 0)
  /\ b[4] = Piece("numColors", "", 2) /\ b[5] = P("palette") /\ b[6] = P("length")
  /\ b[7] = P("data")
<1>1. RectPieces("tightPalette") = Header("tight", 2) \o Control("filtered") \o Palette
        \o Compressed
  BY DEF RectPieces
<1>3. {Header("tight", 2), Control("filtered"), Palette, Compressed} \subseteq Seq(AllPieces)
  BY Parts DEF Ofs, Kinds
<1>4. RectPieces("tightPalette") \in Seq(AllPieces)
  BY <1>1, <1>3, Closed
<1> DEFINE x == Piece("rect", "tight", 2)
           y == Piece("control", "filtered", 0)
           a == Piece("filter", "palette", 0)
           b == Piece("numColors", "", 2)
           c == P("palette")
           d == P("length")
           e == P("data")
<1>5. RectPieces("tightPalette") = <<x>> \o <<y>> \o <<a, b, c>> \o <<d, e>>
  BY <1>1 DEF Header, Control, Compressed, Palette
<1> HIDE DEF x, y, a, b, c, d, e
<1>6. LET s == RectPieces("tightPalette") IN
      /\ Len(s) = 7 /\ s[1] = x /\ s[2] = y
      /\ s[3] = a /\ s[4] = b /\ s[5] = c /\ s[6] = d /\ s[7] = e
  BY <1>5, Shape7
<1> QED
  BY <1>4, <1>6 DEF x, y, a, b, c, d, e

LEMMA TightGradientIs == LET b == RectPieces("tightGradient") IN
  /\ b \in Seq(AllPieces) /\ Len(b) = 3 /\ b[1] = Piece("rect", "tight", 2)
  /\ b[2] = Piece("control", "filtered", 0) /\ b[3] = Piece("filter", "gradient", 0)
<1>1. RectPieces("tightGradient") = Header("tight", 2) \o Control("filtered")
        \o <<Piece("filter", "gradient", 0)>>
  BY DEF RectPieces
<1>2. {Piece("filter", "gradient", 0)} \subseteq AllPieces
  BY PieceIs, PIs DEF Kinds, Ofs
<1>3. {Header("tight", 2), Control("filtered"), <<Piece("filter", "gradient", 0)>>}
      \subseteq Seq(AllPieces)
  BY <1>2, Parts, Short DEF Ofs, Kinds
<1>4. RectPieces("tightGradient") \in Seq(AllPieces)
  BY <1>1, <1>3, Closed
<1> QED
  BY <1>1, <1>4 DEF Header, Control

LEMMA TightPngIs == LET b == RectPieces("tightPng") IN
  /\ b \in Seq(AllPieces) /\ Len(b) = 4 /\ b[1] = Piece("rect", "tightPng", 1)
  /\ b[2] = Piece("control", "png", 0) /\ b[3] = P("length") /\ b[4] = P("data")
<1>1. RectPieces("tightPng") = Header("tightPng", 1) \o Control("png") \o Compressed
  BY DEF RectPieces
<1>3. {Header("tightPng", 1), Control("png"), Compressed} \subseteq Seq(AllPieces)
  BY Parts DEF Ofs, Kinds
<1>4. RectPieces("tightPng") \in Seq(AllPieces)
  BY <1>1, <1>3, Closed
<1> QED
  BY <1>1, <1>4 DEF Header, Control, Compressed

LEMMA PngInTightIs == LET b == RectPieces("pngInTight") IN
  /\ b \in Seq(AllPieces) /\ Len(b) = 4 /\ b[1] = Piece("rect", "tight", 1)
  /\ b[2] = Piece("control", "png", 0) /\ b[3] = P("length") /\ b[4] = P("data")
<1>1. RectPieces("pngInTight") = Header("tight", 1) \o Control("png") \o Compressed
  BY DEF RectPieces
<1>3. {Header("tight", 1), Control("png"), Compressed} \subseteq Seq(AllPieces)
  BY Parts DEF Ofs, Kinds
<1>4. RectPieces("pngInTight") \in Seq(AllPieces)
  BY <1>1, <1>3, Closed
<1> QED
  BY <1>1, <1>4 DEF Header, Control, Compressed

LEMMA ZrleIs == LET b == RectPieces("zrle") IN
  /\ b \in Seq(AllPieces) /\ Len(b) = 3 /\ b[1] = Piece("rect", "zrle", 2) /\ b[2] = P("length")
  /\ b[3] = P("data")
<1>1. RectPieces("zrle") = Header("zrle", 2) \o Compressed
  BY DEF RectPieces
<1>3. {Header("zrle", 2), Compressed} \subseteq Seq(AllPieces)
  BY Parts DEF Ofs, Kinds
<1>4. RectPieces("zrle") \in Seq(AllPieces)
  BY <1>1, <1>3, Closed
<1> QED
  BY <1>1, <1>4 DEF Header, Compressed

LEMMA JpegIs == LET b == RectPieces("jpeg") IN
  /\ b \in Seq(AllPieces) /\ Len(b) = 6 /\ b[1] = Piece("rect", "jpeg", 1)
  /\ b[2] = Piece("segment", "quant", 1) /\ b[3] = Piece("segment", "quant", 2)
  /\ b[4] = Piece("segment", "huffman", 3) /\ b[5] = Piece("segment", "frame", 1)
  /\ b[6] = Piece("segment", "end", 0)
<1>1. RectPieces("jpeg") = Header("jpeg", 1)
        \o <<Segment("quant", 1), Segment("quant", 2), Segment("huffman", 3)>> \o Picture(1)
  BY DEF RectPieces
<1>2. {Segment("quant", 1), Segment("quant", 2), Segment("huffman", 3)} \subseteq AllPieces
  <2>1. "segment" \in Kinds /\ "quant" \in Ofs /\ "huffman" \in Ofs
    BY DEF Kinds, Ofs
  <2> QED
    BY <2>1, PieceIs DEF Segment
<1>3. {Header("jpeg", 1), <<Segment("quant", 1), Segment("quant", 2), Segment("huffman", 3)>>,
        Picture(1)} \subseteq Seq(AllPieces)
  BY <1>2, Parts, Short DEF Ofs, Kinds
<1>4. RectPieces("jpeg") \in Seq(AllPieces)
  BY <1>1, <1>3, Closed
<1> QED
  BY <1>1, <1>4 DEF Header, Picture, Segment

LEMMA JpegQuantIs == LET b == RectPieces("jpegQuant") IN
  /\ b \in Seq(AllPieces) /\ Len(b) = 4 /\ b[1] = Piece("rect", "jpeg", 1)
  /\ b[2] = Piece("segment", "quant", 4) /\ b[3] = Piece("segment", "frame", 2)
  /\ b[4] = Piece("segment", "end", 0)
<1>1. RectPieces("jpegQuant") = Header("jpeg", 1) \o <<Segment("quant", 4)>> \o Picture(2)
  BY DEF RectPieces
<1>2. {Segment("quant", 4)} \subseteq AllPieces
  BY PieceIs, PIs DEF Kinds, Ofs, Segment
<1>3. {Header("jpeg", 1), <<Segment("quant", 4)>>, Picture(2)} \subseteq Seq(AllPieces)
  BY <1>2, Parts, Short DEF Ofs, Kinds
<1>4. RectPieces("jpegQuant") \in Seq(AllPieces)
  BY <1>1, <1>3, Closed
<1> QED
  BY <1>1, <1>4 DEF Header, Picture, Segment

LEMMA JpegBareIs == LET b == RectPieces("jpegBare") IN
  /\ b \in Seq(AllPieces) /\ Len(b) = 3 /\ b[1] = Piece("rect", "jpeg", 1)
  /\ b[2] = Piece("segment", "frame", 3) /\ b[3] = Piece("segment", "end", 0)
<1>1. RectPieces("jpegBare") = Header("jpeg", 1) \o Picture(3)
  BY DEF RectPieces
<1>3. {Header("jpeg", 1), Picture(3)} \subseteq Seq(AllPieces)
  BY Parts DEF Ofs, Kinds
<1>4. RectPieces("jpegBare") \in Seq(AllPieces)
  BY <1>1, <1>3, Closed
<1> QED
  BY <1>1, <1>4 DEF Header, Picture, Segment

LEMMA LastRectIs == LET b == RectPieces("lastRect") IN
  /\ b \in Seq(AllPieces) /\ Len(b) = 1 /\ b[1] = Piece("rect", "lastRect", 0)
<1>1. RectPieces("lastRect") = Header("lastRect", 0)
  BY DEF RectPieces
<1>3. {Header("lastRect", 0)} \subseteq Seq(AllPieces)
  BY Parts DEF Ofs, Kinds
<1>4. RectPieces("lastRect") \in Seq(AllPieces)
  BY <1>1, <1>3, Closed
<1> QED
  BY <1>1, <1>4 DEF Header

LEMMA CursorIs == LET b == RectPieces("cursor") IN
  /\ b \in Seq(AllPieces) /\ Len(b) = 2 /\ b[1] = Piece("rect", "cursor", 1) /\ b[2] = P("pixels")
<1>1. RectPieces("cursor") = Header("cursor", 1) \o <<P("pixels")>>
  BY DEF RectPieces
<1>3. {Header("cursor", 1), <<P("pixels")>>} \subseteq Seq(AllPieces)
  BY Parts DEF Ofs, Kinds
<1>4. RectPieces("cursor") \in Seq(AllPieces)
  BY <1>1, <1>3, Closed
<1> QED
  BY <1>1, <1>4 DEF Header

LEMMA VmwareCursorIs == LET b == RectPieces("vmwareCursor") IN
  /\ b \in Seq(AllPieces) /\ Len(b) = 3 /\ b[1] = Piece("rect", "vmwareCursor", 1)
  /\ b[2] = Piece("cursorType", "alpha", 0) /\ b[3] = P("pixels")
<1>1. RectPieces("vmwareCursor") = Header("vmwareCursor", 1)
        \o <<Piece("cursorType", "alpha", 0), P("pixels")>>
  BY DEF RectPieces
<1>2. {Piece("cursorType", "alpha", 0), P("pixels")} \subseteq AllPieces
  BY PieceIs, PIs DEF Kinds, Ofs
<1>3. {Header("vmwareCursor", 1), <<Piece("cursorType", "alpha", 0), P("pixels")>>}
      \subseteq Seq(AllPieces)
  BY <1>2, Parts, Short DEF Ofs, Kinds
<1>4. RectPieces("vmwareCursor") \in Seq(AllPieces)
  BY <1>1, <1>3, Closed
<1> QED
  BY <1>1, <1>4 DEF Header

LEMMA QemuKeyIs == LET b == RectPieces("qemuKey") IN
  /\ b \in Seq(AllPieces) /\ Len(b) = 1 /\ b[1] = Piece("rect", "qemuKey", 0)
<1>1. RectPieces("qemuKey") = Header("qemuKey", 0)
  BY DEF RectPieces
<1>3. {Header("qemuKey", 0)} \subseteq Seq(AllPieces)
  BY Parts DEF Ofs, Kinds
<1>4. RectPieces("qemuKey") \in Seq(AllPieces)
  BY <1>1, <1>3, Closed
<1> QED
  BY <1>1, <1>4 DEF Header

LEMMA NameIs == LET b == RectPieces("name") IN
  /\ b \in Seq(AllPieces) /\ Len(b) = 3 /\ b[1] = Piece("rect", "name", 0) /\ b[2] = P("length")
  /\ b[3] = P("text")
<1>1. RectPieces("name") = Header("name", 0) \o <<P("length"), P("text")>>
  BY DEF RectPieces
<1>3. {Header("name", 0), <<P("length"), P("text")>>} \subseteq Seq(AllPieces)
  BY Parts DEF Ofs, Kinds
<1>4. RectPieces("name") \in Seq(AllPieces)
  BY <1>1, <1>3, Closed
<1> QED
  BY <1>1, <1>4 DEF Header

LEMMA Size1Is == LET b == RectPieces("size1") IN
  /\ b \in Seq(AllPieces) /\ Len(b) = 1 /\ b[1] = Piece("rect", "size", 1)
<1>1. RectPieces("size1") = Header("size", 1)
  BY DEF RectPieces
<1>3. {Header("size", 1)} \subseteq Seq(AllPieces)
  BY Parts DEF Ofs, Kinds
<1>4. RectPieces("size1") \in Seq(AllPieces)
  BY <1>1, <1>3, Closed
<1> QED
  BY <1>1, <1>4 DEF Header

LEMMA Size2Is == LET b == RectPieces("size2") IN
  /\ b \in Seq(AllPieces) /\ Len(b) = 1 /\ b[1] = Piece("rect", "size", 2)
<1>1. RectPieces("size2") = Header("size", 2)
  BY DEF RectPieces
<1>3. {Header("size", 2)} \subseteq Seq(AllPieces)
  BY Parts DEF Ofs, Kinds
<1>4. RectPieces("size2") \in Seq(AllPieces)
  BY <1>1, <1>3, Closed
<1> QED
  BY <1>1, <1>4 DEF Header

LEMMA ExtendedSize2Is == LET b == RectPieces("extendedSize2") IN
  /\ b \in Seq(AllPieces) /\ Len(b) = 3 /\ b[1] = Piece("rect", "extendedSize", 2)
  /\ b[2] = P("screens") /\ b[3] = P("screen")
<1>1. RectPieces("extendedSize2") = Header("extendedSize", 2) \o <<P("screens"), P("screen")>>
  BY DEF RectPieces
<1>3. {Header("extendedSize", 2), <<P("screens"), P("screen")>>} \subseteq Seq(AllPieces)
  BY Parts DEF Ofs, Kinds
<1>4. RectPieces("extendedSize2") \in Seq(AllPieces)
  BY <1>1, <1>3, Closed
<1> QED
  BY <1>1, <1>4 DEF Header

LEMMA ResizeRefusedIs == LET b == RectPieces("resizeRefused") IN
  /\ b \in Seq(AllPieces) /\ Len(b) = 3 /\ b[1] = Piece("rect", "extendedSize", 0)
  /\ b[2] = P("screens") /\ b[3] = P("screen")
<1>1. RectPieces("resizeRefused") = Header("extendedSize", 0) \o <<P("screens"), P("screen")>>
  BY DEF RectPieces
<1>3. {Header("extendedSize", 0), <<P("screens"), P("screen")>>} \subseteq Seq(AllPieces)
  BY Parts DEF Ofs, Kinds
<1>4. RectPieces("resizeRefused") \in Seq(AllPieces)
  BY <1>1, <1>3, Closed
<1> QED
  BY <1>1, <1>4 DEF Header

LEMMA OtherIs == LET b == RectPieces("other") IN
  /\ b \in Seq(AllPieces) /\ Len(b) = 1 /\ b[1] = Piece("rect", "unknown", 1)
<1>1. RectPieces("other") = Header("unknown", 1)
  BY DEF RectPieces
<1>3. {Header("unknown", 1)} \subseteq Seq(AllPieces)
  BY Parts DEF Ofs, Kinds
<1>4. RectPieces("other") \in Seq(AllPieces)
  BY <1>1, <1>3, Closed
<1> QED
  BY <1>1, <1>4 DEF Header

Plain(rect) == LET b == RectPieces(rect) IN
  b \in Seq(AllPieces) /\ Len(b) # 0 /\ b[1].kind = "rect"

LEMMA RectsAre ==
  ASSUME NEW rect \in Readable
  PROVE  LET b == RectPieces(rect) IN b \in Seq(AllPieces) /\ Len(b) # 0 /\ b[1].kind = "rect"
<1>1. \A of, m : Piece("rect", of, m).kind = "rect"
  BY DEF Piece
<1>2. Plain("rre")
  <2>1. Piece("rect", "rre", 1).kind = "rect"
    BY DEF Piece
  <2>2. LET b == RectPieces("rre") IN
         b \in Seq(AllPieces) /\ Len(b) = 4 /\ b[1] = Piece("rect", "rre", 1)
    BY RreIs, Zenon
  <2> QED
    BY <2>1, <2>2 DEF Plain
<1>3. Plain("hextile")
  <2>1. Piece("rect", "hextile", 5).kind = "rect"
    BY DEF Piece
  <2>2. LET b == RectPieces("hextile") IN
         b \in Seq(AllPieces) /\ Len(b) = 10 /\ b[1] = Piece("rect", "hextile", 5)
    BY HextileIs, Zenon
  <2> QED
    BY <2>1, <2>2 DEF Plain
<1>4. Plain("tightPalette")
  <2>1. Piece("rect", "tight", 2).kind = "rect"
    BY DEF Piece
  <2>2. LET b == RectPieces("tightPalette") IN
         b \in Seq(AllPieces) /\ Len(b) = 7 /\ b[1] = Piece("rect", "tight", 2)
    BY TightPaletteIs, Zenon
  <2> QED
    BY <2>1, <2>2 DEF Plain
<1>5. Plain("badHextile")
  <2>1. Piece("rect", "hextile", 1).kind = "rect"
    BY DEF Piece
  <2>2. LET b == RectPieces("badHextile") IN
         b \in Seq(AllPieces) /\ Len(b) = 3 /\ b[1] = Piece("rect", "hextile", 1)
    BY BadHextileIs, Zenon
  <2> QED
    BY <2>1, <2>2 DEF Plain
<1>6. \A r \in {"raw", "emptyRaw", "copyRect", "tightFill", "tightJpeg", "tightCopy"} : Plain(r)
  BY <1>1, RawIs, EmptyRawIs, CopyRectIs, TightFillIs, TightJpegIs, TightCopyIs DEF Plain
<1>7. \A r \in {"tightFew", "tightGradient", "tightPng", "pngInTight", "zrle", "jpeg"} :
          Plain(r)
  <2>1. \A r \in {"tightFew", "tightGradient", "tightPng"} : Plain(r)
    BY <1>1, TightFewIs, TightGradientIs, TightPngIs DEF Plain
  <2>2. \A r \in {"pngInTight", "zrle", "jpeg"} : Plain(r)
    BY <1>1, PngInTightIs, ZrleIs, JpegIs DEF Plain
  <2> QED
    BY <2>1, <2>2
<1>8. \A r \in {"jpegQuant", "jpegBare", "lastRect", "cursor", "vmwareCursor", "qemuKey"} :
          Plain(r)
  <2>1. \A r \in {"jpegQuant", "jpegBare", "lastRect"} : Plain(r)
    BY <1>1, JpegQuantIs, JpegBareIs, LastRectIs DEF Plain
  <2>2. \A r \in {"cursor", "vmwareCursor", "qemuKey"} : Plain(r)
    BY <1>1, CursorIs, VmwareCursorIs, QemuKeyIs DEF Plain
  <2> QED
    BY <2>1, <2>2
<1>9. \A r \in {"name", "size1", "size2", "extendedSize2", "resizeRefused", "other"} : Plain(r)
  BY <1>1, NameIs, Size1Is, Size2Is, ExtendedSize2Is, ResizeRefusedIs, OtherIs DEF Plain
<1>10. rect \in Rects /\ rect # "emptyPalette" /\ rect # "vmwareUnknown"
  BY DEF Readable
<1> QED
  BY <1>2, <1>3, <1>4, <1>5, <1>6, <1>7, <1>8, <1>9, <1>10 DEF Plain, Rects

LEMMA MessagesAre ==
  ASSUME NEW b \in Messages
  PROVE  /\ b \in Seq(AllPieces) /\ Len(b) # 0
         /\ b[1].kind \in {"bell", "cutText", "fence", "xvp", "endContinuous", "colourMap",
                           "unexpected"}
         /\ b[1].kind \in {"bell", "endContinuous", "colourMap", "unexpected"} => Len(b) = 1
         /\ b[1].kind \in {"cutText", "fence"} => Len(b) = 3 /\ b[2].kind = "length"
         /\ b[1].kind = "cutText" => b[3].kind = "text"
         /\ b[1].kind = "fence" => b[3].kind = "payload"
         /\ b[1].kind = "xvp" => Len(b) = 2 /\ b[2].kind = "version"
<1>1. \A k : P(k).kind = k
  BY DEF P, Piece
<1>2. \A k \in {"bell", "cutText", "fence", "xvp", "endContinuous", "colourMap", "unexpected",
                "length", "text", "payload", "version"} : P(k) \in AllPieces
  BY PIs DEF Kinds
<1>3. b \in Seq(AllPieces)
  <2>1. CASE b = <<P("cutText"), P("length"), P("text")>>
    <3>1. P("cutText") \in AllPieces /\ P("length") \in AllPieces /\ P("text") \in AllPieces
      BY <1>2
    <3> QED
      BY <2>1, <3>1, Short, Zenon
  <2>2. ASSUME NEW of \in {"request", "response"}, b = Fence(of)
        PROVE  b \in Seq(AllPieces)
    <3>1. "length" \in Kinds /\ of \in Ofs
      BY DEF Kinds, Ofs
    <3>2. P("fence") \in AllPieces /\ Piece("length", of, 0) \in AllPieces
          /\ P("payload") \in AllPieces
      BY <1>2, <3>1, PieceIs
    <3> QED
      BY <2>2, <3>2, Short, Zenon DEF Fence
  <2>3. ASSUME NEW of \in {"known", "illegal"}, b = XvpMessage(of)
        PROVE  b \in Seq(AllPieces)
    <3>1. "version" \in Kinds /\ of \in Ofs
      BY DEF Kinds, Ofs
    <3>2. P("xvp") \in AllPieces /\ Piece("version", of, 0) \in AllPieces
      BY <1>2, <3>1, PieceIs
    <3> QED
      BY <2>3, <3>2, Short, Zenon DEF XvpMessage
  <2>4. CASE b \in {<<P("bell")>>, <<P("endContinuous")>>, <<P("colourMap")>>,
                    <<P("unexpected")>>}
    <3>1. /\ P("bell") \in AllPieces /\ P("endContinuous") \in AllPieces
          /\ P("colourMap") \in AllPieces /\ P("unexpected") \in AllPieces
      BY <1>2
    <3>2. \A x \in AllPieces : <<x>> \in Seq(AllPieces)
      BY Short, Zenon
    <3> QED
      BY <2>4, <3>1, <3>2, Zenon
  <2> QED
    BY <2>1, <2>2, <2>3, <2>4, Zenon DEF Messages
<1>4. \A k, of : Piece(k, of, 0).kind = k
  BY DEF Piece
<1>5. \/ b = <<P("cutText"), P("length"), P("text")>>
      \/ \E of : b = <<P("fence"), Piece("length", of, 0), P("payload")>>
      \/ \E of : b = <<P("xvp"), Piece("version", of, 0)>>
      \/ \E k \in {"bell", "endContinuous", "colourMap", "unexpected"} : b = <<P(k)>>
  BY DEF Messages, Fence, XvpMessage
<1>6. CASE b = <<P("cutText"), P("length"), P("text")>>
  BY <1>1, <1>3, <1>6
<1>7. ASSUME NEW of, b = <<P("fence"), Piece("length", of, 0), P("payload")>>
      PROVE  b[1].kind = "fence" /\ b[2].kind = "length" /\ b[3].kind = "payload" /\ Len(b) = 3
  BY <1>1, <1>4, <1>7
<1>8. ASSUME NEW of, b = <<P("xvp"), Piece("version", of, 0)>>
      PROVE  b[1].kind = "xvp" /\ b[2].kind = "version" /\ Len(b) = 2
  BY <1>1, <1>4, <1>8
<1>9. ASSUME NEW k \in {"bell", "endContinuous", "colourMap", "unexpected"}, b = <<P(k)>>
      PROVE  b[1].kind = k /\ Len(b) = 1
  BY <1>1, <1>9
<1> QED
  BY <1>3, <1>5, <1>6, <1>7, <1>8, <1>9

-----------------------------------------------------------------------------
(* What is drawn *)

LEMMA Cancelled ==
  ASSUME NEW S, NEW a \in Seq(S), NEW b \in Seq(S), NEW c \in Seq(S), a \o b = a \o c
  PROVE  b = c
<1>1. /\ Len(a \o b) = Len(a) + Len(b) /\ Len(a \o c) = Len(a) + Len(c)
      /\ \A i \in 1 .. Len(b) : (a \o b)[Len(a) + i] = b[i]
      /\ \A i \in 1 .. Len(c) : (a \o c)[Len(a) + i] = c[i]
  BY Joined
<1>2. Len(a) \in Nat /\ Len(b) \in Nat /\ Len(c) \in Nat
  BY LenProperties
<1>3. Len(b) = Len(c)
  BY <1>1, <1>2
<1>4. \A i \in 1 .. Len(b) : b[i] = c[i]
  BY <1>1, <1>3
<1> QED
  BY <1>3, <1>4, SeqEqual

\* A prefix is what the rest is put after.
LEMMA PrefixIs ==
  ASSUME NEW S, NEW a \in Seq(S), NEW b \in Seq(S)
  PROVE  IsPrefix(a, a \o b) /\ SubSeq(a \o b, Len(a) + 1, Len(a \o b)) = b
<1> DEFINE w == a \o b
           n == Len(a)
           k == Len(b)
<1>1. n \in Nat /\ k \in Nat /\ w \in Seq(S) /\ Len(w) = n + k
      /\ (\A i \in 1 .. n : w[i] = a[i]) /\ (\A i \in 1 .. k : w[n + i] = b[i])
  BY Joined, LenProperties
<1> HIDE DEF w
<1>2. SubSeq(w, n + 1, Len(w)) = b
  <2>1. /\ SubSeq(w, n + 1, Len(w)) \in Seq(S) /\ Len(SubSeq(w, n + 1, Len(w))) = k
        /\ \A i \in 1 .. k : SubSeq(w, n + 1, Len(w))[i] = b[i]
    <3>1. n \in 0 .. Len(w) /\ Len(w) - n = k
      BY <1>1
    <3> HIDE DEF n, k
    <3> QED
      BY <1>1, <3>1, Dropped
  <2> QED
    BY <2>1, SeqEqual
<1>3. SubSeq(w, 1, n) = a /\ SubSeq(a, 1, n) = a
  <2>1. \A i \in 1 .. n : a[i] \in S
    BY ElementOfSeq
  <2>2. \A i \in 1 .. n : w[i] \in S
    BY <1>1, <2>1
  <2> HIDE DEF n
  <2>3. 1 \in Int /\ n \in Int /\ n - 1 + 1 = n /\ (~ 1 <= n => n = 0)
        /\ \A i \in 1 .. n : 1 + i - 1 = i
    BY <1>1
  <2>4. /\ SubSeq(a, 1, n) \in Seq(S)
        /\ Len(SubSeq(a, 1, n)) = (IF 1 <= n THEN n - 1 + 1 ELSE 0)
        /\ \A i \in 1 .. n - 1 + 1 : SubSeq(a, 1, n)[i] = a[1 + i - 1]
    BY <2>1, <2>3, SubSeqProperties
  <2>5. /\ SubSeq(w, 1, n) \in Seq(S)
        /\ Len(SubSeq(w, 1, n)) = (IF 1 <= n THEN n - 1 + 1 ELSE 0)
        /\ \A i \in 1 .. n - 1 + 1 : SubSeq(w, 1, n)[i] = w[1 + i - 1]
    BY <2>2, <2>3, SubSeqProperties
  <2>6. Len(SubSeq(a, 1, n)) = n /\ \A i \in 1 .. n : SubSeq(a, 1, n)[i] = a[i]
    BY <2>3, <2>4
  <2>7. Len(SubSeq(w, 1, n)) = n /\ \A i \in 1 .. n : SubSeq(w, 1, n)[i] = a[i]
    BY <1>1, <2>3, <2>5
  <2>8. SubSeq(a, 1, n) = a
    BY <2>4, <2>6, SeqEqual DEF n
  <2>9. SubSeq(w, 1, n) = a
    BY <2>5, <2>7, SeqEqual DEF n
  <2> QED
    BY <2>8, <2>9
<1>4. IsPrefix(a, w)
  BY <1>1, <1>3 DEF IsPrefix
<1> QED
  BY <1>2, <1>4 DEF w

LEMMA FlatIs ==
  ASSUME NEW S, NEW seqs \in Seq(Seq(S))
  PROVE  FlattenSeq(seqs) \in Seq(S) /\ (seqs = <<>> => FlattenSeq(seqs) = <<>>)
<1>1. Len(seqs) \in Nat /\ DOMAIN seqs = 1 .. Len(seqs)
      /\ \A i \in 1 .. Len(seqs) : seqs[i] \in Seq(S)
  BY LenProperties, ElementOfSeq
<1>2. CASE Len(seqs) = 0
  <2>1. seqs = <<>> /\ FlattenSeq(seqs) = seqs
    BY <1>2, EmptySeq DEF FlattenSeq
  <2>2. <<>> \in Seq(S)
    BY EmptySeq
  <2> QED
    BY <2>1, <2>2
<1>3. CASE Len(seqs) # 0
  <2> DEFINE n == Len(seqs)
  <2>1. n \in Nat \ {0} /\ seqs # <<>> /\ n \in 1 .. n
    BY <1>1, <1>3
  <2>2. PICK f : Gathers(f, seqs, n, S)
    <3> HIDE DEF n
    <3> QED
      BY <1>1, <2>1, Flattened DEF n
  <2> HIDE DEF n
  <2>3. FlattenSeq(seqs) \in Seq(S)
    BY <2>1, <2>2 DEF Gathers
  <2> QED
    BY <2>1, <2>3
<1> QED
  BY <1>2, <1>3

LEMMA FlatJoin ==
  ASSUME NEW S, NEW a \in Seq(Seq(S)), NEW b \in Seq(Seq(S))
  PROVE  FlattenSeq(a \o b) = FlattenSeq(a) \o FlattenSeq(b)
<1>a. \A x, y, z \in Seq(S) : (x \o y) \o z = x \o (y \o z)
  BY Associative
<1> DEFINE n == Len(a)
           k == Len(b)
           w == a \o b
<1>1. /\ n \in Nat /\ k \in Nat /\ w \in Seq(Seq(S)) /\ Len(w) = n + k
      /\ (\A i \in 1 .. n : w[i] = a[i]) /\ (\A i \in 1 .. k : w[n + i] = b[i])
  BY Joined, LenProperties
<1>2. /\ DOMAIN a = 1 .. n /\ DOMAIN b = 1 .. k /\ DOMAIN w = 1 .. Len(w)
      /\ (\A i \in 1 .. n : a[i] \in Seq(S)) /\ (\A i \in 1 .. k : b[i] \in Seq(S))
      /\ \A i \in 1 .. Len(w) : w[i] \in Seq(S)
  BY <1>1, LenProperties, ElementOfSeq
<1>3. CASE n = 0
  <2>1. a = <<>>
    BY <1>3, EmptySeq
  <2>2. w = b /\ FlattenSeq(a) = <<>> /\ FlattenSeq(b) \in Seq(S)
    BY <2>1, FlatIs, ConcatEmptySeq
  <2> QED
    BY <2>2, ConcatEmptySeq
<1>4. CASE k = 0
  <2>1. b = <<>>
    BY <1>4, EmptySeq
  <2>2. w = a /\ FlattenSeq(b) = <<>> /\ FlattenSeq(a) \in Seq(S)
    BY <2>1, FlatIs, ConcatEmptySeq
  <2> QED
    BY <2>2, ConcatEmptySeq
<1>5. CASE n # 0 /\ k # 0
  <2> HIDE DEF n, k, w
  <2>1. n \in Nat \ {0} /\ k \in Nat \ {0} /\ n + k \in Nat \ {0} /\ n \in 1 .. n /\ k \in 1 .. k
    BY <1>1, <1>5
  <2>2. PICK fa : Gathers(fa, a, n, S)
    BY <1>2, <2>1, Flattened DEF n
  <2>3. PICK fb : Gathers(fb, b, k, S)
    BY <1>2, <2>1, Flattened DEF k
  <2>4. PICK fw : Gathers(fw, w, n + k, S)
    BY <1>1, <1>2, <2>1, Flattened
  <2>5. /\ fa[1] = a[1] /\ (\A i \in 2 .. n : fa[i] = fa[i - 1] \o a[i])
        /\ (\A i \in 1 .. n : fa[i] \in Seq(S)) /\ FlattenSeq(a) = fa[n]
    BY <2>2 DEF Gathers
  <2>6. /\ fb[1] = b[1] /\ (\A i \in 2 .. k : fb[i] = fb[i - 1] \o b[i])
        /\ (\A i \in 1 .. k : fb[i] \in Seq(S)) /\ FlattenSeq(b) = fb[k]
    BY <2>3 DEF Gathers
  <2>7. /\ fw[1] = w[1] /\ (\A i \in 2 .. n + k : fw[i] = fw[i - 1] \o w[i])
        /\ FlattenSeq(w) = fw[n + k]
    BY <2>4 DEF Gathers
  <2> DEFINE Same == {i \in Nat : i + 1 \in 1 .. n => fw[i + 1] = fa[i + 1]}
             Met(i) == fw[n + i] = fa[n] \o fb[i]
             After == {i \in Nat : i + 1 \in 1 .. k => Met(i + 1)}
  <2>8. 0 \in Same
    BY <1>1, <2>1, <2>5, <2>7
  <2>9. ASSUME NEW i \in Same
        PROVE  i + 1 \in Same
    <3> SUFFICES ASSUME (i + 1) + 1 \in 1 .. n
                 PROVE  fw[(i + 1) + 1] = fa[(i + 1) + 1]
      OBVIOUS
    <3> DEFINE j == (i + 1) + 1
    <3>1. j - 1 = i + 1 /\ i + 1 \in 1 .. n /\ j \in 2 .. n /\ j \in 2 .. n + k /\ j \in 1 .. n
      BY <2>1
    <3>2. fw[j] = fw[j - 1] \o w[j] /\ fa[j] = fa[j - 1] \o a[j] /\ w[j] = a[j]
      BY <1>1, <2>5, <2>7, <3>1
    <3>3. fw[i + 1] = fa[i + 1]
      BY <3>1
    <3> QED
      BY <3>1, <3>2, <3>3
  <2> HIDE DEF Same
  <2>10. Same = Nat
    <3>1. Same \subseteq Nat
      BY DEF Same
    <3> QED
      BY <2>8, <2>9, <3>1, Induction
  <2>11. fw[n] = fa[n]
    <3>1. n - 1 \in Same /\ (n - 1) + 1 = n
      BY <2>1, <2>10
    <3> QED
      BY <2>1, <3>1 DEF Same
  <2>12. Met(1)
    <3>1. n + 1 \in 2 .. n + k /\ (n + 1) - 1 = n /\ 1 \in 1 .. k
      BY <2>1
    <3>2. fw[n + 1] = fw[n] \o w[n + 1] /\ w[n + 1] = b[1]
      BY <1>1, <2>7, <3>1
    <3> QED
      BY <2>6, <2>11, <3>2
  <2>13. ASSUME NEW j \in 2 .. k, Met(j - 1)
         PROVE  Met(j)
    <3> DEFINE m == n + j
    <3>1. j - 1 \in 1 .. k /\ m \in 2 .. n + k /\ j \in 1 .. k /\ m - 1 = n + (j - 1)
      BY <2>1
    <3>2. fw[m] = fw[m - 1] \o w[m] /\ fb[j] = fb[j - 1] \o b[j] /\ w[m] = b[j]
      BY <1>1, <2>6, <2>7, <3>1
    <3>3. fw[n + (j - 1)] = fa[n] \o fb[j - 1]
      BY <2>13
    <3>4. fa[n] \in Seq(S) /\ fb[j - 1] \in Seq(S) /\ b[j] \in Seq(S)
      BY <1>2, <2>1, <2>5, <2>6, <3>1
    <3> HIDE DEF m
    <3>5. fw[m] = (fa[n] \o fb[j - 1]) \o b[j] /\ fb[j] = fb[j - 1] \o b[j]
      BY <3>1, <3>2, <3>3
    <3>8. (fa[n] \o fb[j - 1]) \o b[j] = fa[n] \o (fb[j - 1] \o b[j])
      BY <1>a, <3>4
    <3>7. fw[m] = fa[n] \o fb[j]
      BY <3>5, <3>8
    <3> QED
      BY <3>7 DEF m
  <2> HIDE DEF Met
  <2>17. 0 \in After
    BY <2>12
  <2>18. ASSUME NEW i \in After
         PROVE  i + 1 \in After
    <3> SUFFICES ASSUME (i + 1) + 1 \in 1 .. k
                 PROVE  Met((i + 1) + 1)
      OBVIOUS
    <3>1. i + 1 \in 1 .. k /\ (i + 1) + 1 \in 2 .. k /\ ((i + 1) + 1) - 1 = i + 1
      BY <2>1
    <3>2. Met(i + 1)
      BY <3>1
    <3> QED
      BY <2>13, <3>1, <3>2
  <2> HIDE DEF After
  <2>14. After = Nat
    <3>1. After \subseteq Nat
      BY DEF After
    <3> QED
      BY <2>17, <2>18, <3>1, Induction
  <2>15. fw[n + k] = fa[n] \o fb[k]
    <3>1. k - 1 \in After /\ (k - 1) + 1 = k
      BY <2>1, <2>14
    <3> QED
      BY <2>1, <3>1 DEF After, Met
  <2>16. FlattenSeq(w) = FlattenSeq(a) \o FlattenSeq(b)
    BY <2>5, <2>6, <2>7, <2>15
  <2> QED
    BY <2>16 DEF w
<1> QED
  BY <1>3, <1>4, <1>5

LEMMA LeastIsInIt ==
  ASSUME NEW S \in SUBSET Nat, S # {}
  PROVE  Min(S) \in S /\ \A x \in S : Min(S) <= x
<1>1. PICK m \in S : \A x \in S : <<x, m>> \notin OpToRel(<, Nat)
  BY WFMin, NatLessThanWellFounded, Zenon
<1>2. \A x \in S : <<x, m>> \in OpToRel(<, Nat) <=> x < m
  BY DEF OpToRel
<1>3. ASSUME NEW x \in S
      PROVE  m <= x
  <2>1. ~ (x < m) /\ x \in Nat /\ m \in Nat
    BY <1>1, <1>2
  <2> QED
    BY <2>1
<1> QED
  BY <1>3, Zenon DEF Min

LEMMA MaxIs ==
  ASSUME NEW S \in SUBSET Int, NEW m \in S, \A x \in S : x <= m
  PROVE  Max(S) = m
<1>1. \A x \in S : m >= x
  OBVIOUS
<1>2. Max(S) \in S /\ \A x \in S : Max(S) >= x
  BY <1>1, Zenon DEF Max
<1>3. Max(S) \in Int /\ m \in Int /\ Max(S) <= m /\ Max(S) >= m
  BY <1>2
<1> QED
  BY <1>3

Whats == {"copy", "fill", "image", "jpeg", "line", "pixels", "png", "tile"}
AllDraws == [what : Whats, parts : Seq(Nat)]
Items ==
  [type : {"fill", "copy", "blit", "img", "flip", "viewFlip"}, draws : Seq(AllDraws),
   img : {"loading", "loaded", "broken"}]

\* Draws put end to end, twice, and with none.
LEMMA DrawsRegroup ==
  /\ \A a, b, c \in Seq(AllDraws) : (a \o b) \o c = a \o (b \o c)
  /\ \A a \in Seq(AllDraws) : a \o <<>> = a /\ <<>> \o a = a
<1>1. \A a, b, c \in Seq(AllDraws) : (a \o b) \o c = a \o (b \o c)
  BY Associative
<1>2. \A a \in Seq(AllDraws) : a \o <<>> = a /\ <<>> \o a = a
  BY ConcatEmptySeq
<1> QED
  BY <1>1, <1>2

LEMMA ItemsJoined ==
  \A s, t \in Seq(Items) :
    /\ s \o t \in Seq(Items) /\ Len(s \o t) = Len(s) + Len(t)
    /\ \A i \in 1 .. Len(s) : (s \o t)[i] = s[i]
    /\ \A i \in 1 .. Len(t) : (s \o t)[Len(s) + i] = t[i]
BY Joined

LEMMA DrawsIs ==
  ASSUME NEW items \in Seq(Items)
  PROVE  Draws(items) \in Seq(AllDraws)
<1> DEFINE each == [i \in 1 .. Len(items) |-> items[i].draws]
<1>1. Len(items) \in Nat
  BY LenProperties
<1>2. \A i \in 1 .. Len(items) : items[i].draws \in Seq(AllDraws)
  <2>1. \A i \in 1 .. Len(items) : items[i] \in Items
    BY ElementOfSeq
  <2> QED
    BY <2>1 DEF Items
<1>3. each \in Seq(Seq(AllDraws))
  BY <1>1, <1>2
<1> HIDE DEF each
<1>4. FlattenSeq(each) \in Seq(AllDraws)
  BY <1>3, FlatIs
<1> QED
  BY <1>4 DEF Draws, each

LEMMA DrawsNone == Draws(<<>>) = <<>>
<1> DEFINE each == [i \in 1 .. Len(<<>>) |-> <<>>[i].draws]
<1>1. each = <<>>
  OBVIOUS
<1> HIDE DEF each
<1>2. <<>> \in Seq(Seq(AllDraws))
  BY EmptySeq
<1>3. FlattenSeq(each) = <<>>
  BY <1>1, <1>2, FlatIs
<1> QED
  BY <1>3 DEF Draws, each

LEMMA DrawsJoin ==
  ASSUME NEW a \in Seq(Items), NEW b \in Seq(Items)
  PROVE  Draws(a \o b) = Draws(a) \o Draws(b)
<1> DEFINE each(items) == [i \in 1 .. Len(items) |-> items[i].draws]
           n == Len(a)
           k == Len(b)
<1>1. \A items \in Seq(Items) : each(items) \in Seq(Seq(AllDraws)) /\ Len(each(items)) = Len(items)
  <2> SUFFICES ASSUME NEW items \in Seq(Items)
               PROVE  each(items) \in Seq(Seq(AllDraws)) /\ Len(each(items)) = Len(items)
    OBVIOUS
  <2>1. \A i \in 1 .. Len(items) : items[i] \in Items
    BY ElementOfSeq
  <2>2. \A i \in 1 .. Len(items) : items[i].draws \in Seq(AllDraws)
    BY <2>1 DEF Items
  <2>3. Len(items) \in Nat
    BY LenProperties
  <2> QED
    BY <2>2, <2>3
<1>2. /\ a \o b \in Seq(Items) /\ Len(a \o b) = n + k
      /\ (\A i \in 1 .. n : (a \o b)[i] = a[i]) /\ (\A i \in 1 .. k : (a \o b)[n + i] = b[i])
      /\ n \in Nat /\ k \in Nat
  BY Joined, LenProperties
<1> DEFINE w == each(a \o b)
           u == each(a) \o each(b)
<1>3. /\ u \in Seq(Seq(AllDraws)) /\ Len(u) = n + k
      /\ (\A i \in 1 .. n : u[i] = each(a)[i]) /\ (\A i \in 1 .. k : u[n + i] = each(b)[i])
  <2> DEFINE x == each(a)
             y == each(b)
  <2>1. x \in Seq(Seq(AllDraws)) /\ y \in Seq(Seq(AllDraws)) /\ Len(x) = n /\ Len(y) = k
    BY <1>1
  <2> HIDE DEF x, y, n, k
  <2>2. /\ x \o y \in Seq(Seq(AllDraws)) /\ Len(x \o y) = Len(x) + Len(y)
        /\ (\A i \in 1 .. Len(x) : (x \o y)[i] = x[i])
        /\ (\A i \in 1 .. Len(y) : (x \o y)[Len(x) + i] = y[i])
    <3>1. x \in Seq(Seq(AllDraws)) /\ y \in Seq(Seq(AllDraws))
      BY <2>1
    <3> QED
      BY <3>1, Joined
  <2>3. /\ x \o y \in Seq(Seq(AllDraws)) /\ Len(x \o y) = n + k
        /\ (\A i \in 1 .. n : (x \o y)[i] = x[i])
        /\ (\A i \in 1 .. k : (x \o y)[n + i] = y[i])
    BY <2>1, <2>2
  <2> QED
    BY <2>3 DEF x, y
<1>4. /\ w \in Seq(Seq(AllDraws)) /\ Len(w) = n + k
      /\ \A i \in 1 .. n + k : w[i] = (a \o b)[i].draws
  BY <1>1, <1>2
<1>5. /\ \A i \in 1 .. n : each(a)[i] = a[i].draws
      /\ \A i \in 1 .. k : each(b)[i] = b[i].draws
  OBVIOUS
<1>6. ASSUME NEW i \in 1 .. n + k
      PROVE  w[i] = u[i]
  <2> HIDE DEF w, u, each, n, k
  <2>1. CASE i \in 1 .. n
    BY <1>2, <1>3, <1>4, <1>5, <2>1
  <2>2. CASE i \notin 1 .. n
    <3>1. i - n \in 1 .. k /\ n + (i - n) = i
      BY <1>2, <2>2
    <3>2. (a \o b)[i] = b[i - n] /\ u[i] = each(b)[i - n]
      BY <1>2, <1>3, <3>1
    <3> QED
      BY <1>4, <1>5, <3>1, <3>2
  <2> QED
    BY <2>1, <2>2
<1> HIDE DEF w, u
<1>7. w = u
  BY <1>3, <1>4, <1>6, SeqEqual
<1>8. FlattenSeq(w) = FlattenSeq(each(a)) \o FlattenSeq(each(b))
  <2>1. each(a) \in Seq(Seq(AllDraws)) /\ each(b) \in Seq(Seq(AllDraws))
    BY <1>1
  <2> HIDE DEF each
  <2> QED
    BY <1>7, <2>1, FlatJoin DEF u
<1> QED
  BY <1>8 DEF Draws, w

LEMMA DrawsOne == ASSUME NEW x \in Items PROVE Draws(<<x>>) = x.draws
<1> DEFINE each == [i \in 1 .. Len(<<x>>) |-> <<x>>[i].draws]
<1>1. each \in Seq(Seq(AllDraws)) /\ Len(each) = 1 /\ each[1] = x.draws /\ DOMAIN each = 1 .. 1
  BY DEF Items
<1> HIDE DEF each
<1>2. PICK f : Gathers(f, each, 1, AllDraws)
  <2>1. 1 \in Nat \ {0} /\ \A i \in 1 .. 1 : each[i] \in Seq(AllDraws)
    BY <1>1 DEF Items
  <2> QED
    BY <1>1, <2>1, Flattened
<1>3. FlattenSeq(each) = x.draws
  BY <1>1, <1>2 DEF Gathers
<1> QED
  BY <1>3 DEF Draws, each

LEMMA Cut ==
  ASSUME NEW S, NEW s \in Seq(S), NEW n \in 0 .. Len(s)
  PROVE  /\ SubSeq(s, 1, n) \in Seq(S) /\ SubSeq(s, n + 1, Len(s)) \in Seq(S)
         /\ s = SubSeq(s, 1, n) \o SubSeq(s, n + 1, Len(s))
<1> DEFINE a == SubSeq(s, 1, n)
           b == SubSeq(s, n + 1, Len(s))
<1>1. Len(s) \in Nat /\ n \in Nat
  BY LenProperties
<1>2. b \in Seq(S) /\ Len(b) = Len(s) - n /\ \A i \in 1 .. Len(s) - n : b[i] = s[n + i]
  BY Dropped
<1>3. \A i \in 1 .. n : i \in 1 .. Len(s) /\ s[i] \in S
  BY <1>1, ElementOfSeq
<1>4. 1 \in Int /\ n \in Int /\ n - 1 + 1 = n /\ (~ 1 <= n => n = 0)
      /\ \A i \in 1 .. n : 1 + i - 1 = i
  BY <1>1
<1>5. /\ a \in Seq(S) /\ Len(a) = (IF 1 <= n THEN n - 1 + 1 ELSE 0)
      /\ \A i \in 1 .. n - 1 + 1 : a[i] = s[1 + i - 1]
  BY <1>3, <1>4, SubSeqProperties
<1>6. Len(a) = n /\ \A i \in 1 .. n : a[i] = s[i]
  BY <1>4, <1>5
<1> HIDE DEF a, b
<1>7. /\ a \o b \in Seq(S) /\ Len(a \o b) = Len(s)
      /\ (\A i \in 1 .. n : (a \o b)[i] = s[i])
      /\ (\A i \in 1 .. Len(s) - n : (a \o b)[n + i] = s[n + i])
  <2>1. /\ a \o b \in Seq(S) /\ Len(a \o b) = Len(a) + Len(b)
        /\ (\A i \in 1 .. Len(a) : (a \o b)[i] = a[i])
        /\ (\A i \in 1 .. Len(b) : (a \o b)[Len(a) + i] = b[i])
    <3>1. a \in Seq(S) /\ b \in Seq(S)
      BY <1>2, <1>5
    <3> QED
      BY <3>1, Joined
  <2>2. n + (Len(s) - n) = Len(s)
    BY <1>1
  <2> QED
    BY <1>2, <1>6, <2>1, <2>2
<1>8. \A i \in 1 .. Len(s) : i \in 1 .. n \/ (i - n \in 1 .. Len(s) - n /\ n + (i - n) = i)
  BY <1>1
<1>9. \A i \in 1 .. Len(s) : (a \o b)[i] = s[i]
  BY <1>7, <1>8
<1>10. a \o b = s
  BY <1>7, <1>9, SeqEqual
<1> QED
  BY <1>2, <1>5, <1>10 DEF a, b

\* What is drawn comes off what is due; the rest stays due.
LEMMA ScanPaints ==
  ASSUME NEW items \in Seq(Items), NEW g \in Seq(AllDraws), due = Draws(items) \o g,
         wrong = FALSE, Scan(items)
  PROVE  /\ queue' \in Seq(Items) /\ wrong' = FALSE /\ due' = Draws(queue') \o g
         /\ (\A i \in 1 .. Len(items) : Ready(items[i])) => queue' = <<>>
<1> DEFINE n == ReadyCount(items)
           late == {i \in 1 .. Len(items) : ~Ready(items[i])}
           a == SubSeq(items, 1, n)
           b == SubSeq(items, n + 1, Len(items))
<1>1. Len(items) \in Nat /\ late \in SUBSET Nat
  BY LenProperties
<1>2. n \in 0 .. Len(items) /\ (late = {} => n = Len(items))
  <2>1. CASE late = {}
    BY <1>1, <2>1 DEF ReadyCount
  <2>2. CASE late # {}
    <3>1. Min(late) \in late
      BY <1>1, <2>2, LeastIsInIt
    <3>2. n = Min(late) - 1
      BY <2>2 DEF ReadyCount
    <3> HIDE DEF n
    <3>3. Min(late) \in 1 .. Len(items)
      BY <3>1
    <3> QED
      BY <1>1, <2>2, <3>2, <3>3
  <2> QED
    BY <2>1, <2>2
<1>3. Execute(a) /\ queue' = b
  BY DEF Scan
<1> HIDE DEF n
<1>4. a \in Seq(Items) /\ b \in Seq(Items) /\ items = a \o b
  BY <1>2, Cut
<1>5. late = {} => b = <<>>
  <2>1. n = Len(items) => Len(b) = 0
    BY <1>1, <1>2, Dropped
  <2> QED
    BY <1>2, <1>4, <2>1, EmptySeq
<1> DEFINE x == Draws(a)
           y == Draws(b)
           rest == y \o g
<1> HIDE DEF a, b
<1>6. x \in Seq(AllDraws) /\ y \in Seq(AllDraws) /\ Draws(items) = x \o y
  BY <1>4, DrawsIs, DrawsJoin
<1> HIDE DEF x, y
<1>7. rest \in Seq(AllDraws) /\ due = x \o rest
  <2>1. due = (x \o y) \o g
    BY <1>6
  <2>2. (x \o y) \o g = x \o (y \o g)
    BY <1>6, DrawsRegroup
  <2>3. y \o g \in Seq(AllDraws)
    BY <1>6, ConcatProperties
  <2> QED
    BY <2>1, <2>2, <2>3
<1> HIDE DEF rest
<1>8. IsPrefix(x, due) /\ SubSeq(due, Len(x) + 1, Len(due)) = rest
  BY <1>6, <1>7, PrefixIs
<1>9. due' = rest /\ wrong' = wrong
  BY <1>3, <1>8 DEF Execute, x
<1>10. Draws(queue') = y
  BY <1>3 DEF y
<1>11. (\A i \in 1 .. Len(items) : Ready(items[i])) => late = {}
  OBVIOUS
<1>12. queue' \in Seq(Items) /\ (late = {} => queue' = <<>>)
  BY <1>3, <1>4, <1>5
<1>13. due' = Draws(queue') \o g
  BY <1>9, <1>10 DEF rest
<1> HIDE DEF late
<1> QED
  BY <1>9, <1>11, <1>12, <1>13

\* FoldLeft goes over the rectangles from the last to the first.
Folding(picture, before, n, iter) ==
  iter = [s \in SUBSET (1 .. n) |->
            IF s = {} THEN before ELSE TablesOf(picture[Max(s)], iter[s \ {Max(s)}])]

LEMMA TablesFold ==
  ASSUME NEW picture, NEW before, NEW n, DOMAIN picture = 1 .. n
  PROVE  TablesAfter(picture, before)
           = (CHOOSE iter : Folding(picture, before, n, iter))[1 .. n]
BY Zenon DEF TablesAfter, FoldLeft, MapThenFoldSet, Folding

LEMMA FoldingExists ==
  ASSUME NEW picture, NEW before, NEW n \in Nat
  PROVE  \E iter : Folding(picture, before, n, iter)
<1> DEFINE Good == {k \in Nat : \E iter : Folding(picture, before, k, iter)}
<1>1. 0 \in Good
  <2> DEFINE it == [s \in SUBSET (1 .. 0) |-> before]
  <2>1. \A s \in SUBSET (1 .. 0) : s = {}
    OBVIOUS
  <2>2. it = [s \in SUBSET (1 .. 0) |->
            IF s = {} THEN before ELSE TablesOf(picture[Max(s)], it[s \ {Max(s)}])]
    BY <2>1
  <2> HIDE DEF it
  <2>3. Folding(picture, before, 0, it)
    BY <2>2 DEF Folding
  <2> QED
    BY <2>3
<1>2. ASSUME NEW k \in Good
      PROVE  k + 1 \in Good
  <2>1. PICK g : Folding(picture, before, k, g)
    OBVIOUS
  <2>2. k \in Nat /\ k + 1 \in Nat
    OBVIOUS
  <2> DEFINE m == k + 1
             it == [s \in SUBSET (1 .. m) |->
                      IF s \subseteq 1 .. k THEN g[s] ELSE TablesOf(picture[m], g[s \ {m}])]
  <2>3. ASSUME NEW s \in SUBSET (1 .. m)
        PROVE  it[s] = IF s = {} THEN before ELSE TablesOf(picture[Max(s)], it[s \ {Max(s)}])
    <3>1. CASE s \subseteq 1 .. k
      <4>1. it[s] = g[s]
        BY <3>1
      <4>2. g[s] = IF s = {} THEN before ELSE TablesOf(picture[Max(s)], g[s \ {Max(s)}])
        BY <2>1, <3>1 DEF Folding
      <4>3. s \ {Max(s)} \in SUBSET (1 .. m) /\ s \ {Max(s)} \subseteq 1 .. k
        BY <3>1
      <4>4. it[s \ {Max(s)}] = g[s \ {Max(s)}]
        BY <4>3
      <4> QED
        BY <4>1, <4>2, <4>4
    <3>2. CASE ~ (s \subseteq 1 .. k)
      <4>1. m \in s /\ s \in SUBSET Int /\ \A x \in s : x <= m
        BY <2>2, <3>2
      <4>2. Max(s) = m
        BY <4>1, MaxIs
      <4>3. s \ {m} \subseteq 1 .. k /\ s \ {m} \in SUBSET (1 .. m)
        BY <2>2
      <4>4. it[s \ {m}] = g[s \ {m}]
        BY <4>3
      <4>5. it[s] = TablesOf(picture[m], g[s \ {m}])
        BY <3>2
      <4>6. s # {}
        BY <4>1
      <4> HIDE DEF it, m
      <4> QED
        BY <4>2, <4>4, <4>5, <4>6
    <3> QED
      BY <3>1, <3>2
  <2>4. it = [s \in SUBSET (1 .. m) |-> it[s]]
    OBVIOUS
  <2> HIDE DEF it
  <2>5. it = [s \in SUBSET (1 .. m) |->
            IF s = {} THEN before ELSE TablesOf(picture[Max(s)], it[s \ {Max(s)}])]
    BY <2>3, <2>4
  <2>6. Folding(picture, before, m, it)
    BY <2>5 DEF Folding
  <2> QED
    BY <2>2, <2>6
<1> HIDE DEF Good
<1>3. Good \subseteq Nat
  BY DEF Good
<1>4. Good = Nat
  BY <1>1, <1>2, <1>3, Induction
<1> QED
  BY <1>4 DEF Good

\* The tables after so many rectangles of the update.
TablesAt(picture, i, before) == TablesAfter(SubSeq(picture, 1, i), before)

\* The last rectangle comes last.
LEMMA TablesLast ==
  ASSUME NEW S, NEW picture \in Seq(S), NEW before, NEW i \in 0 .. Len(picture)
  PROVE  \E g : /\ g[{}] = before /\ TablesAt(picture, i, before) = g[1 .. i]
                /\ \A j \in 0 .. i : j # 0 =>
                     g[1 .. j] = TablesOf(picture[j], g[1 .. (j - 1)])
<1> DEFINE p == SubSeq(picture, 1, i)
<1>1. Len(picture) \in Nat /\ i \in Nat
  BY LenProperties
<1>2. DOMAIN p = 1 .. i /\ \A j \in 1 .. i : p[j] = picture[j]
  <2>1. \A j \in 1 .. i : picture[j] \in S
    BY <1>1, ElementOfSeq
  <2>2. 1 \in Int /\ i \in Int /\ i - 1 + 1 = i /\ (~ 1 <= i => i = 0)
        /\ \A j \in 1 .. i : 1 + j - 1 = j
    BY <1>1
  <2>3. /\ p \in Seq(S) /\ Len(p) = (IF 1 <= i THEN i - 1 + 1 ELSE 0)
        /\ \A j \in 1 .. i - 1 + 1 : p[j] = picture[1 + j - 1]
    BY <2>1, <2>2, SubSeqProperties
  <2>4. Len(p) = i /\ \A j \in 1 .. i : p[j] = picture[j]
    BY <2>2, <2>3
  <2> HIDE DEF p
  <2> QED
    BY <2>3, <2>4, LenProperties
<1> HIDE DEF p
<1> DEFINE g == CHOOSE iter : Folding(p, before, i, iter)
<1>3. Folding(p, before, i, g)
  BY <1>1, FoldingExists
<1>4. TablesAfter(p, before) = g[1 .. i]
  BY <1>2, TablesFold
<1> HIDE DEF g
<1>5. \A s \in SUBSET (1 .. i) :
        g[s] = IF s = {} THEN before ELSE TablesOf(p[Max(s)], g[s \ {Max(s)}])
  BY <1>3 DEF Folding
<1>6. g[{}] = before
  <2>1. {} \in SUBSET (1 .. i)
    OBVIOUS
  <2> QED
    BY <1>5, <2>1, Zenon
<1>7. ASSUME NEW j \in 0 .. i, j # 0
      PROVE  g[1 .. j] = TablesOf(picture[j], g[1 .. (j - 1)])
  <2> DEFINE s == 1 .. j
  <2>0. i \in Nat /\ j \in Nat /\ 1 <= j /\ j <= i
    BY <1>1, <1>7
  <2>1. s \in SUBSET (1 .. i) /\ s # {} /\ s \in SUBSET Int /\ j \in s /\ (\A x \in s : x <= j)
        /\ j \in 1 .. i
    <3>1. j \in s /\ j \in 1 .. i /\ (\A x \in s : x <= j)
      BY <2>0
    <3>2. \A x \in s : x \in 1 .. i /\ x \in Int
      BY <2>0
    <3> HIDE DEF s
    <3> QED
      BY <3>1, <3>2
  <2>4. s \ {j} = 1 .. (j - 1)
    BY <2>0
  <2>2. Max(s) = j
    <3> HIDE DEF s
    <3> QED
      BY <2>1, MaxIs
  <2>3. g[s] = TablesOf(p[Max(s)], g[s \ {Max(s)}])
    <3> HIDE DEF s
    <3> QED
      BY <1>5, <2>1
  <2> QED
    BY <1>2, <2>1, <2>2, <2>3, <2>4
<1> QED
  BY <1>4, <1>6, <1>7 DEF p, TablesAt

LEMMA TablesFollow ==
  ASSUME NEW S, NEW picture \in Seq(S), NEW before
  PROVE  /\ TablesAt(picture, 0, before) = before
         /\ TablesAt(picture, Len(picture), before) = TablesAfter(picture, before)
         /\ \A i \in 1 .. Len(picture) :
              TablesAt(picture, i, before)
                = TablesOf(picture[i], TablesAt(picture, i - 1, before))
<1>1. Len(picture) \in Nat /\ 0 \in 0 .. Len(picture)
  BY LenProperties
<1>2. TablesAt(picture, 0, before) = before
  <2>1. PICK g : g[{}] = before /\ TablesAt(picture, 0, before) = g[1 .. 0]
    BY <1>1, TablesLast
  <2>2. 1 .. 0 = {}
    OBVIOUS
  <2> QED
    BY <2>1, <2>2
<1>3. TablesAt(picture, Len(picture), before) = TablesAfter(picture, before)
  <2>1. SubSeq(picture, 1, Len(picture)) = picture
    <3> DEFINE n == Len(picture)
    <3>1. n \in Nat /\ \A j \in 1 .. n : picture[j] \in S
      BY LenProperties, ElementOfSeq
    <3>2. 1 \in Int /\ n \in Int /\ n - 1 + 1 = n /\ (~ 1 <= n => n = 0)
          /\ \A j \in 1 .. n : 1 + j - 1 = j
      BY <3>1
    <3>3. /\ SubSeq(picture, 1, n) \in Seq(S)
          /\ Len(SubSeq(picture, 1, n)) = (IF 1 <= n THEN n - 1 + 1 ELSE 0)
          /\ \A j \in 1 .. n - 1 + 1 : SubSeq(picture, 1, n)[j] = picture[1 + j - 1]
      BY <3>1, <3>2, SubSeqProperties
    <3>4. Len(SubSeq(picture, 1, n)) = n /\ \A j \in 1 .. n : SubSeq(picture, 1, n)[j] = picture[j]
      BY <3>2, <3>3
    <3> QED
      BY <3>3, <3>4, SeqEqual
  <2> QED
    BY <2>1 DEF TablesAt
<1>4. ASSUME NEW i \in 1 .. Len(picture)
      PROVE  TablesAt(picture, i, before)
               = TablesOf(picture[i], TablesAt(picture, i - 1, before))
  <2>1. i \in 0 .. Len(picture) /\ i - 1 \in 0 .. Len(picture) /\ i # 0 /\ i \in 0 .. i
        /\ \A j \in 0 .. i - 1 : j \in 0 .. i
    BY <1>1
  <2>2. PICK g : /\ g[{}] = before /\ TablesAt(picture, i, before) = g[1 .. i]
                 /\ \A j \in 0 .. i : j # 0 =>
                      g[1 .. j] = TablesOf(picture[j], g[1 .. (j - 1)])
    <3>1. i \in 0 .. Len(picture)
      BY <2>1
    <3> QED
      BY <3>1, TablesLast
  <2> DEFINE k == i - 1
  <2>3. k \in 0 .. Len(picture) /\ k \in Nat
    BY <2>1
  <2> HIDE DEF k
  <2>4. PICK h : /\ h[{}] = before /\ TablesAt(picture, k, before) = h[1 .. k]
                 /\ \A j \in 0 .. k : j # 0 =>
                      h[1 .. j] = TablesOf(picture[j], h[1 .. (j - 1)])
    BY <2>3, TablesLast
  <2> DEFINE Same == {j \in Nat : j \in 0 .. k => g[1 .. j] = h[1 .. j]}
  <2>5. 0 \in Same
    <3>1. 1 .. 0 = {}
      OBVIOUS
    <3>2. g[1 .. 0] = h[1 .. 0]
      BY <2>2, <2>4, <3>1
    <3> QED
      BY <3>2
  <2>6. ASSUME NEW j \in Same
        PROVE  j + 1 \in Same
    <3> DEFINE l == j + 1
    <3> SUFFICES ASSUME l \in 0 .. k
                 PROVE  g[1 .. l] = h[1 .. l]
      OBVIOUS
    <3>1. j \in 0 .. k /\ l # 0 /\ l - 1 = j /\ l \in 0 .. i
      BY <2>1, <2>3 DEF k
    <3>2. g[1 .. j] = h[1 .. j]
      BY <3>1
    <3> HIDE DEF l
    <3>3. g[1 .. l] = TablesOf(picture[l], g[1 .. (l - 1)])
      BY <2>2, <3>1
    <3>4. h[1 .. l] = TablesOf(picture[l], h[1 .. (l - 1)])
      BY <2>4, <3>1
    <3> QED
      BY <3>1, <3>2, <3>3, <3>4
  <2> HIDE DEF Same
  <2>7. Same = Nat
    <3>1. Same \subseteq Nat
      BY DEF Same
    <3> QED
      BY <2>5, <2>6, <3>1, Induction
  <2>8. g[1 .. k] = h[1 .. k]
    <3>1. k \in Same /\ k \in 0 .. k
      BY <2>3, <2>7
    <3> QED
      BY <3>1 DEF Same
  <2>9. g[1 .. i] = TablesOf(picture[i], g[1 .. k])
    <3>1. i \in 0 .. i /\ i # 0
      BY <2>1
    <3>2. g[1 .. i] = TablesOf(picture[i], g[1 .. (i - 1)])
      BY <2>2, <3>1
    <3> QED
      BY <3>2 DEF k
  <2> QED
    BY <2>2, <2>4, <2>8, <2>9 DEF k
<1> QED
  BY <1>2, <1>3, <1>4

-----------------------------------------------------------------------------
(* The grammar of the stream *)

\* The tables of JPEG files, and what has been sent to be drawn with them.
Tables == [quant : Seq(Nat), huffman : Seq(Nat)]

\* Images wait in the queue, and all that comes after them; what refers to the
\* receive queue must not.
Images == {"tightJpeg", "tightPng", "jpeg", "jpegQuant", "jpegBare"}
Direct == {"raw", "rre", "hextile"}
Tidy(picture) ==
  \A i, j \in 1 .. Len(picture) :
    i < j /\ picture[i] \in Images => picture[j] \notin Direct
Orderly == \A server \in Pictures : \A picture \in server : Tidy(picture)

\* The drawing up to and with a block: the rectangle, if it is one, the tables
\* after it, all that is drawn, and whether an image is part of the update.
Inks ==
  [rect : Readable \cup {"none"}, tables : Tables, drawn : Seq(AllDraws), imaged : BOOLEAN]
Inked(ink, rect) ==
  LET tb == TablesOf(rect, ink.tables) IN
  [rect |-> rect, tables |-> tb, drawn |-> ink.drawn \o RectDraws(rect, tb),
   imaged |-> ink.imaged \/ rect \in Images]
NoInk(ink, imaged) ==
  [rect |-> "none", tables |-> ink.tables, drawn |-> ink.drawn, imaged |-> imaged]
Fits(ink, rect) == Orderly => ~ (rect \in Direct /\ ink.imaged)

\* Where a reader of the stream is: how many rectangles of the update are to
\* come after the block at hand, that block, how much of it has been read, and
\* the size of the framebuffer and the drawing after it.  A block is a
\* rectangle, the header of an update or another message.
Place == [rects : Nat, block : Seq(AllPieces), read : Nat, size : Sizes, ink : Inks]

AtEndOfBlock(s) == s.read = Len(s.block)
AtRest(s) == AtEndOfBlock(s) /\ s.rects = 0

Resized(rect, size) == IF rect \in DOMAIN NewSize THEN NewSize[rect] ELSE size
Counted(n) == <<P("update"), Piece("count", "", n)>>

\* The block of t may follow the one of s.
MessageFollows(s, t) ==
  /\ s.rects = 0 /\ t.rects = 0 /\ t.size = s.size /\ t.block \in Messages
  /\ t.ink = NoInk(s.ink, s.ink.imaged)
UpdateFollows(s, t) ==
  /\ s.rects = 0 /\ t.rects # 0 /\ t.size = s.size /\ t.block = Counted(t.rects)
  /\ t.ink = NoInk(s.ink, FALSE)
RectFollows(s, t, rect) ==
  /\ s.rects > 0 /\ t.size = Resized(rect, s.size) /\ t.block = RectPieces(rect)
  /\ t.rects = IF rect = "lastRect" THEN 0 ELSE s.rects - 1
  /\ t.ink = Inked(s.ink, rect) /\ Fits(s.ink, rect)
Follows(s, t) ==
  MessageFollows(s, t) \/ UpdateFollows(s, t) \/ \E rect \in Readable : RectFollows(s, t, rect)

\* The piece p leads from s to t.
Inside(s, p, t) ==
  s.read < Len(s.block) /\ p = s.block[s.read + 1] /\ t = [s EXCEPT !.read = s.read + 1]
Across(s, p, t) == AtEndOfBlock(s) /\ Follows(s, t) /\ t.read = 1 /\ p = t.block[1]
Step(s, p, t) == Inside(s, p, t) \/ Across(s, p, t)

\* The pieces w lead from s to e.
Leads(at, w) == \A i \in 1 .. Len(w) : Step(at[i - 1], w[i], at[i])
Run(w, s, e) ==
  \E at \in [0 .. Len(w) -> Place] : at[0] = s /\ at[Len(w)] = e /\ Leads(at, w)

LEMMA Moved ==
  ASSUME NEW s \in Place, NEW n \in Nat
  PROVE  LET t == [s EXCEPT !.read = n] IN
         /\ t \in Place /\ t.read = n /\ t.block = s.block /\ t.rects = s.rects
         /\ t.size = s.size /\ t.ink = s.ink /\ \A m : [t EXCEPT !.read = m] = [s EXCEPT !.read = m]
BY DEF Place

LEMMA RunEnds ==
  ASSUME NEW s \in Place, NEW e, NEW w \in Seq(AllPieces), Run(w, s, e)
  PROVE  e \in Place /\ (Len(w) = 0 => e = s)
<1>1. Len(w) \in Nat
  BY LenProperties
<1> QED
  BY <1>1 DEF Run

LEMMA RunStarts == ASSUME NEW s \in Place PROVE Run(<<>>, s, s)
<1> DEFINE at == [i \in 0 .. 0 |-> s]
<1>1. at \in [0 .. 0 -> Place] /\ at[0] = s /\ Len(<<>>) = 0
  OBVIOUS
<1> HIDE DEF at
<1>2. Leads(at, <<>>)
  BY <1>1 DEF Leads
<1> QED
  BY <1>1, <1>2 DEF Run

\* One run after another.
LEMMA RunAppend ==
  ASSUME NEW w \in Seq(AllPieces), NEW u \in Seq(AllPieces), NEW s, NEW m, NEW e,
         Run(w, s, m), Run(u, m, e)
  PROVE  Run(w \o u, s, e)
<1>1. PICK at \in [0 .. Len(w) -> Place] : at[0] = s /\ at[Len(w)] = m /\ Leads(at, w)
  BY DEF Run
<1>2. PICK bt \in [0 .. Len(u) -> Place] : bt[0] = m /\ bt[Len(u)] = e /\ Leads(bt, u)
  BY DEF Run
<1> DEFINE n == Len(w)
           k == Len(u)
           ct == [i \in 0 .. n + k |-> IF i <= n THEN at[i] ELSE bt[i - n]]
<1>3. n \in Nat /\ k \in Nat /\ Len(w \o u) = n + k
      /\ (\A i \in 1 .. n : (w \o u)[i] = w[i]) /\ (\A i \in 1 .. k : (w \o u)[n + i] = u[i])
  BY Joined, LenProperties
<1> HIDE DEF n, k
<1>4. /\ ct \in [0 .. n + k -> Place]
      /\ \A i \in 0 .. n : ct[i] = at[i]
      /\ \A i \in 0 .. k : ct[n + i] = bt[i]
  <2>1. \A i \in 0 .. n + k : i <= n => i \in 0 .. n
    BY <1>3
  <2>2. \A i \in 0 .. n + k : ~ (i <= n) => i - n \in 0 .. k
    BY <1>3
  <2>3. ct \in [0 .. n + k -> Place]
    BY <1>1, <1>2, <2>1, <2>2 DEF n, k
  <2>4. \A i \in 0 .. n : ct[i] = at[i]
    BY <1>3
  <2>5. ct[n + 0] = bt[0]
    BY <1>1, <1>2, <1>3 DEF n
  <2>6. \A i \in 1 .. k : n + i \in 0 .. n + k /\ ~ (n + i <= n) /\ (n + i) - n = i
    BY <1>3
  <2>7. \A i \in 1 .. k : ct[n + i] = bt[i]
    BY <2>6
  <2>8. \A i \in 0 .. k : i = 0 \/ i \in 1 .. k
    BY <1>3
  <2> HIDE DEF ct
  <2> QED
    BY <2>3, <2>4, <2>5, <2>7, <2>8
<1> HIDE DEF ct
<1>5. ct[0] = s /\ ct[n + k] = e
  BY <1>1, <1>2, <1>3, <1>4 DEF n, k
<1>6. ASSUME NEW i \in 1 .. n + k
      PROVE  Step(ct[i - 1], (w \o u)[i], ct[i])
  <2>1. CASE i <= n
    <3>1. i \in 1 .. n /\ i - 1 \in 0 .. n /\ i \in 0 .. n
      BY <1>3, <2>1
    <3>2. Step(at[i - 1], w[i], at[i])
      BY <1>1, <3>1 DEF Leads, n
    <3> QED
      BY <1>3, <1>4, <3>1, <3>2
  <2>2. CASE ~ (i <= n)
    <3> DEFINE j == i - n
    <3>1. j \in 1 .. k /\ j \in 0 .. k /\ j - 1 \in 0 .. k /\ i = n + j /\ i - 1 = n + (j - 1)
      BY <1>3, <2>2
    <3> HIDE DEF j
    <3>2. Step(bt[j - 1], u[j], bt[j])
      BY <1>2, <3>1 DEF Leads, k
    <3>3. ct[i - 1] = bt[j - 1] /\ ct[i] = bt[j] /\ (w \o u)[i] = u[j]
      BY <1>3, <1>4, <3>1
    <3> QED
      BY <3>2, <3>3
  <2> QED
    BY <2>1, <2>2
<1>7. Leads(ct, w \o u)
  BY <1>3, <1>6 DEF Leads
<1> QED
  BY <1>3, <1>4, <1>5, <1>7 DEF Run

\* A block, from its first piece to its last.
LEMMA RunBlock ==
  ASSUME NEW s \in Place, AtEndOfBlock(s), NEW e \in Place, Follows(s, e), AtEndOfBlock(e),
         Len(e.block) # 0
  PROVE  Run(e.block, s, e)
<1> DEFINE b == e.block
           n == Len(b)
           at == [i \in 0 .. n |-> IF i = 0 THEN s ELSE [e EXCEPT !.read = i]]
<1>1. b \in Seq(AllPieces) /\ n \in Nat /\ n # 0 /\ e.read = n
  BY LenProperties DEF Place, AtEndOfBlock
<1>2. \A i \in 1 .. n : [e EXCEPT !.read = i] \in Place
  BY DEF Place
<1>3. /\ at \in [0 .. n -> Place] /\ at[0] = s
      /\ \A i \in 1 .. n : at[i] = [e EXCEPT !.read = i]
  BY <1>1, <1>2
<1>4. [e EXCEPT !.read = n] = e
  BY <1>1 DEF Place
<1> HIDE DEF at
<1>5. ASSUME NEW i \in 1 .. n
      PROVE  Step(at[i - 1], b[i], at[i])
  <2>1. CASE i = 1
    <3> DEFINE t == [e EXCEPT !.read = 1]
    <3>1. at[i - 1] = s /\ at[i] = t
      BY <1>3, <2>1
    <3>2. t.read = 1 /\ t.block = b /\ t.rects = e.rects /\ t.size = e.size /\ t.ink = e.ink
      BY DEF Place
    <3> HIDE DEF t
    <3>3. Follows(s, t)
      BY <3>2 DEF Follows, MessageFollows, UpdateFollows, RectFollows
    <3>4. Across(s, b[1], t)
      BY <3>2, <3>3 DEF Across
    <3> QED
      BY <2>1, <3>1, <3>4 DEF Step
  <2>2. CASE i # 1
    <3> DEFINE p == [e EXCEPT !.read = i - 1]
    <3>1. i - 1 \in 1 .. n /\ i - 1 < n /\ (i - 1) + 1 = i
      BY <1>1, <2>2
    <3>2. at[i - 1] = p /\ at[i] = [e EXCEPT !.read = i]
      BY <1>3, <3>1
    <3>3. p.read = i - 1 /\ p.block = b /\ [p EXCEPT !.read = i] = [e EXCEPT !.read = i]
      BY DEF Place
    <3> HIDE DEF p
    <3>4. Inside(p, b[i], at[i])
      BY <3>1, <3>2, <3>3 DEF Inside
    <3> QED
      BY <3>2, <3>4 DEF Step
  <2> QED
    BY <2>1, <2>2
<1>6. at[n] = e
  BY <1>1, <1>3, <1>4
<1> QED
  BY <1>3, <1>5, <1>6 DEF Run, Leads

\* What the next pieces are, and where they lead, within a block.
LEMMA RunRead ==
  ASSUME NEW w \in Seq(AllPieces), NEW s \in Place, NEW e, Run(w, s, e),
         NEW n \in 0 .. Len(w), s.read + n <= Len(s.block)
  PROVE  LET t == [s EXCEPT !.read = s.read + n] IN
         /\ t \in Place /\ Run(SubSeq(w, n + 1, Len(w)), t, e)
         /\ \A i \in 1 .. n : w[i] = s.block[s.read + i]
<1> DEFINE t == [s EXCEPT !.read = s.read + n]
           u == SubSeq(w, n + 1, Len(w))
           m == Len(w)
<1>1. PICK at \in [0 .. Len(w) -> Place] : at[0] = s /\ at[Len(w)] = e /\ Leads(at, w)
  BY DEF Run
<1>2. m \in Nat /\ n \in Nat /\ n <= m /\ s.read \in Nat
  BY LenProperties DEF Place
<1>3. u \in Seq(AllPieces) /\ Len(u) = m - n /\ \A i \in 1 .. m - n : u[i] = w[n + i]
  BY Dropped
<1> DEFINE Good == {i \in Nat : i <= n => /\ at[i] = [s EXCEPT !.read = s.read + i]
                                          /\ (i # 0 => w[i] = s.block[s.read + i])}
<1>4. 0 \in Good
  BY <1>1, <1>2 DEF Place
<1>5. ASSUME NEW i \in Good
      PROVE  i + 1 \in Good
  <2> SUFFICES ASSUME i + 1 <= n
               PROVE  /\ at[i + 1] = [s EXCEPT !.read = s.read + (i + 1)]
                      /\ w[i + 1] = s.block[s.read + (i + 1)]
    OBVIOUS
  <2> DEFINE p == [s EXCEPT !.read = s.read + i]
  <2>1. at[i] = p /\ i \in Nat
    BY <1>2
  <2> HIDE DEF Good
  <2>2. Step(at[i], w[i + 1], at[i + 1])
    <3>1. i + 1 \in 1 .. m /\ (i + 1) - 1 = i
      BY <1>2, <2>1
    <3> QED
      BY <1>1, <3>1 DEF Leads
  <2>3. p.read = s.read + i /\ p.block = s.block
        /\ [p EXCEPT !.read = (s.read + i) + 1] = [s EXCEPT !.read = (s.read + i) + 1]
    BY DEF Place
  <2> HIDE DEF p
  <2>4. p.read < Len(p.block) /\ (s.read + i) + 1 = s.read + (i + 1)
    <3>1. Len(s.block) \in Nat
      BY LenProperties DEF Place
    <3> QED
      BY <1>2, <2>1, <2>3, <3>1
  <2>5. Inside(p, w[i + 1], at[i + 1])
    <3>1. ~ AtEndOfBlock(p)
      <4>1. Len(p.block) \in Nat /\ p.read \in Nat
        BY <1>2, <2>1, <2>3, LenProperties DEF Place
      <4> QED
        BY <2>4, <4>1 DEF AtEndOfBlock
    <3> QED
      BY <2>1, <2>2, <3>1 DEF Step, Across
  <2> QED
    BY <2>3, <2>4, <2>5 DEF Inside
<1> HIDE DEF Good
<1>6. Good = Nat
  <2>1. Good \subseteq Nat
    BY DEF Good
  <2> QED
    BY <1>4, <1>5, <2>1, Induction
<1>7. \A i \in Nat : i <= n => /\ at[i] = [s EXCEPT !.read = s.read + i]
                                 /\ i # 0 => w[i] = s.block[s.read + i]
  BY <1>6, Zenon DEF Good
<1>8. at[n] = t /\ t \in Place /\ \A i \in 1 .. n : w[i] = s.block[s.read + i]
  <2>1. n <= n /\ \A i \in 1 .. n : i \in Nat /\ i <= n /\ i # 0
    BY <1>2
  <2>2. at[n] = t
    BY <1>2, <1>7, <2>1
  <2>3. t \in Place
    <3>1. s.read + n \in Nat
      BY <1>2
    <3> QED
      BY <3>1, Moved
  <2>4. ASSUME NEW i \in 1 .. n
        PROVE  w[i] = s.block[s.read + i]
    <3>1. i \in Nat /\ i <= n /\ i # 0
      BY <1>2
    <3>2. i # 0 => w[i] = s.block[s.read + i]
      BY <1>7, <3>1
    <3> QED
      BY <3>1, <3>2
  <2> QED
    BY <2>2, <2>3, <2>4
<1> DEFINE bt == [i \in 0 .. m - n |-> at[n + i]]
<1>9. \A i \in 0 .. m - n : n + i \in 0 .. m
  BY <1>2
<1>10. bt \in [0 .. m - n -> Place] /\ \A i \in 0 .. m - n : bt[i] = at[n + i]
  BY <1>1, <1>9
<1> HIDE DEF bt, u, t
<1>11. bt[0] = t /\ bt[m - n] = e
  <2>1. 0 \in 0 .. m - n /\ m - n \in 0 .. m - n /\ n + 0 = n /\ n + (m - n) = m
    BY <1>2
  <2> QED
    BY <1>1, <1>8, <1>10, <2>1
<1>12. Leads(bt, u)
  <2> SUFFICES ASSUME NEW i \in 1 .. m - n
               PROVE  Step(bt[i - 1], u[i], bt[i])
    BY <1>3 DEF Leads
  <2>1. i \in 0 .. m - n /\ i - 1 \in 0 .. m - n /\ n + i \in 1 .. m /\ (n + i) - 1 = n + (i - 1)
    BY <1>2
  <2>2. Step(at[(n + i) - 1], w[n + i], at[n + i])
    BY <1>1, <2>1 DEF Leads
  <2> QED
    BY <1>3, <1>10, <2>1, <2>2
<1>13. Run(u, t, e)
  BY <1>3, <1>10, <1>11, <1>12 DEF Run
<1> QED
  BY <1>8, <1>13 DEF t, u

LEMMA CountedIs ==
  ASSUME NEW n \in Nat
  PROVE  LET b == Counted(n) IN
         /\ b \in Seq(AllPieces) /\ Len(b) = 2 /\ b[1].kind = "update" /\ b[2].kind = "count"
         /\ b[2].n = n
<1>1. P("update").kind = "update" /\ Piece("count", "", n).kind = "count"
      /\ Piece("count", "", n).n = n
  BY DEF P, Piece
<1>2. P("update") \in AllPieces /\ Piece("count", "", n) \in AllPieces
  BY PIs, PieceIs DEF Kinds, Ofs
<1> QED
  BY <1>1, <1>2, Short DEF Counted

LEMMA BlocksAreNotEmpty ==
  ASSUME NEW s, NEW t \in Place, Follows(s, t)
  PROVE  t.block \in Seq(AllPieces) /\ Len(t.block) # 0
<1>1. CASE MessageFollows(s, t)
  BY <1>1, MessagesAre DEF MessageFollows
<1>2. CASE UpdateFollows(s, t)
  <2>1. t.rects \in Nat
    BY DEF Place
  <2> QED
    BY <1>2, <2>1, CountedIs DEF UpdateFollows
<1>3. CASE \E rect \in Readable : RectFollows(s, t, rect)
  BY <1>3, RectsAre DEF RectFollows
<1> QED
  BY <1>1, <1>2, <1>3 DEF Follows

\* At the end of a block the next one begins.
LEMMA RunNext ==
  ASSUME NEW w \in Seq(AllPieces), NEW s \in Place, NEW e, Run(w, s, e),
         AtEndOfBlock(s), Len(w) # 0
  PROVE  \E t \in Place : Follows(s, t) /\ t.read = 0 /\ Run(w, t, e)
<1>1. PICK at \in [0 .. Len(w) -> Place] : at[0] = s /\ at[Len(w)] = e /\ Leads(at, w)
  BY DEF Run
<1> DEFINE m == Len(w)
           t == [at[1] EXCEPT !.read = 0]
           bt == [at EXCEPT ![0] = t]
<1>2. m \in Nat /\ m # 0 /\ 1 \in 1 .. m /\ 1 - 1 = 0
  BY LenProperties
<1>3. at[1] \in Place
  BY <1>1, <1>2
<1>4. Across(s, w[1], at[1])
  <2>1. Step(at[0], w[1], at[1])
    BY <1>1, <1>2 DEF Leads
  <2>2. ~ Inside(s, w[1], at[1])
    <3>1. Len(s.block) \in Nat
      BY LenProperties DEF Place
    <3> QED
      BY <3>1 DEF Inside, AtEndOfBlock
  <2> QED
    BY <1>1, <2>1, <2>2 DEF Step
<1>5. /\ t \in Place /\ t.read = 0 /\ t.block = at[1].block /\ t.rects = at[1].rects
      /\ t.size = at[1].size /\ t.ink = at[1].ink
      /\ [t EXCEPT !.read = 0 + 1] = [at[1] EXCEPT !.read = 1]
  <2>1. 0 + 1 = 1 /\ 0 \in Nat
    OBVIOUS
  <2> QED
    BY <1>3, <2>1, Moved
<1>6. [at[1] EXCEPT !.read = 1] = at[1]
  BY <1>3, <1>4 DEF Place, Across
<1>7. /\ bt \in [0 .. m -> Place] /\ bt[0] = t /\ bt[m] = e
      /\ \A i \in 1 .. m : bt[i] = at[i]
  BY <1>1, <1>2, <1>5
<1> HIDE DEF t, bt
<1>8. Follows(s, t)
  BY <1>4, <1>5 DEF Across, Follows, MessageFollows, UpdateFollows, RectFollows
<1>9. Len(t.block) # 0
  BY <1>5, <1>8, BlocksAreNotEmpty
<1>10. Inside(t, w[1], at[1])
  <2>1. t.read < Len(t.block)
    <3>1. Len(t.block) \in Nat
      BY <1>5, LenProperties DEF Place
    <3> QED
      BY <1>5, <1>9, <3>1
  <2> QED
    BY <1>4, <1>5, <1>6, <2>1 DEF Across, Inside
<1>11. ASSUME NEW i \in 1 .. m
       PROVE  Step(bt[i - 1], w[i], bt[i])
  <2>1. CASE i = 1
    BY <1>2, <1>7, <1>10, <2>1 DEF Step
  <2>2. CASE i # 1
    <3>1. i - 1 \in 1 .. m
      BY <1>2, <2>2
    <3> QED
      BY <1>1, <1>7, <3>1 DEF Leads
  <2> QED
    BY <2>1, <2>2
<1>12. Run(w, t, e)
  BY <1>7, <1>11 DEF Run, Leads
<1> QED
  BY <1>5, <1>8, <1>12

-----------------------------------------------------------------------------
(* A whole update *)

\* The size after so many rectangles of the update.
Resizes(picture, i) == {j \in 1 .. i : picture[j] \in DOMAIN NewSize}
SizeAt(picture, i, before) ==
  IF Resizes(picture, i) = {} THEN before ELSE NewSize[picture[Max(Resizes(picture, i))]]

LEMMA SizesFollow ==
  ASSUME NEW picture, NEW i \in Nat, NEW before
  PROVE  /\ SizeAt(picture, 0, before) = before
         /\ SizeAt(picture, i + 1, before)
              = Resized(picture[i + 1], SizeAt(picture, i, before))
<1>1. Resizes(picture, 0) = {}
  BY DEF Resizes
<1>2. CASE picture[i + 1] \in DOMAIN NewSize
  <2> DEFINE S == Resizes(picture, i + 1)
  <2>1. S \in SUBSET Int /\ i + 1 \in S /\ \A x \in S : x <= i + 1
    BY <1>2 DEF Resizes
  <2> HIDE DEF S
  <2>2. Max(S) = i + 1 /\ S # {}
    BY <2>1, MaxIs
  <2> QED
    BY <1>1, <1>2, <2>2 DEF SizeAt, Resized, S
<1>3. CASE picture[i + 1] \notin DOMAIN NewSize
  <2>1. Resizes(picture, i + 1) = Resizes(picture, i)
    BY <1>3 DEF Resizes
  <2> QED
    BY <1>1, <1>3, <2>1 DEF SizeAt, Resized
<1> QED
  BY <1>1, <1>2, <1>3

LEMMA ResizedIs ==
  ASSUME NEW rect, NEW size \in Sizes
  PROVE  Resized(rect, size) \in Sizes
<1>1. {1, 2} \subseteq Sizes
  BY UpdatesAssumption
<1>2. /\ NewSize = [x \in {"size1", "size2", "extendedSize2"} |-> NewSize[x]]
      /\ DOMAIN NewSize = {"size1", "size2", "extendedSize2"}
      /\ NewSize["size1"] = 1 /\ NewSize["size2"] = 2 /\ NewSize["extendedSize2"] = 2
  BY DEF NewSize
<1> QED
  BY <1>1, <1>2 DEF Resized

\* What a rectangle draws, and the drawing after it.
LEMMA TablesOfAre ==
  ASSUME NEW rect, NEW tb \in Tables
  PROVE  TablesOf(rect, tb) \in Tables
<1>1. <<1, 2>> \in Seq(Nat) /\ <<3>> \in Seq(Nat) /\ <<4>> \in Seq(Nat)
  OBVIOUS
<1> QED
  BY <1>1 DEF TablesOf, Tables

LEMMA RectDrawsAre ==
  ASSUME NEW rect, NEW tb \in Tables
  PROVE  RectDraws(rect, tb) \in Seq(AllDraws)
<1> DEFINE ImageDraw == Draw("image", tb.quant \o tb.huffman)
<1>1. \A what \in Whats, parts \in Seq(Nat) : Draw(what, parts) \in AllDraws
  BY DEF Draw, AllDraws
<1>2. <<>> \in Seq(Nat) /\ \A n \in Nat : <<n>> \in Seq(Nat)
  OBVIOUS
<1>3. Whats = {"copy", "fill", "image", "jpeg", "line", "pixels", "png", "tile"}
  BY DEF Whats
<1>4. tb.quant \o tb.huffman \in Seq(Nat)
  BY ConcatProperties DEF Tables
<1>5. ImageDraw \in AllDraws
  BY <1>1, <1>3, <1>4
<1> HIDE DEF ImageDraw
<1>6. \A what \in Whats :
        Draw(what, <<>>) \in AllDraws /\ \A n \in Nat : Draw(what, <<n>>) \in AllDraws
  BY <1>1, <1>2
<1>7. /\ \A a \in AllDraws : <<a>> \in Seq(AllDraws)
      /\ \A a, b \in AllDraws : <<a, b>> \in Seq(AllDraws)
      /\ <<>> \in Seq(AllDraws)
  OBVIOUS
<1>8. /\ [i \in 1 .. 3 |-> Draw("fill", <<i - 1>>)] \in Seq(AllDraws)
      /\ [i \in 1 .. 4 |-> Draw("tile", <<i>>)] \in Seq(AllDraws)
  <2>1. \A i \in 1 .. 3 : Draw("fill", <<i - 1>>) \in AllDraws
    BY <1>3, <1>6
  <2>2. \A i \in Nat : Draw("tile", <<i>>) \in AllDraws
    BY <1>3, <1>6
  <2>3. \A f, n \in Nat : f \in [1 .. n -> AllDraws] => f \in Seq(AllDraws)
    BY SeqDef
  <2> QED
    BY <2>1, <2>2, <2>3
<1>9. /\ <<Draw("line", <<1>>), Draw("line", <<2>>)>> \in Seq(AllDraws)
      /\ <<Draw("tile", <<1>>), Draw("tile", <<2>>)>> \in Seq(AllDraws)
  BY <1>3, <1>6, <1>7
<1>10. <<ImageDraw>> \in Seq(AllDraws)
       /\ \A what \in Whats : <<Draw(what, <<>>)>> \in Seq(AllDraws)
  BY <1>5, <1>6, <1>7
<1> QED
  BY <1>3, <1>7, <1>8, <1>9, <1>10, Zenon DEF RectDraws, ImageDraw

LEMMA InkedIs ==
  ASSUME NEW ink \in Inks, NEW rect \in Readable
  PROVE  /\ Inked(ink, rect) \in Inks
         /\ Inked(ink, rect).rect = rect
         /\ Inked(ink, rect).tables = TablesOf(rect, ink.tables)
         /\ Inked(ink, rect).drawn
              = ink.drawn \o RectDraws(rect, TablesOf(rect, ink.tables))
         /\ Inked(ink, rect).imaged = (ink.imaged \/ rect \in Images)
<1> DEFINE tb == TablesOf(rect, ink.tables)
           ds == RectDraws(rect, tb)
           im == ink.imaged \/ rect \in Images
<1>1. ink.tables \in Tables /\ ink.drawn \in Seq(AllDraws)
  BY DEF Inks
<1>2. tb \in Tables
  BY <1>1, TablesOfAre
<1> HIDE DEF tb
<1>3. ds \in Seq(AllDraws)
  BY <1>2, RectDrawsAre
<1> HIDE DEF ds
<1>4. ink.drawn \o ds \in Seq(AllDraws)
  BY <1>1, <1>3, ConcatProperties
<1>5. im \in BOOLEAN
  OBVIOUS
<1>6. Inked(ink, rect) = [rect |-> rect, tables |-> tb, drawn |-> ink.drawn \o ds, imaged |-> im]
  BY DEF Inked, tb, ds
<1> HIDE DEF im
<1>7. Inked(ink, rect) \in Inks
  BY <1>2, <1>4, <1>5, <1>6 DEF Inks
<1> DEFINE r == [rect |-> rect, tables |-> tb, drawn |-> ink.drawn \o ds, imaged |-> im]
<1>8. r.rect = rect /\ r.tables = tb /\ r.drawn = ink.drawn \o ds /\ r.imaged = im
  BY Zenon
<1> HIDE DEF r
<1>9. Inked(ink, rect) = r
  BY <1>6, Zenon DEF r
<1> QED
  BY <1>7, <1>8, <1>9, Zenon DEF tb, ds, im

LEMMA NoInkIs ==
  ASSUME NEW ink \in Inks, NEW imaged \in BOOLEAN
  PROVE  /\ NoInk(ink, imaged) \in Inks
         /\ NoInk(ink, imaged).rect = "none" /\ NoInk(ink, imaged).tables = ink.tables
         /\ NoInk(ink, imaged).drawn = ink.drawn /\ NoInk(ink, imaged).imaged = imaged
         /\ NoInk(ink, imaged)
              = [rect |-> "none", tables |-> ink.tables, drawn |-> ink.drawn, imaged |-> imaged]
<1>1. ink.tables \in Tables /\ ink.drawn \in Seq(AllDraws)
  BY DEF Inks
<1> DEFINE r == [rect |-> "none", tables |-> ink.tables, drawn |-> ink.drawn, imaged |-> imaged]
<1>2. NoInk(ink, imaged) = r
  BY Zenon DEF NoInk
<1>3. r \in Inks
  BY <1>1 DEF Inks
<1>4. r.rect = "none" /\ r.tables = ink.tables /\ r.drawn = ink.drawn /\ r.imaged = imaged
  OBVIOUS
<1> HIDE DEF r
<1>5. /\ NoInk(ink, imaged).rect = "none" /\ NoInk(ink, imaged).tables = ink.tables
      /\ NoInk(ink, imaged).drawn = ink.drawn /\ NoInk(ink, imaged).imaged = imaged
  BY <1>2, <1>4
<1> QED
  BY <1>2, <1>3, <1>5 DEF r

\* A picture that this proof is about.
IsReadable(picture) ==
  /\ picture \in Seq(Readable) /\ picture # <<>>
  /\ \A i \in 1 .. Len(picture) : picture[i] = "lastRect" => i = Len(picture)
  /\ Orderly => Tidy(picture)

\* The drawing after each rectangle of an update.
InkWalk(ink, picture, before) ==
  /\ ink \in [0 .. Len(picture) -> Inks] /\ ink[0] = NoInk(before, FALSE)
  /\ \A i \in 1 .. Len(picture) :
       ink[i] = Inked(ink[i - 1], picture[i]) /\ Fits(ink[i - 1], picture[i])
  /\ ink[Len(picture)].tables = TablesAfter(picture, before.tables)
  /\ ink[Len(picture)].drawn = before.drawn \o UpdateDraws(picture, before.tables)
  /\ UpdateDraws(picture, before.tables) \in Seq(AllDraws)

LEMMA InksFollow ==
  ASSUME NEW picture, IsReadable(picture), NEW before \in Inks
  PROVE  \E ink : InkWalk(ink, picture, before)
<1> DEFINE n == Len(picture)
           tb == before.tables
           Tb(i) == TablesAt(picture, i, tb)
           seqs == [i \in 1 .. n |-> RectDraws(picture[i], Tb(i))]
<1>1. /\ n \in Nat \ {0} /\ picture \in Seq(Readable)
      /\ \A i \in 1 .. n : picture[i] \in Readable
  BY EmptySeq, LenProperties, ElementOfSeq DEF IsReadable
<1>2. tb \in Tables /\ before.drawn \in Seq(AllDraws)
  BY DEF Inks
<1> HIDE DEF n
<1>3. /\ Tb(0) = tb /\ Tb(n) = TablesAfter(picture, tb)
      /\ \A i \in 1 .. n : Tb(i) = TablesOf(picture[i], Tb(i - 1))
  BY <1>1, TablesFollow DEF n
<1> HIDE DEF Tb
<1>4. \A i \in 0 .. n : Tb(i) \in Tables
  <2> DEFINE Good == {i \in Nat : i <= n => Tb(i) \in Tables}
  <2>1. 0 \in Good
    BY <1>2, <1>3
  <2>2. ASSUME NEW i \in Good
        PROVE  i + 1 \in Good
    <3> SUFFICES ASSUME i + 1 <= n
                 PROVE  Tb(i + 1) \in Tables
      OBVIOUS
    <3>1. i \in Nat /\ i <= n /\ i + 1 \in 1 .. n /\ (i + 1) - 1 = i
      BY <1>1
    <3>2. Tb(i) \in Tables
      BY <3>1
    <3> QED
      BY <1>3, <3>1, <3>2, TablesOfAre
  <2> HIDE DEF Good
  <2>3. Good \subseteq Nat
    BY DEF Good
  <2>4. Good = Nat
    BY <2>1, <2>2, <2>3, Induction
  <2> QED
    BY <1>1, <2>4 DEF Good
<1>5. /\ DOMAIN seqs = 1 .. n /\ Len(seqs) = n
      /\ \A i \in 1 .. n : seqs[i] \in Seq(AllDraws) /\ seqs[i] = RectDraws(picture[i], Tb(i))
  <2>1. \A i \in 1 .. n : i \in 0 .. n
    BY <1>1
  <2> QED
    BY <1>1, <1>4, <2>1, RectDrawsAre
<1> HIDE DEF seqs
<1>6. PICK f : Gathers(f, seqs, n, AllDraws)
  BY <1>1, <1>5, Flattened
<1>7. /\ f[1] = seqs[1] /\ FlattenSeq(seqs) = f[n]
      /\ \A i \in 2 .. n : f[i] = f[i - 1] \o seqs[i]
      /\ \A i \in 1 .. n : f[i] \in Seq(AllDraws)
  BY <1>6 DEF Gathers
<1> DEFINE Rect(i) == IF i = 0 THEN "none" ELSE picture[i]
           Dn(i) == IF i = 0 THEN before.drawn ELSE before.drawn \o f[i]
           Im(i) == \E j \in 1 .. i : picture[j] \in Images
           ink == [i \in 0 .. n |-> [rect |-> Rect(i), tables |-> Tb(i), drawn |-> Dn(i),
                                     imaged |-> Im(i)]]
<1>8. \A i \in 0 .. n : Rect(i) \in Readable \cup {"none"}
  <2>1. \A i \in 0 .. n : i # 0 => i \in 1 .. n
    BY <1>1
  <2> QED
    BY <1>1, <2>1
<1>9. \A i \in 0 .. n : Dn(i) \in Seq(AllDraws)
  <2>1. \A i \in 0 .. n : i # 0 => i \in 1 .. n
    BY <1>1
  <2> QED
    BY <1>2, <1>7, <2>1, ConcatProperties
<1>10. \A i \in 0 .. n : Im(i) \in BOOLEAN
  OBVIOUS
<1>11. Im(0) = FALSE /\ Rect(0) = "none" /\ Dn(0) = before.drawn
  OBVIOUS
<1>12. ASSUME NEW i \in 1 .. n
       PROVE  /\ Rect(i) = picture[i] /\ Im(i) = (Im(i - 1) \/ picture[i] \in Images)
              /\ Dn(i) = Dn(i - 1) \o RectDraws(picture[i], Tb(i))
  <2>1. i # 0 /\ i \in Nat /\ i - 1 \in 0 .. n
    BY <1>1
  <2>2. Rect(i) = picture[i]
    BY <2>1
  <2>3. Im(i) = (Im(i - 1) \/ picture[i] \in Images)
    <3>1. 1 .. i = (1 .. (i - 1)) \cup {i}
      BY <2>1
    <3>2. Im(i) <=> (Im(i - 1) \/ picture[i] \in Images)
      BY <3>1
    <3> QED
      BY <3>2
  <2>4. Dn(i) = Dn(i - 1) \o RectDraws(picture[i], Tb(i))
    <3>1. CASE i = 1
      <4>1. Dn(1) = before.drawn \o f[1] /\ Dn(0) = before.drawn /\ 1 - 1 = 0
        OBVIOUS
      <4>2. f[1] = RectDraws(picture[1], Tb(1))
        BY <1>1, <1>5, <1>7
      <4> HIDE DEF Dn
      <4> QED
        BY <3>1, <4>1, <4>2
    <3>2. CASE i # 1
      <4>1. i \in 2 .. n /\ i - 1 \in 1 .. n /\ i - 1 # 0
        BY <1>1, <3>2
      <4>2. f[i] = f[i - 1] \o seqs[i] /\ f[i - 1] \in Seq(AllDraws) /\ seqs[i] \in Seq(AllDraws)
            /\ seqs[i] = RectDraws(picture[i], Tb(i))
        BY <1>5, <1>7, <4>1
      <4>3. before.drawn \in Seq(AllDraws) /\ f[i - 1] \in Seq(AllDraws)
            /\ seqs[i] \in Seq(AllDraws)
        BY <1>2, <4>2
      <4>4. (before.drawn \o f[i - 1]) \o seqs[i] = before.drawn \o (f[i - 1] \o seqs[i])
        <5> DEFINE a == before.drawn
                   b == f[i - 1]
                   d == seqs[i]
        <5>1. a \in Seq(AllDraws) /\ b \in Seq(AllDraws) /\ d \in Seq(AllDraws)
          BY <4>3
        <5> HIDE DEF a, b, d
        <5>2. (a \o b) \o d = a \o (b \o d)
          BY <5>1, DrawsRegroup
        <5> QED
          BY <5>2 DEF a, b, d
      <4>5. Dn(i) = before.drawn \o f[i] /\ Dn(i - 1) = before.drawn \o f[i - 1]
        BY <2>1, <4>1
      <4> HIDE DEF Dn
      <4> QED
        BY <4>2, <4>4, <4>5
    <3> QED
      BY <3>1, <3>2
  <2> QED
    BY <2>2, <2>3, <2>4
<1> HIDE DEF Rect, Dn, Im
<1>13. ink \in [0 .. n -> Inks]
  BY <1>4, <1>8, <1>9, <1>10 DEF Inks
<1>14. \A i \in 0 .. n : /\ ink[i].rect = Rect(i) /\ ink[i].tables = Tb(i)
                         /\ ink[i].drawn = Dn(i) /\ ink[i].imaged = Im(i)
                         /\ ink[i] = [rect |-> Rect(i), tables |-> Tb(i), drawn |-> Dn(i),
                                      imaged |-> Im(i)]
  OBVIOUS
<1> HIDE DEF ink
<1>15. ink[0] = NoInk(before, FALSE)
  <2>1. 0 \in 0 .. n
    BY <1>1
  <2>2. ink[0] = [rect |-> "none", tables |-> tb, drawn |-> before.drawn, imaged |-> FALSE]
    BY <1>3, <1>11, <1>14, <2>1
  <2> QED
    BY <2>2, NoInkIs
<1>16. ASSUME NEW i \in 1 .. n
       PROVE  ink[i] = Inked(ink[i - 1], picture[i]) /\ Fits(ink[i - 1], picture[i])
  <2>1. i \in 0 .. n /\ i - 1 \in 0 .. n /\ i - 1 \in Nat
    BY <1>1
  <2>2. ink[i] = Inked(ink[i - 1], picture[i])
    <3> DEFINE k == ink[i - 1]
    <3>1. k.tables = Tb(i - 1) /\ k.drawn = Dn(i - 1) /\ k.imaged = Im(i - 1)
      BY <1>14, <2>1
    <3> HIDE DEF k
    <3>2. Tb(i) = TablesOf(picture[i], Tb(i - 1))
      BY <1>3
    <3>3. ink[i] = [rect |-> picture[i], tables |-> Tb(i),
                    drawn |-> Dn(i - 1) \o RectDraws(picture[i], Tb(i)),
                    imaged |-> Im(i - 1) \/ picture[i] \in Images]
      BY <1>12, <1>14, <2>1
    <3>4. ink[i] = Inked(k, picture[i])
      BY <3>1, <3>2, <3>3, Zenon DEF Inked
    <3> QED
      BY <3>4 DEF k
  <2>3. Fits(ink[i - 1], picture[i])
    <3> SUFFICES ASSUME Orderly, ink[i - 1].imaged
                 PROVE  picture[i] \notin Direct
      BY DEF Fits
    <3>1. Im(i - 1)
      BY <1>14, <2>1
    <3>2. PICK j \in 1 .. (i - 1) : picture[j] \in Images
      BY <3>1 DEF Im
    <3>3. j \in 1 .. n /\ j < i
      BY <1>1
    <3>4. Tidy(picture)
      BY DEF IsReadable
    <3> QED
      BY <3>2, <3>3, <3>4 DEF Tidy, n
  <2> QED
    BY <2>2, <2>3
<1>17. ink[n].tables = TablesAfter(picture, tb)
       /\ ink[n].drawn = before.drawn \o UpdateDraws(picture, tb)
       /\ UpdateDraws(picture, tb) \in Seq(AllDraws)
  <2>1. n \in 0 .. n /\ n # 0 /\ n \in 1 .. n
    BY <1>1
  <2>2. UpdateDraws(picture, tb) = f[n]
    BY <1>7 DEF UpdateDraws, seqs, n, Tb, TablesAt
  <2>3. UpdateDraws(picture, tb) \in Seq(AllDraws)
    BY <1>7, <2>1, <2>2
  <2> QED
    BY <1>3, <1>14, <2>1, <2>2, <2>3 DEF Dn
<1> QED
  BY <1>13, <1>15, <1>16, <1>17 DEF InkWalk, n

LEMMA RunUpdate ==
  ASSUME NEW picture, IsReadable(picture), NEW s \in Place, AtRest(s)
  PROVE  /\ UpdatePieces(picture) \in Seq(AllPieces)
         /\ UpdateDraws(picture, s.ink.tables) \in Seq(AllDraws)
         /\ \E e \in Place : /\ AtRest(e) /\ e.size = SizeAfter(picture, s.size)
                             /\ e.ink.tables = TablesAfter(picture, s.ink.tables)
                             /\ e.ink.drawn
                                  = s.ink.drawn \o UpdateDraws(picture, s.ink.tables)
                             /\ Run(UpdatePieces(picture), s, e)
<1>0. s.ink \in Inks
  BY DEF Place
<1>ink. PICK ink : InkWalk(ink, picture, s.ink)
  BY <1>0, InksFollow
<1> DEFINE n == Len(picture)
           k == n + (IF EndsEarly(picture) THEN 9 ELSE 0)
           seqs == [i \in 1 .. n |-> RectPieces(picture[i])]
           Size(i) == SizeAt(picture, i, s.size)
           PlaceAfter(i) ==
             [rects |-> IF i = n THEN 0 ELSE k - i, block |-> RectPieces(picture[i]),
              read |-> Len(RectPieces(picture[i])), size |-> Size(i), ink |-> ink[i]]
           c == [rects |-> k, block |-> Counted(k), read |-> 2, size |-> s.size, ink |-> ink[0]]
<1>walk. /\ ink[0] \in Inks
         /\ \A i \in 0 .. n : ink[i] \in Inks
         /\ \A i \in 1 .. n : ink[i] = Inked(ink[i - 1], picture[i]) /\ Fits(ink[i - 1], picture[i])
         /\ ink[0] = NoInk(s.ink, FALSE)
         /\ ink[n].tables = TablesAfter(picture, s.ink.tables)
         /\ ink[n].drawn = s.ink.drawn \o UpdateDraws(picture, s.ink.tables)
  <2>1. Len(picture) \in Nat
    BY LenProperties DEF IsReadable
  <2>2. 0 \in 0 .. n
    BY <2>1
  <2> HIDE DEF n
  <2> QED
    BY <1>ink, <2>2 DEF InkWalk, n
<1>1. /\ n \in Nat \ {0} /\ k \in Nat /\ k >= n
      /\ \A i \in 1 .. n : picture[i] \in Readable /\ (picture[i] = "lastRect" => i = n)
      /\ picture[n] = "lastRect" \/ k = n
  <2>1. n \in Nat \ {0}
    BY EmptySeq, LenProperties DEF IsReadable
  <2>2. \A i \in 1 .. n : picture[i] \in Readable /\ (picture[i] = "lastRect" => i = n)
    BY ElementOfSeq DEF IsReadable
  <2>3. EndsEarly(picture) => picture[n] = "lastRect"
    BY DEF EndsEarly
  <2> QED
    BY <2>1, <2>2, <2>3
<1>2. \A i \in 1 .. n : /\ RectPieces(picture[i]) \in Seq(AllPieces)
                        /\ Len(RectPieces(picture[i])) \in Nat \ {0}
  BY <1>1, RectsAre, LenProperties
<1>3. \A i \in Nat : Size(i) \in Sizes
  <2> DEFINE Good == {i \in Nat : Size(i) \in Sizes}
  <2>1. 0 \in Good
    BY SizesFollow DEF Place
  <2>2. ASSUME NEW i \in Good
        PROVE  i + 1 \in Good
    <3>1. Size(i) \in Sizes /\ Size(i + 1) = Resized(picture[i + 1], Size(i)) /\ i + 1 \in Nat
      BY SizesFollow
    <3> QED
      BY <3>1, ResizedIs
  <2> HIDE DEF Good
  <2>3. Good \subseteq Nat
    BY DEF Good
  <2>4. Good = Nat
    BY <2>1, <2>2, <2>3, Induction
  <2> QED
    BY <2>4 DEF Good
<1>4. c \in Place /\ AtEndOfBlock(c) /\ UpdateFollows(s, c) /\ Len(c.block) # 0
      /\ Counted(k) \in Seq(AllPieces)
  <2> HIDE DEF k, n
  <2>1. ink[0] \in Inks /\ ink[0] = NoInk(s.ink, FALSE)
    BY <1>walk, Zenon
  <2>2. k \in Nat /\ k # 0 /\ s.rects = 0 /\ s.size \in Sizes
    BY <1>1 DEF AtRest, Place
  <2>3. Counted(k) \in Seq(AllPieces) /\ Len(Counted(k)) = 2
    BY <2>2, CountedIs
  <2>4. /\ c.rects = k /\ c.block = Counted(k) /\ c.read = 2 /\ c.size = s.size
        /\ c.ink = ink[0]
    OBVIOUS
  <2>5. c \in Place
    BY <2>1, <2>2, <2>3 DEF Place
  <2> HIDE DEF c
  <2> QED
    <3>1. UpdateFollows(s, c)
      BY <2>1, <2>2, <2>4, Zenon DEF UpdateFollows
    <3>2. AtEndOfBlock(c) /\ Len(c.block) # 0
      <4>1. c.read = 2 /\ Len(c.block) = 2
        BY <2>3, <2>4, Zenon
      <4> QED
        BY <4>1 DEF AtEndOfBlock
    <3> QED
      BY <2>3, <2>5, <3>1, <3>2
<1> HIDE DEF k, n
<1>5. \A i \in 1 .. n :
        /\ PlaceAfter(i) \in Place /\ AtEndOfBlock(PlaceAfter(i))
        /\ Len(PlaceAfter(i).block) # 0
  <2>1. \A i \in 1 .. n : ink[i] \in Inks
    BY <1>1, <1>walk
  <2> QED
    BY <1>1, <1>2, <1>3, <2>1 DEF Place, AtEndOfBlock
<1>6. /\ DOMAIN seqs = 1 .. n /\ Len(seqs) = n
      /\ \A i \in 1 .. n : seqs[i] \in Seq(AllPieces) /\ seqs[i] = RectPieces(picture[i])
  BY <1>1, <1>2
<1> HIDE DEF seqs
<1>7. PICK f : Gathers(f, seqs, n, AllPieces)
  <2>1. n \in Nat \ {0} /\ \A i \in 1 .. n : seqs[i] \in Seq(AllPieces)
    BY <1>1, <1>6
  <2>2. DOMAIN seqs = 1 .. n /\ Len(seqs) = n
    BY <1>6
  <2> HIDE DEF PlaceAfter, c, Size
  <2> QED
    BY <2>1, <2>2, Flattened
<1>8. /\ f[1] = seqs[1] /\ FlattenSeq(seqs) = f[n]
      /\ \A i \in 2 .. n : f[i] = f[i - 1] \o seqs[i]
      /\ \A i \in 1 .. n : f[i] \in Seq(AllPieces)
  BY <1>7 DEF Gathers
<1>9. Run(Counted(k), s, c)
  BY <1>4, RunBlock DEF Follows, AtRest
<1>10. Run(f[1], c, PlaceAfter(1))
  <2>1. 1 \in 1 .. n /\ f[1] = RectPieces(picture[1])
    BY <1>1, <1>6, <1>8
  <2>2. Size(1) = Resized(picture[1], s.size)
    <3>1. 0 \in Nat /\ 0 + 1 = 1
      OBVIOUS
    <3> QED
      BY <3>1, SizesFollow
  <2>3. PlaceAfter(1).rects = IF picture[1] = "lastRect" THEN 0 ELSE k - 1
    BY <1>1, <2>1
  <2>4. RectFollows(c, PlaceAfter(1), picture[1])
    <3>1. ink[1] = Inked(ink[0], picture[1]) /\ Fits(ink[0], picture[1])
      <4>1. 1 - 1 = 0
        OBVIOUS
      <4> QED
        BY <1>walk, <2>1, <4>1
    <3> QED
      BY <1>1, <2>2, <2>3, <3>1 DEF RectFollows
  <2>5. Follows(c, PlaceAfter(1))
    BY <1>1, <2>1, <2>4 DEF Follows
  <2> QED
    BY <1>4, <1>5, <2>1, <2>5, RunBlock
<1>11. ASSUME NEW i \in 1 .. n, i # n, Run(f[i], c, PlaceAfter(i))
       PROVE  Run(f[i + 1], c, PlaceAfter(i + 1))
  <2>1. i + 1 \in 1 .. n /\ i + 1 \in 2 .. n /\ (i + 1) - 1 = i /\ i \in Nat
    <3>1. n \in Nat /\ i < n
      BY <1>1, <1>11
    <3> QED
      BY <3>1
  <2>2. Size(i + 1) = Resized(picture[i + 1], Size(i))
    BY <2>1, SizesFollow
  <2>3. /\ PlaceAfter(i + 1).rects = IF picture[i + 1] = "lastRect" THEN 0 ELSE k - i - 1
        /\ k - i > 0
    BY <1>1, <2>1
  <2>4. RectFollows(PlaceAfter(i), PlaceAfter(i + 1), picture[i + 1])
    <3>1. ink[i + 1] = Inked(ink[i], picture[i + 1]) /\ Fits(ink[i], picture[i + 1])
      BY <1>walk, <2>1
    <3> QED
      BY <1>11, <2>2, <2>3, <3>1 DEF RectFollows
  <2>5. Follows(PlaceAfter(i), PlaceAfter(i + 1))
    BY <1>1, <2>1, <2>4 DEF Follows
  <2>6. Run(RectPieces(picture[i + 1]), PlaceAfter(i), PlaceAfter(i + 1))
    BY <1>5, <2>1, <2>5, RunBlock
  <2> HIDE DEF PlaceAfter
  <2>7. f[i + 1] = f[i] \o RectPieces(picture[i + 1])
    BY <1>6, <1>8, <2>1
  <2> QED
    BY <1>2, <1>8, <1>11, <2>1, <2>6, <2>7, RunAppend
<1>12. Run(f[n], c, PlaceAfter(n))
  <2> DEFINE Good == {i \in Nat : i + 1 \in 1 .. n => Run(f[i + 1], c, PlaceAfter(i + 1))}
  <2> HIDE DEF PlaceAfter
  <2>1. 0 \in Good
    BY <1>10
  <2>2. ASSUME NEW i \in Good
        PROVE  i + 1 \in Good
    <3> SUFFICES ASSUME (i + 1) + 1 \in 1 .. n
                 PROVE  Run(f[(i + 1) + 1], c, PlaceAfter((i + 1) + 1))
      OBVIOUS
    <3>1. i + 1 \in 1 .. n /\ i + 1 # n
      <4>1. n \in Nat /\ i \in Nat
        BY <1>1
      <4> QED
        BY <4>1
    <3>2. Run(f[i + 1], c, PlaceAfter(i + 1))
      BY <3>1
    <3> QED
      BY <1>11, <3>1, <3>2
  <2> HIDE DEF Good
  <2>3. Good \subseteq Nat
    BY DEF Good
  <2>4. Good = Nat
    BY <2>1, <2>2, <2>3, Induction
  <2>5. n - 1 \in Nat /\ (n - 1) + 1 = n /\ n \in 1 .. n
    BY <1>1
  <2> QED
    BY <2>4, <2>5 DEF Good
<1>13. UpdatePieces(picture) = Counted(k) \o f[n]
  BY <1>8 DEF UpdatePieces, Counted, seqs, k, n
<1>14. n \in 1 .. n /\ f[n] \in Seq(AllPieces)
  BY <1>1, <1>8
<1>15. UpdatePieces(picture) \in Seq(AllPieces)
  BY <1>4, <1>13, <1>14, Closed
<1>16. Run(UpdatePieces(picture), s, PlaceAfter(n))
  <2> HIDE DEF PlaceAfter, c
  <2> QED
    BY <1>4, <1>9, <1>12, <1>13, <1>14, RunAppend
<1>17. Size(n) = SizeAfter(picture, s.size)
  <2>1. DOMAIN picture = 1 .. n
    BY DEF n, IsReadable
  <2> QED
    BY <2>1 DEF SizeAt, SizeAfter, Resizes
<1>18. PlaceAfter(n).rects = 0 /\ PlaceAfter(n).size = Size(n) /\ PlaceAfter(n).ink = ink[n]
  OBVIOUS
<1> HIDE DEF PlaceAfter, Size
<1>19. UpdateDraws(picture, s.ink.tables) \in Seq(AllDraws)
  BY <1>ink DEF InkWalk
<1>20. ink[n].tables = TablesAfter(picture, s.ink.tables)
       /\ ink[n].drawn = s.ink.drawn \o UpdateDraws(picture, s.ink.tables)
  BY <1>walk
<1> QED
  BY <1>5, <1>14, <1>15, <1>16, <1>17, <1>18, <1>19, <1>20 DEF AtRest

\* The drawing only grows on the way.
LEMMA InkGrows ==
  ASSUME NEW s \in Place, NEW p, NEW t \in Place, Step(s, p, t)
  PROVE  \E f \in Seq(AllDraws) : t.ink.drawn = s.ink.drawn \o f
<1>1. s.ink \in Inks /\ t.ink \in Inks /\ s.ink.drawn \in Seq(AllDraws) /\ s.ink.tables \in Tables
  BY DEF Place, Inks
<1>2. <<>> \in Seq(AllDraws) /\ s.ink.drawn = s.ink.drawn \o <<>>
  BY <1>1, DrawsRegroup, EmptySeq
<1>3. CASE Inside(s, p, t)
  <2>1. t.ink = s.ink
    BY <1>3 DEF Inside, Place
  <2> QED
    BY <1>2, <2>1
<1>4. CASE MessageFollows(s, t) \/ UpdateFollows(s, t)
  <2>1. t.ink.drawn = s.ink.drawn
    BY <1>4 DEF MessageFollows, UpdateFollows, NoInk
  <2> QED
    BY <1>2, <2>1
<1>5. ASSUME NEW rect \in Readable, RectFollows(s, t, rect)
      PROVE  \E f \in Seq(AllDraws) : t.ink.drawn = s.ink.drawn \o f
  <2> DEFINE f == RectDraws(rect, TablesOf(rect, s.ink.tables))
  <2>1. f \in Seq(AllDraws)
    BY <1>1, TablesOfAre, RectDrawsAre
  <2>2. t.ink.drawn = s.ink.drawn \o f
    <3>1. t.ink = Inked(s.ink, rect)
      BY <1>5 DEF RectFollows
    <3>2. s.ink \in Inks
      BY <1>1
    <3>3. Inked(s.ink, rect).drawn = s.ink.drawn \o f
      BY <3>2, InkedIs
    <3> QED
      BY <3>1, <3>3
  <2> HIDE DEF f
  <2> QED
    BY <2>1, <2>2
<1> QED
  BY <1>3, <1>4, <1>5 DEF Step, Across, Follows

Grows(s, e) == \E f \in Seq(AllDraws) : e.ink.drawn = s.ink.drawn \o f

LEMMA RunGrows ==
  ASSUME NEW w \in Seq(AllPieces), NEW s \in Place, NEW e, Run(w, s, e)
  PROVE  Grows(s, e)
<1>1. PICK at \in [0 .. Len(w) -> Place] : at[0] = s /\ at[Len(w)] = e /\ Leads(at, w)
  BY DEF Run
<1> DEFINE m == Len(w)
           Grown(i) == \E f \in Seq(AllDraws) : at[i].ink.drawn = s.ink.drawn \o f
           Good == {i \in Nat : i <= m => Grown(i)}
<1>2. m \in Nat /\ s.ink.drawn \in Seq(AllDraws)
  BY LenProperties DEF Place, Inks
<1> HIDE DEF m
<1>3. 0 \in Good
  <2>1. <<>> \in Seq(AllDraws)
    BY EmptySeq, Zenon
  <2>2. s.ink.drawn \o <<>> = s.ink.drawn
    BY <1>2, ConcatEmptySeq, Zenon
  <2> QED
    BY <1>1, <2>1, <2>2
<1>4. ASSUME NEW i \in Good
      PROVE  i + 1 \in Good
  <2> SUFFICES ASSUME i + 1 <= m
               PROVE  Grown(i + 1)
    OBVIOUS
  <2>1. i \in Nat /\ i <= m /\ i \in 0 .. m /\ i + 1 \in 1 .. m /\ i + 1 \in 0 .. m
        /\ (i + 1) - 1 = i
    BY <1>2
  <2>2. PICK f \in Seq(AllDraws) : at[i].ink.drawn = s.ink.drawn \o f
    BY <2>1
  <2>3. Step(at[i], w[i + 1], at[i + 1]) /\ at[i] \in Place /\ at[i + 1] \in Place
    <3>1. Step(at[(i + 1) - 1], w[i + 1], at[i + 1])
      BY <1>1, <2>1 DEF Leads, m
    <3> QED
      BY <1>1, <2>1, <3>1 DEF m
  <2>4. PICK g \in Seq(AllDraws) : at[i + 1].ink.drawn = at[i].ink.drawn \o g
    BY <2>3, InkGrows
  <2>5. (s.ink.drawn \o f) \o g = s.ink.drawn \o (f \o g)
    <3> DEFINE a == s.ink.drawn
    <3>1. a \in Seq(AllDraws)
      BY <1>2
    <3> HIDE DEF a
    <3>2. (a \o f) \o g = a \o (f \o g)
      BY <3>1, DrawsRegroup
    <3> QED
      BY <3>2 DEF a
  <2>6. f \o g \in Seq(AllDraws)
    BY ConcatProperties
  <2> QED
    BY <2>2, <2>4, <2>5, <2>6
<1> HIDE DEF Good
<1>5. Good = Nat
  <2>1. Good \subseteq Nat
    BY DEF Good
  <2> QED
    BY <1>3, <1>4, <2>1, Induction
<1>6. Grown(m)
  <2>1. m <= m
    BY <1>2
  <2> QED
    BY <1>2, <1>5, <2>1 DEF Good
<1> QED
  BY <1>1, <1>6 DEF m, Grows

-----------------------------------------------------------------------------
(* The headers of the rectangles *)

Of(rect) == RectPieces(rect)[1].of
SizeOf(rect) == RectPieces(rect)[1].n
LenOf(rect) == Len(RectPieces(rect))
Starts(rect, of, n, len) == Of(rect) = of /\ SizeOf(rect) = n /\ LenOf(rect) = len

LEMMA Heads ==
  /\ Starts("raw", "raw", 2, 3)
  /\ Starts("emptyRaw", "raw", 0, 1)
  /\ Starts("copyRect", "copyRect", 1, 2)
  /\ Starts("rre", "rre", 1, 4)
  /\ Starts("hextile", "hextile", 5, 10)
  /\ Starts("badHextile", "hextile", 1, 3)
  /\ Starts("tightFill", "tight", 1, 3)
  /\ Starts("tightJpeg", "tight", 1, 4)
  /\ Starts("tightCopy", "tight", 2, 4)
  /\ Starts("tightFew", "tight", 1, 3)
  /\ Starts("tightPalette", "tight", 2, 7)
  /\ Starts("tightGradient", "tight", 2, 3)
  /\ Starts("tightPng", "tightPng", 1, 4)
  /\ Starts("pngInTight", "tight", 1, 4)
  /\ Starts("zrle", "zrle", 2, 3)
  /\ Starts("jpeg", "jpeg", 1, 6)
  /\ Starts("jpegQuant", "jpeg", 1, 4)
  /\ Starts("jpegBare", "jpeg", 1, 3)
  /\ Starts("lastRect", "lastRect", 0, 1)
  /\ Starts("cursor", "cursor", 1, 2)
  /\ Starts("vmwareCursor", "vmwareCursor", 1, 3)
  /\ Starts("qemuKey", "qemuKey", 0, 1)
  /\ Starts("name", "name", 0, 3)
  /\ Starts("size1", "size", 1, 1)
  /\ Starts("size2", "size", 2, 1)
  /\ Starts("extendedSize2", "extendedSize", 2, 3)
  /\ Starts("resizeRefused", "extendedSize", 0, 3)
  /\ Starts("other", "unknown", 1, 1)
<1>1. \A k, of, m : Piece(k, of, m).of = of /\ Piece(k, of, m).n = m
  BY DEF Piece
<1>2. Starts("rre", "rre", 1, 4)
  <2>1. LET p == Piece("rect", "rre", 1) IN p.of = "rre" /\ p.n = 1
    BY DEF Piece
  <2>2. RectPieces("rre")[1] = Piece("rect", "rre", 1) /\ Len(RectPieces("rre")) = 4
    BY RreIs, Zenon
  <2> QED
    BY <2>1, <2>2 DEF Starts, Of, SizeOf, LenOf
<1>3. Starts("hextile", "hextile", 5, 10)
  <2>1. LET p == Piece("rect", "hextile", 5) IN p.of = "hextile" /\ p.n = 5
    BY DEF Piece
  <2>2. RectPieces("hextile")[1] = Piece("rect", "hextile", 5) /\ Len(RectPieces("hextile")) = 10
    BY HextileIs, Zenon
  <2> QED
    BY <2>1, <2>2 DEF Starts, Of, SizeOf, LenOf
<1>4. Starts("tightPalette", "tight", 2, 7)
  <2>1. LET p == Piece("rect", "tight", 2) IN p.of = "tight" /\ p.n = 2
    BY DEF Piece
  <2>2. RectPieces("tightPalette")[1] = Piece("rect", "tight", 2)
        /\ Len(RectPieces("tightPalette")) = 7
    BY TightPaletteIs, Zenon
  <2> QED
    BY <2>1, <2>2 DEF Starts, Of, SizeOf, LenOf
<1>5. /\ Starts("raw", "raw", 2, 3)
      /\ Starts("emptyRaw", "raw", 0, 1)
      /\ Starts("copyRect", "copyRect", 1, 2)
      /\ Starts("badHextile", "hextile", 1, 3)
      /\ Starts("tightFill", "tight", 1, 3)
  BY <1>1, RawIs, EmptyRawIs, CopyRectIs, BadHextileIs, TightFillIs DEF Starts, Of, SizeOf,
     LenOf
<1>6. /\ Starts("tightJpeg", "tight", 1, 4)
      /\ Starts("tightCopy", "tight", 2, 4)
      /\ Starts("tightFew", "tight", 1, 3)
      /\ Starts("tightGradient", "tight", 2, 3)
      /\ Starts("tightPng", "tightPng", 1, 4)
  BY <1>1, TightJpegIs, TightCopyIs, TightFewIs, TightGradientIs, TightPngIs DEF Starts, Of,
     SizeOf, LenOf
<1>7. /\ Starts("pngInTight", "tight", 1, 4)
      /\ Starts("zrle", "zrle", 2, 3)
      /\ Starts("jpeg", "jpeg", 1, 6)
      /\ Starts("jpegQuant", "jpeg", 1, 4)
      /\ Starts("jpegBare", "jpeg", 1, 3)
  BY <1>1, PngInTightIs, ZrleIs, JpegIs, JpegQuantIs, JpegBareIs DEF Starts, Of, SizeOf, LenOf
<1>8. /\ Starts("lastRect", "lastRect", 0, 1)
      /\ Starts("cursor", "cursor", 1, 2)
      /\ Starts("vmwareCursor", "vmwareCursor", 1, 3)
      /\ Starts("qemuKey", "qemuKey", 0, 1)
      /\ Starts("name", "name", 0, 3)
  BY <1>1, LastRectIs, CursorIs, VmwareCursorIs, QemuKeyIs, NameIs DEF Starts, Of, SizeOf, LenOf
<1>9. /\ Starts("size1", "size", 1, 1)
      /\ Starts("size2", "size", 2, 1)
      /\ Starts("extendedSize2", "extendedSize", 2, 3)
      /\ Starts("resizeRefused", "extendedSize", 0, 3)
      /\ Starts("other", "unknown", 1, 1)
  BY <1>1, Size1Is, Size2Is, ExtendedSize2Is, ResizeRefusedIs, OtherIs DEF Starts, Of, SizeOf,
     LenOf
<1> QED
  BY <1>2, <1>3, <1>4, <1>5, <1>6, <1>7, <1>8, <1>9

\* Which rectangles a header may begin.
LEMMA Encodings ==
  ASSUME NEW rect \in Readable
  PROVE
    /\ Of(rect) = "raw" => rect \in {"raw", "emptyRaw"}
    /\ Of(rect) = "copyRect" => rect \in {"copyRect"}
    /\ Of(rect) = "rre" => rect \in {"rre"}
    /\ Of(rect) = "hextile" => rect \in {"hextile", "badHextile"}
    /\ Of(rect) = "tight" => rect \in {"tightFill", "tightJpeg", "tightCopy", "tightFew",
                                "tightPalette", "tightGradient", "pngInTight"}
    /\ Of(rect) = "tightPng" => rect \in {"tightPng"}
    /\ Of(rect) = "zrle" => rect \in {"zrle"}
    /\ Of(rect) = "jpeg" => rect \in {"jpeg", "jpegQuant", "jpegBare"}
    /\ Of(rect) = "lastRect" => rect \in {"lastRect"}
    /\ Of(rect) = "cursor" => rect \in {"cursor"}
    /\ Of(rect) = "vmwareCursor" => rect \in {"vmwareCursor"}
    /\ Of(rect) = "qemuKey" => rect \in {"qemuKey"}
    /\ Of(rect) = "name" => rect \in {"name"}
    /\ Of(rect) = "size" => rect \in {"size1", "size2"}
    /\ Of(rect) = "extendedSize" => rect \in {"extendedSize2", "resizeRefused"}
    /\ Of(rect) = "unknown" => rect \in {"other"}
    /\ Of(rect) # "none"
    /\ Of(rect) \in Ofs /\ SizeOf(rect) \in Nat /\ LenOf(rect) \in Nat \ {0}
<1>1. rect \in Rects /\ rect # "emptyPalette" /\ rect # "vmwareUnknown"
  BY DEF Readable
<1>2. Of(rect) \in Ofs /\ SizeOf(rect) \in Nat /\ LenOf(rect) \in Nat \ {0}
  <2> DEFINE b == RectPieces(rect)
  <2>1. b \in Seq(AllPieces) /\ Len(b) \in Nat /\ Len(b) # 0
    BY RectsAre, LenProperties
  <2> HIDE DEF b
  <2>2. b[1] \in AllPieces
    <3>1. 1 \in 1 .. Len(b)
      BY <2>1
    <3> QED
      BY <2>1, <3>1, ElementOfSeq
  <2> QED
    BY <2>1, <2>2 DEF Of, SizeOf, LenOf, AllPieces, b
<1> QED
  BY <1>1, <1>2, Heads DEF Rects, Starts

\* A later piece of a rectangle.
Has(rect, i, kind, of, n) == RectPieces(rect)[i] = Piece(kind, of, n)
Later(rect, i, kind, of, n) == LET p == RectPieces(rect)[i] IN
  p.kind = kind /\ p.of = of /\ p.n = n

LEMMA LaterIs ==
  ASSUME NEW rect, NEW i, NEW kind, NEW of, NEW n, Has(rect, i, kind, of, n)
  PROVE  Later(rect, i, kind, of, n)
<1>1. RectPieces(rect)[i] = Piece(kind, of, n)
  BY DEF Has
<1>2. LET p == Piece(kind, of, n) IN p.kind = kind /\ p.of = of /\ p.n = n
  BY DEF Piece
<1> QED
  BY <1>1, <1>2 DEF Later

LEMMA RawHas ==
  /\ Later("raw", 2, "line", "", 0)
  /\ Later("raw", 3, "line", "", 0)
<1>1. /\ Has("raw", 2, "line", "", 0)
      /\ Has("raw", 3, "line", "", 0)
  BY RawIs, Zenon DEF Has, P
<1> QED
  BY <1>1, LaterIs

LEMMA CopyRectHas ==
  /\ Later("copyRect", 2, "from", "", 0)
<1>1. /\ Has("copyRect", 2, "from", "", 0)
  BY CopyRectIs, Zenon DEF Has, P
<1> QED
  BY <1>1, LaterIs

LEMMA RreHas ==
  /\ Later("rre", 2, "subrects", "", 2)
  /\ Later("rre", 3, "subrect", "", 1)
  /\ Later("rre", 4, "subrect", "", 2)
<1>1. /\ Has("rre", 2, "subrects", "", 2)
      /\ Has("rre", 3, "subrect", "", 1)
      /\ Has("rre", 4, "subrect", "", 2)
  BY RreIs, Zenon DEF Has, P
<1> QED
  BY <1>1, LaterIs

LEMMA HextileHas ==
  /\ Later("hextile", 2, "tile", "back", 1)
  /\ Later("hextile", 3, "pixels", "", 0)
  /\ Later("hextile", 4, "tile", "blank", 2)
  /\ Later("hextile", 5, "tile", "subrects", 3)
  /\ Later("hextile", 6, "subrects", "", 0)
  /\ Later("hextile", 7, "pixels", "", 0)
  /\ Later("hextile", 8, "tile", "raw", 4)
  /\ Later("hextile", 9, "pixels", "", 0)
  /\ Later("hextile", 10, "tile", "blank", 5)
<1>1. /\ Has("hextile", 2, "tile", "back", 1)
      /\ Has("hextile", 3, "pixels", "", 0)
      /\ Has("hextile", 4, "tile", "blank", 2)
      /\ Has("hextile", 5, "tile", "subrects", 3)
      /\ Has("hextile", 6, "subrects", "", 0)
      /\ Has("hextile", 7, "pixels", "", 0)
      /\ Has("hextile", 8, "tile", "raw", 4)
      /\ Has("hextile", 9, "pixels", "", 0)
      /\ Has("hextile", 10, "tile", "blank", 5)
  BY HextileIs, Zenon DEF Has, P
<1> QED
  BY <1>1, LaterIs

LEMMA BadHextileHas ==
  /\ Later("badHextile", 2, "tile", "illegal", 1)
  /\ Later("badHextile", 3, "pixels", "", 0)
<1>1. /\ Has("badHextile", 2, "tile", "illegal", 1)
      /\ Has("badHextile", 3, "pixels", "", 0)
  BY BadHextileIs, Zenon DEF Has, P
<1> QED
  BY <1>1, LaterIs

LEMMA TightFillHas ==
  /\ Later("tightFill", 2, "control", "fill", 0)
  /\ Later("tightFill", 3, "colour", "", 0)
<1>1. /\ Has("tightFill", 2, "control", "fill", 0)
      /\ Has("tightFill", 3, "colour", "", 0)
  BY TightFillIs, Zenon DEF Has, P
<1> QED
  BY <1>1, LaterIs

LEMMA TightJpegHas ==
  /\ Later("tightJpeg", 2, "control", "jpeg", 0)
  /\ Later("tightJpeg", 3, "length", "", 0)
  /\ Later("tightJpeg", 4, "data", "", 0)
<1>1. /\ Has("tightJpeg", 2, "control", "jpeg", 0)
      /\ Has("tightJpeg", 3, "length", "", 0)
      /\ Has("tightJpeg", 4, "data", "", 0)
  BY TightJpegIs, Zenon DEF Has, P
<1> QED
  BY <1>1, LaterIs

LEMMA TightCopyHas ==
  /\ Later("tightCopy", 2, "control", "basic", 0)
  /\ Later("tightCopy", 3, "length", "", 0)
  /\ Later("tightCopy", 4, "data", "", 0)
<1>1. /\ Has("tightCopy", 2, "control", "basic", 0)
      /\ Has("tightCopy", 3, "length", "", 0)
      /\ Has("tightCopy", 4, "data", "", 0)
  BY TightCopyIs, Zenon DEF Has, P
<1> QED
  BY <1>1, LaterIs

LEMMA TightFewHas ==
  /\ Later("tightFew", 2, "control", "basic", 0)
  /\ Later("tightFew", 3, "pixels", "", 0)
<1>1. /\ Has("tightFew", 2, "control", "basic", 0)
      /\ Has("tightFew", 3, "pixels", "", 0)
  BY TightFewIs, Zenon DEF Has, P
<1> QED
  BY <1>1, LaterIs

LEMMA TightPaletteHas ==
  /\ Later("tightPalette", 2, "control", "filtered", 0)
  /\ Later("tightPalette", 3, "filter", "palette", 0)
  /\ Later("tightPalette", 4, "numColors", "", 2)
  /\ Later("tightPalette", 5, "palette", "", 0)
  /\ Later("tightPalette", 6, "length", "", 0)
  /\ Later("tightPalette", 7, "data", "", 0)
<1>1. /\ Has("tightPalette", 2, "control", "filtered", 0)
      /\ Has("tightPalette", 3, "filter", "palette", 0)
      /\ Has("tightPalette", 4, "numColors", "", 2)
      /\ Has("tightPalette", 5, "palette", "", 0)
      /\ Has("tightPalette", 6, "length", "", 0)
      /\ Has("tightPalette", 7, "data", "", 0)
  BY TightPaletteIs, Zenon DEF Has, P
<1> QED
  BY <1>1, LaterIs

LEMMA TightGradientHas ==
  /\ Later("tightGradient", 2, "control", "filtered", 0)
  /\ Later("tightGradient", 3, "filter", "gradient", 0)
<1>1. /\ Has("tightGradient", 2, "control", "filtered", 0)
      /\ Has("tightGradient", 3, "filter", "gradient", 0)
  BY TightGradientIs, Zenon DEF Has, P
<1> QED
  BY <1>1, LaterIs

LEMMA TightPngHas ==
  /\ Later("tightPng", 2, "control", "png", 0)
  /\ Later("tightPng", 3, "length", "", 0)
  /\ Later("tightPng", 4, "data", "", 0)
<1>1. /\ Has("tightPng", 2, "control", "png", 0)
      /\ Has("tightPng", 3, "length", "", 0)
      /\ Has("tightPng", 4, "data", "", 0)
  BY TightPngIs, Zenon DEF Has, P
<1> QED
  BY <1>1, LaterIs

LEMMA PngInTightHas ==
  /\ Later("pngInTight", 2, "control", "png", 0)
  /\ Later("pngInTight", 3, "length", "", 0)
  /\ Later("pngInTight", 4, "data", "", 0)
<1>1. /\ Has("pngInTight", 2, "control", "png", 0)
      /\ Has("pngInTight", 3, "length", "", 0)
      /\ Has("pngInTight", 4, "data", "", 0)
  BY PngInTightIs, Zenon DEF Has, P
<1> QED
  BY <1>1, LaterIs

LEMMA ZrleHas ==
  /\ Later("zrle", 2, "length", "", 0)
  /\ Later("zrle", 3, "data", "", 0)
<1>1. /\ Has("zrle", 2, "length", "", 0)
      /\ Has("zrle", 3, "data", "", 0)
  BY ZrleIs, Zenon DEF Has, P
<1> QED
  BY <1>1, LaterIs

LEMMA JpegHas ==
  /\ Later("jpeg", 2, "segment", "quant", 1)
  /\ Later("jpeg", 3, "segment", "quant", 2)
  /\ Later("jpeg", 4, "segment", "huffman", 3)
  /\ Later("jpeg", 5, "segment", "frame", 1)
  /\ Later("jpeg", 6, "segment", "end", 0)
<1>1. /\ Has("jpeg", 2, "segment", "quant", 1)
      /\ Has("jpeg", 3, "segment", "quant", 2)
      /\ Has("jpeg", 4, "segment", "huffman", 3)
      /\ Has("jpeg", 5, "segment", "frame", 1)
      /\ Has("jpeg", 6, "segment", "end", 0)
  BY JpegIs, Zenon DEF Has, P
<1> QED
  BY <1>1, LaterIs

LEMMA JpegQuantHas ==
  /\ Later("jpegQuant", 2, "segment", "quant", 4)
  /\ Later("jpegQuant", 3, "segment", "frame", 2)
  /\ Later("jpegQuant", 4, "segment", "end", 0)
<1>1. /\ Has("jpegQuant", 2, "segment", "quant", 4)
      /\ Has("jpegQuant", 3, "segment", "frame", 2)
      /\ Has("jpegQuant", 4, "segment", "end", 0)
  BY JpegQuantIs, Zenon DEF Has, P
<1> QED
  BY <1>1, LaterIs

LEMMA JpegBareHas ==
  /\ Later("jpegBare", 2, "segment", "frame", 3)
  /\ Later("jpegBare", 3, "segment", "end", 0)
<1>1. /\ Has("jpegBare", 2, "segment", "frame", 3)
      /\ Has("jpegBare", 3, "segment", "end", 0)
  BY JpegBareIs, Zenon DEF Has, P
<1> QED
  BY <1>1, LaterIs

LEMMA CursorHas ==
  /\ Later("cursor", 2, "pixels", "", 0)
<1>1. /\ Has("cursor", 2, "pixels", "", 0)
  BY CursorIs, Zenon DEF Has, P
<1> QED
  BY <1>1, LaterIs

LEMMA VmwareCursorHas ==
  /\ Later("vmwareCursor", 2, "cursorType", "alpha", 0)
  /\ Later("vmwareCursor", 3, "pixels", "", 0)
<1>1. /\ Has("vmwareCursor", 2, "cursorType", "alpha", 0)
      /\ Has("vmwareCursor", 3, "pixels", "", 0)
  BY VmwareCursorIs, Zenon DEF Has, P
<1> QED
  BY <1>1, LaterIs

LEMMA NameHas ==
  /\ Later("name", 2, "length", "", 0)
  /\ Later("name", 3, "text", "", 0)
<1>1. /\ Has("name", 2, "length", "", 0)
      /\ Has("name", 3, "text", "", 0)
  BY NameIs, Zenon DEF Has, P
<1> QED
  BY <1>1, LaterIs

LEMMA ExtendedSize2Has ==
  /\ Later("extendedSize2", 2, "screens", "", 0)
  /\ Later("extendedSize2", 3, "screen", "", 0)
<1>1. /\ Has("extendedSize2", 2, "screens", "", 0)
      /\ Has("extendedSize2", 3, "screen", "", 0)
  BY ExtendedSize2Is, Zenon DEF Has, P
<1> QED
  BY <1>1, LaterIs

LEMMA ResizeRefusedHas ==
  /\ Later("resizeRefused", 2, "screens", "", 0)
  /\ Later("resizeRefused", 3, "screen", "", 0)
<1>1. /\ Has("resizeRefused", 2, "screens", "", 0)
      /\ Has("resizeRefused", 3, "screen", "", 0)
  BY ResizeRefusedIs, Zenon DEF Has, P
<1> QED
  BY <1>1, LaterIs

-----------------------------------------------------------------------------
(* The tables of JPEG files *)

LEMMA NoTablesIn ==
  ASSUME NEW segments \in Seq(AllPieces), NEW of,
         \A i \in 1 .. Len(segments) : segments[i].of # of
  PROVE  TablesIn(segments, of) = <<>>
<1> DEFINE n == Len(segments)
           seqs == [i \in 1 .. n |-> IF segments[i].of = of THEN <<segments[i].n>> ELSE <<>>]
<1>1. n \in Nat
  BY LenProperties
<1>2. \A i \in 1 .. n : seqs[i] = <<>>
  OBVIOUS
<1>3. <<>> \in Seq(Nat)
  BY EmptySeq
<1> HIDE DEF n
<1>4. DOMAIN seqs = 1 .. n
  OBVIOUS
<1>5. seqs \in Seq(Seq(Nat)) /\ Len(seqs) = n
  <2>1. seqs = [i \in 1 .. n |-> <<>>]
    BY <1>2
  <2> HIDE DEF seqs
  <2> QED
    BY <1>1, <1>3, <2>1
<1> HIDE DEF seqs
<1>6. CASE n = 0
  <2>1. seqs = <<>>
    BY <1>5, <1>6, EmptySeq
  <2>2. FlattenSeq(seqs) = <<>>
    BY <1>5, <2>1, FlatIs
  <2> QED
    BY <2>2 DEF TablesIn, seqs, n
<1>7. CASE n # 0
  <2>1. n \in Nat \ {0} /\ \A i \in 1 .. n : seqs[i] \in Seq(Nat)
    BY <1>1, <1>2, <1>3, <1>7
  <2>2. PICK f : Gathers(f, seqs, n, Nat)
    BY <1>4, <1>5, <2>1, Flattened
  <2> DEFINE Good == {i \in Nat : i + 1 \in 1 .. n => f[i + 1] = <<>>}
  <2>3. 0 \in Good
    BY <1>2, <2>1, <2>2 DEF Gathers
  <2>4. ASSUME NEW i \in Good
        PROVE  i + 1 \in Good
    <3> DEFINE j == (i + 1) + 1
    <3> SUFFICES ASSUME j \in 1 .. n
                 PROVE  f[j] = <<>>
      OBVIOUS
    <3>1. i + 1 \in 1 .. n /\ j \in 2 .. n /\ j - 1 = i + 1
      BY <1>1
    <3>2. f[i + 1] = <<>>
      BY <3>1
    <3> HIDE DEF j
    <3>3. f[j] = f[j - 1] \o seqs[j]
      BY <2>2, <3>1 DEF Gathers
    <3>4. <<>> \o <<>> = <<>>
      BY <1>3, ConcatEmptySeq
    <3> QED
      BY <1>2, <3>1, <3>2, <3>3, <3>4
  <2> HIDE DEF Good
  <2>5. Good = Nat
    <3>1. Good \subseteq Nat
      BY DEF Good
    <3> QED
      BY <2>3, <2>4, <3>1, Induction
  <2>6. n - 1 \in Good /\ (n - 1) + 1 = n /\ n \in 1 .. n
    BY <2>1, <2>5
  <2>7. f[n] = <<>>
    BY <2>6 DEF Good
  <2>8. FlattenSeq(seqs) = <<>>
    BY <2>2, <2>7 DEF Gathers
  <2> QED
    BY <2>8 DEF TablesIn, seqs, n
<1> QED
  BY <1>6, <1>7

\* The tables of each segment, put end to end.
Found(segments, of, i) == IF segments[i].of = of THEN <<segments[i].n>> ELSE <<>>
Collects(f, segments, of) ==
  /\ f[1] = Found(segments, of, 1) /\ TablesIn(segments, of) = f[Len(segments)]
  /\ \A i \in 2 .. Len(segments) : f[i] = f[i - 1] \o Found(segments, of, i)

LEMMA TablesGather ==
  ASSUME NEW segments \in Seq(AllPieces), NEW of, Len(segments) # 0
  PROVE  \E f : Collects(f, segments, of)
<1> DEFINE found(i) == IF segments[i].of = of THEN <<segments[i].n>> ELSE <<>>
           n == Len(segments)
           seqs == [i \in 1 .. n |-> found(i)]
<1>9. n \in Nat \ {0}
  BY LenProperties
<1>1. \A i \in 1 .. n : segments[i] \in AllPieces
  BY ElementOfSeq
<1>2. \A i \in 1 .. n : segments[i].n \in Nat
  BY <1>1 DEF AllPieces
<1>3. \A i \in 1 .. n : found(i) \in Seq(Nat)
  BY <1>2
<1>4. DOMAIN seqs = 1 .. n /\ Len(seqs) = n /\ \A i \in 1 .. n : seqs[i] = found(i)
  BY <1>9
<1>5. TablesIn(segments, of) = FlattenSeq(seqs)
  BY DEF TablesIn
<1>7. 1 \in 1 .. n /\ \A i \in 2 .. n : i \in 1 .. n
  BY <1>9
<1> HIDE DEF seqs, found, n
<1>6. PICK f : Gathers(f, seqs, n, Nat)
  BY <1>3, <1>4, <1>9, Flattened
<1>8. f[1] = found(1) /\ TablesIn(segments, of) = f[n]
      /\ \A i \in 2 .. n : f[i] = f[i - 1] \o found(i)
  BY <1>4, <1>5, <1>6, <1>7 DEF Gathers
<1> QED
  BY <1>8, Zenon DEF Collects, found, Found, n

LEMMA TwoTables == <<1>> \o <<2>> = <<1, 2>> /\ <<1, 2>> \o <<>> = <<1, 2>>
<1>1. <<1>> \in Seq(Nat) /\ <<2>> \in Seq(Nat) /\ <<1, 2>> \in Seq(Nat)
  OBVIOUS
<1>2. <<1, 2>> \o <<>> = <<1, 2>>
  BY <1>1, ConcatEmptySeq
<1> DEFINE w == <<1>> \o <<2>>
<1>3. Len(<<1>>) = 1 /\ Len(<<2>>) = 1 /\ Len(<<1, 2>>) = 2
  OBVIOUS
<1>4. w \in Seq(Nat) /\ Len(w) = 2 /\ w[1] = 1 /\ w[2] = 2
  <2>1. /\ w \in Seq(Nat) /\ Len(w) = Len(<<1>>) + Len(<<2>>)
        /\ (\A i \in 1 .. Len(<<1>>) : w[i] = <<1>>[i])
        /\ (\A i \in 1 .. Len(<<2>>) : w[Len(<<1>>) + i] = <<2>>[i])
    BY <1>1, Joined
  <2> HIDE DEF w
  <2>2. w[1] = <<1>>[1] /\ w[1 + 1] = <<2>>[1]
    BY <1>3, <2>1
  <2> QED
    BY <1>3, <2>1, <2>2
<1> HIDE DEF w
<1>5. w = <<1, 2>>
  BY <1>1, <1>3, <1>4, SeqEqual
<1> QED
  BY <1>2, <1>5 DEF w

LEMMA JpegTables ==
  ASSUME NEW segments \in Seq(AllPieces), Len(segments) = 5,
         \A i \in 1 .. 5 : segments[i] = RectPieces("jpeg")[i + 1]
  PROVE  TablesIn(segments, "quant") = <<1, 2>> /\ TablesIn(segments, "huffman") = <<3>>
<1>1. /\ segments[1].of = "quant" /\ segments[1].n = 1
      /\ segments[2].of = "quant" /\ segments[2].n = 2
      /\ segments[3].of = "huffman" /\ segments[3].n = 3
      /\ segments[4].of = "frame" /\ segments[5].of = "end"
  <2>1. /\ segments[1] = RectPieces("jpeg")[2] /\ segments[2] = RectPieces("jpeg")[3]
        /\ segments[3] = RectPieces("jpeg")[4] /\ segments[4] = RectPieces("jpeg")[5]
        /\ segments[5] = RectPieces("jpeg")[6]
    OBVIOUS
  <2> QED
    BY <2>1, JpegHas DEF Later
<1>2. 5 \in Nat \ {0} /\ 1 \in 1 .. 5 /\ \A i \in {2, 3, 4, 5} : i \in 2 .. 5
      /\ 2 - 1 = 1 /\ 3 - 1 = 2 /\ 4 - 1 = 3 /\ 5 - 1 = 4
  OBVIOUS
<1>3. TablesIn(segments, "quant") = <<1, 2>>
  <2>1. Len(segments) # 0
    OBVIOUS
  <2>2. PICK f : Collects(f, segments, "quant")
    BY <2>1, TablesGather
  <2>3. /\ Found(segments, "quant", 1) = <<1>>
        /\ Found(segments, "quant", 2) = <<2>>
        /\ Found(segments, "quant", 3) = <<>>
        /\ Found(segments, "quant", 4) = <<>>
        /\ Found(segments, "quant", 5) = <<>>
    BY <1>1 DEF Found
  <2>4. /\ f[1] = Found(segments, "quant", 1)
        /\ f[2] = f[1] \o Found(segments, "quant", 2)
        /\ f[3] = f[2] \o Found(segments, "quant", 3)
        /\ f[4] = f[3] \o Found(segments, "quant", 4)
        /\ f[5] = f[4] \o Found(segments, "quant", 5)
    BY <1>2, <2>2 DEF Collects
  <2>5. TablesIn(segments, "quant") = f[5]
    BY <2>2 DEF Collects
  <2> QED
    BY <2>3, <2>4, <2>5, TwoTables
<1>4. TablesIn(segments, "huffman") = <<3>>
  <2>1. Len(segments) # 0
    OBVIOUS
  <2>2. PICK f : Collects(f, segments, "huffman")
    BY <2>1, TablesGather
  <2>3. /\ Found(segments, "huffman", 1) = <<>>
        /\ Found(segments, "huffman", 2) = <<>>
        /\ Found(segments, "huffman", 3) = <<3>>
        /\ Found(segments, "huffman", 4) = <<>>
        /\ Found(segments, "huffman", 5) = <<>>
    BY <1>1 DEF Found
  <2>4. /\ f[1] = Found(segments, "huffman", 1)
        /\ f[2] = f[1] \o Found(segments, "huffman", 2)
        /\ f[3] = f[2] \o Found(segments, "huffman", 3)
        /\ f[4] = f[3] \o Found(segments, "huffman", 4)
        /\ f[5] = f[4] \o Found(segments, "huffman", 5)
    BY <1>2, <2>2 DEF Collects
  <2>6. TablesIn(segments, "huffman") = f[5]
    BY <2>2 DEF Collects
  <2>5. <<>> \o <<>> = <<>> /\ <<>> \o <<3>> = <<3>> /\ <<3>> \o <<>> = <<3>>
    OBVIOUS
  <2> QED
    BY <2>3, <2>4, <2>5, <2>6
<1> QED
  BY <1>3, <1>4

LEMMA QuantTables ==
  ASSUME NEW segments \in Seq(AllPieces), Len(segments) = 3,
         \A i \in 1 .. 3 : segments[i] = RectPieces("jpegQuant")[i + 1]
  PROVE  TablesIn(segments, "quant") = <<4>>
<1>1. /\ segments[1].of = "quant" /\ segments[1].n = 4
      /\ segments[2].of = "frame" /\ segments[3].of = "end"
  <2>1. /\ segments[1] = RectPieces("jpegQuant")[2] /\ segments[2] = RectPieces("jpegQuant")[3]
        /\ segments[3] = RectPieces("jpegQuant")[4]
    OBVIOUS
  <2> QED
    BY <2>1, JpegQuantHas DEF Later
<1>2. 3 \in Nat \ {0} /\ 1 \in 1 .. 3 /\ \A i \in {2, 3} : i \in 2 .. 3
      /\ 2 - 1 = 1 /\ 3 - 1 = 2
  OBVIOUS
<1>3. TablesIn(segments, "quant") = <<4>>
  <2>1. Len(segments) # 0
    OBVIOUS
  <2>2. PICK f : Collects(f, segments, "quant")
    BY <2>1, TablesGather
  <2>3. /\ Found(segments, "quant", 1) = <<4>>
        /\ Found(segments, "quant", 2) = <<>>
        /\ Found(segments, "quant", 3) = <<>>
    BY <1>1 DEF Found
  <2>4. /\ f[1] = Found(segments, "quant", 1)
        /\ f[2] = f[1] \o Found(segments, "quant", 2)
        /\ f[3] = f[2] \o Found(segments, "quant", 3)
    BY <1>2, <2>2 DEF Collects
  <2>6. TablesIn(segments, "quant") = f[3]
    BY <2>2 DEF Collects
  <2>5. <<4>> \o <<>> = <<4>>
    OBVIOUS
  <2> QED
    BY <2>3, <2>4, <2>5, <2>6
<1> QED
  BY <1>3

-----------------------------------------------------------------------------
(* The invariant of the stream *)

\* What the decoders remember between two calls.
Remembers(d, lines, subrects, tiles, ctl, filter, numColors, len, zLength) ==
  /\ d.lines = lines /\ d.subrects = subrects /\ d.tiles = tiles /\ d.ctl = ctl
  /\ d.filter = filter /\ d.numColors = numColors /\ d.len = len /\ d.zLength = zLength
Idle(d) == Remembers(d, 0, 0, 0, "none", "none", 0, FALSE, FALSE)
AtTiles(d, tiles) == Remembers(d, 0, 0, tiles, "none", "none", 0, FALSE, FALSE)
InTight(d, ctl, filter, numColors, len) ==
  Remembers(d, 0, 0, 0, ctl, filter, numColors, len, FALSE)

\* After k pieces of the rectangle.
Doing(rect, k, d) ==
  \/ k = 1 /\ Idle(d)
  \/ rect = "raw" /\ k = 2 /\ Remembers(d, 1, 0, 0, "none", "none", 0, FALSE, FALSE)
  \/ /\ rect = "rre" /\ k \in {2, 3}
     /\ Remembers(d, 0, 4 - k, 0, "none", "none", 0, FALSE, FALSE)
  \/ /\ rect = "hextile"
     /\ \/ k = 1 /\ AtTiles(d, 5)
        \/ k = 3 /\ AtTiles(d, 4)
        \/ k = 4 /\ AtTiles(d, 3)
        \/ k = 7 /\ AtTiles(d, 2)
        \/ k = 9 /\ AtTiles(d, 1)
  \/ rect = "tightFill" /\ k = 2 /\ InTight(d, "fill", "none", 0, FALSE)
  \/ rect = "tightJpeg" /\ k = 2 /\ InTight(d, "jpeg", "none", 0, FALSE)
  \/ rect = "tightJpeg" /\ k = 3 /\ InTight(d, "jpeg", "none", 0, TRUE)
  \/ rect \in {"tightPng", "pngInTight"} /\ k = 2 /\ InTight(d, "png", "none", 0, FALSE)
  \/ rect = "tightPng" /\ k = 3 /\ InTight(d, "png", "none", 0, TRUE)
  \/ /\ rect \in {"tightCopy", "tightFew"} /\ k = 2
     /\ InTight(d, "basic", "none", 0, FALSE) \/ InTight(d, "basic", "copy", 0, FALSE)
  \/ rect = "tightCopy" /\ k = 3 /\ InTight(d, "basic", "copy", 0, TRUE)
  \/ /\ rect \in {"tightPalette", "tightGradient"} /\ k = 2
     /\ InTight(d, "filtered", "none", 0, FALSE)
  \/ rect = "tightGradient" /\ k = 3 /\ InTight(d, "filtered", "gradient", 0, FALSE)
  \/ rect = "tightPalette" /\ k = 3 /\ InTight(d, "filtered", "palette", 0, FALSE)
  \/ rect = "tightPalette" /\ k = 5 /\ InTight(d, "filtered", "palette", 2, FALSE)
  \/ rect = "tightPalette" /\ k = 6 /\ InTight(d, "filtered", "palette", 2, TRUE)
  \/ rect = "zrle" /\ k = 2 /\ Remembers(d, 0, 0, 0, "none", "none", 0, FALSE, TRUE)

\* The viewer is where the place s says: between two blocks, or in a rectangle,
\* of which it has read the header.
Between(s) ==
  /\ AtEndOfBlock(s)
  /\ fbu.enc = "none" /\ fbu.rects = s.rects /\ fbSize = s.size /\ Idle(dec)
InRect(s, rect) ==
  /\ rect \in Readable /\ s.block = RectPieces(rect)
  /\ s.read \in 1 .. LenOf(rect) /\ (s.read = LenOf(rect) => running)
  /\ fbu.enc = Of(rect) /\ fbu.size = SizeOf(rect) /\ fbu.rects > 0
  /\ s.rects = (IF rect = "lastRect" THEN 0 ELSE fbu.rects - 1)
  /\ s.size = Resized(rect, fbSize) /\ s.ink.rect = rect
  /\ Doing(rect, s.read, dec)
Agrees(s) == Between(s) \/ \E rect \in Readable : InRect(s, rect)

\* What of the rectangle is to be drawn after k of its pieces.
Fills(n) == Draw("fill", <<n>>)
Tiles(n) == Draw("tile", <<n>>)
HextileToPaint(k) ==
  CASE k = 3 -> <<Tiles(2), Tiles(3), Tiles(4)>>
    [] k = 4 -> <<Tiles(3), Tiles(4)>>
    [] k = 7 -> <<Tiles(4)>>
    [] OTHER -> <<>>
ToPaint(rect, k, tb) ==
  IF k = LenOf(rect) THEN <<>>
  ELSE IF k <= 1 THEN RectDraws(rect, tb)
  ELSE CASE rect = "raw" -> <<Draw("line", <<2>>)>>
         [] rect = "rre" -> IF k = 2 THEN <<Fills(1), Fills(2)>> ELSE <<Fills(2)>>
         [] rect = "hextile" -> HextileToPaint(k)
         [] OTHER -> RectDraws(rect, tb)
ToPaintAt(s) ==
  IF AtEndOfBlock(s) \/ s.ink.rect = "none" THEN <<>>
  ELSE ToPaint(s.ink.rect, s.read, s.ink.tables)

\* What the decoders of JPEG and of hextiles remember for the draws to come.
FileTables(ink) ==
  /\ ink.rect = "jpeg" => ink.tables.quant = <<1, 2>> /\ ink.tables.huffman = <<3>>
  /\ ink.rect = "jpegQuant" => ink.tables.quant = <<4>>
TablesMatch(ink, done, d) ==
  /\ FileTables(ink)
  /\ (ink.rect = "jpeg" => done) => Kept(d.huffman, d.cachedHuffman) = ink.tables.huffman
  /\ (ink.rect \in {"jpeg", "jpegQuant"} => done) =>
       Kept(d.quant, d.cachedQuant) = ink.tables.quant
LastTile(rect, k, d) ==
  rect = "hextile" => (k = 3 => d.lastRaw = FALSE) /\ (k = 9 => d.lastRaw = TRUE)

\* What is due is what waits in the queue, then the rest of the rectangle, then
\* what comes with the rest of the stream.  The queue is empty where draws refer
\* to the receive queue.
Owes(f, s, e) ==
  e.ink.drawn = s.ink.drawn \o f /\ due = Draws(queue) \o (ToPaintAt(s) \o f)
Painted(s, e) ==
  /\ \E f \in Seq(AllDraws) : Owes(f, s, e)
  /\ fbu.rects > 0 /\ queue # <<>> => flushing \/ s.ink.imaged
  /\ s.ink.rect \in Direct => ~ s.ink.imaged
  /\ s.ink.rect \in Images => s.ink.imaged
  /\ TablesMatch(s.ink, AtEndOfBlock(s), dec)
  /\ LastTile(s.ink.rect, s.read, dec)

\* What has been sent and not read leads on from there to the end of a message,
\* with the framebuffer and the tables the server has.
Remaining(s, e) ==
  /\ s \in Place /\ e \in Place /\ Run(wire, s, e) /\ AtRest(e) /\ e.size = serverSize
  /\ e.ink.tables = tables /\ (Orderly => Painted(s, e))
OnTrack == \E s, e \in Place : Remaining(s, e) /\ Agrees(s)

DecFields ==
  {"lines", "subrects", "tiles", "lastRaw", "ctl", "filter", "numColors", "len", "zLength",
   "quant", "huffman", "cachedQuant", "cachedHuffman"}
DecTypes ==
  DOMAIN dec = DecFields /\ dec.lines \in Nat /\ dec.subrects \in Nat /\ dec.tiles \in Nat
FbuTypes ==
  /\ fbu \in [rects : Nat, enc : Ofs \cup {"none"}, size : Nat]
  /\ fbu.rects = 0 => fbu = NoRect
StreamTypes ==
  /\ wire \in Seq(AllPieces) /\ avail \in 0 .. Len(wire) /\ confused = FALSE
  /\ running \in BOOLEAN /\ failed \in BOOLEAN
  /\ FbuTypes /\ DecTypes
  /\ fbSize \in Sizes /\ serverSize \in Sizes /\ pictures \in Pictures

\* Nothing wrong has been drawn, and the queue holds what is to be drawn next.
Canvas ==
  /\ queue \in Seq(Items) /\ due \in Seq(AllDraws) /\ wrong = FALSE
  /\ \E g \in Seq(AllDraws) : due = Draws(queue) \o g
  /\ flushing \in BOOLEAN /\ (flushing => ~ running)

\* As long as the viewer goes on reading, it is on track.
StreamInv == StreamTypes /\ (Orderly => Canvas) /\ (running \/ ~failed => OnTrack)

-----------------------------------------------------------------------------
(* What a step of a handler leads to *)

\* After n pieces, read as what they are.
Moves(s, e, n) ==
  /\ wire' \in Seq(AllPieces) /\ avail' \in 0 .. Len(wire') /\ confused' = FALSE
  /\ Run(wire', [s EXCEPT !.read = s.read + n], e)

LEMMA Stays ==
  ASSUME StreamInv, NEW s, NEW e, Remaining(s, e), UNCHANGED streamVars
  PROVE  Moves(s, e, 0)
<1>1. [s EXCEPT !.read = s.read + 0] = s /\ s.read + 0 = s.read
  BY DEF Remaining, Place
<1> QED
  BY <1>1 DEF Moves, streamVars, StreamInv, StreamTypes, Remaining

\* rQwait: what is looked at has arrived, and is what the server sent.
LEMMA Ahead ==
  ASSUME StreamInv, NEW s, NEW e, Remaining(s, e), NEW n \in Nat, n <= avail,
         s.read + n <= Len(s.block)
  PROVE  \A i \in 1 .. n : wire[i] = s.block[s.read + i]
<1>1. n \in 0 .. Len(wire)
  BY LenProperties DEF StreamInv, StreamTypes
<1> QED
  BY <1>1, RunRead DEF StreamInv, StreamTypes, Remaining

LEMMA Reading ==
  ASSUME StreamInv, NEW s, NEW e, Remaining(s, e), NEW kinds, NEW n \in Nat, Len(kinds) = n,
         Reads(kinds), s.read + n <= Len(s.block),
         \A i \in 1 .. n : s.block[s.read + i].kind = kinds[i]
  PROVE  Moves(s, e, n) /\ n <= avail
<1>1. n <= avail /\ wire' = SubSeq(wire, n + 1, Len(wire)) /\ avail' = avail - n
      /\ confused' = (confused \/ \E i \in 1 .. n : wire[i].kind # kinds[i])
  BY DEF Reads
<1>2. n \in 0 .. Len(wire) /\ avail \in 0 .. Len(wire) /\ Len(wire) \in Nat /\ confused = FALSE
      /\ wire \in Seq(AllPieces)
  BY <1>1, LenProperties DEF StreamInv, StreamTypes
<1>3. Run(wire', [s EXCEPT !.read = s.read + n], e)
      /\ \A i \in 1 .. n : wire[i] = s.block[s.read + i]
  BY <1>1, <1>2, RunRead DEF Remaining
<1>4. wire' \in Seq(AllPieces) /\ Len(wire') = Len(wire) - n
  BY <1>1, <1>2, Dropped
<1>5. confused' = FALSE
  <2>1. ~ \E i \in 1 .. n : wire[i].kind # kinds[i]
    BY <1>3
  <2> QED
    BY <1>1, <1>2, <2>1, Zenon
<1>6. avail' \in 0 .. Len(wire')
  BY <1>1, <1>2, <1>4
<1> QED
  BY <1>1, <1>3, <1>4, <1>5, <1>6 DEF Moves

LEMMA ToPaintIs ==
  ASSUME NEW rect, NEW k, NEW tb \in Tables
  PROVE  ToPaint(rect, k, tb) \in Seq(AllDraws)
<1>1. \A n \in Nat : Fills(n) \in AllDraws /\ Tiles(n) \in AllDraws
      /\ Draw("line", <<n>>) \in AllDraws
  BY DEF Fills, Tiles, Draw, AllDraws, Whats
<1>2. /\ \A a \in AllDraws : <<a>> \in Seq(AllDraws)
      /\ \A a, b \in AllDraws : <<a, b>> \in Seq(AllDraws)
      /\ \A a, b, c \in AllDraws : <<a, b, c>> \in Seq(AllDraws)
      /\ <<>> \in Seq(AllDraws)
  OBVIOUS
<1>3. RectDraws(rect, tb) \in Seq(AllDraws)
  BY RectDrawsAre
<1>4. /\ <<Draw("line", <<2>>)>> \in Seq(AllDraws)
      /\ <<Fills(1), Fills(2)>> \in Seq(AllDraws) /\ <<Fills(2)>> \in Seq(AllDraws)
  BY <1>1, <1>2
<1>5. HextileToPaint(k) \in Seq(AllDraws)
  <2>1. /\ <<Tiles(2), Tiles(3), Tiles(4)>> \in Seq(AllDraws)
        /\ <<Tiles(3), Tiles(4)>> \in Seq(AllDraws) /\ <<Tiles(4)>> \in Seq(AllDraws)
    BY <1>1, <1>2
  <2> QED
    BY <1>2, <2>1, Zenon DEF HextileToPaint
<1> QED
  BY <1>2, <1>3, <1>4, <1>5, Zenon DEF ToPaint

LEMMA ToPaintAtIs ==
  ASSUME NEW s \in Place
  PROVE  ToPaintAt(s) \in Seq(AllDraws)
<1>1. s.ink.tables \in Tables
  BY DEF Place, Inks
<1>2. <<>> \in Seq(AllDraws)
  BY EmptySeq
<1> QED
  BY <1>1, <1>2, ToPaintIs, Zenon DEF ToPaintAt

\* The display puts the items at the end of its queue, and draws what it can.
LEMMA PutPaints ==
  ASSUME Canvas, NEW items \in Seq(Items), NEW h \in Seq(AllDraws),
         due = Draws(queue) \o (Draws(items) \o h), Put(items)
  PROVE  /\ queue' \in Seq(Items) /\ wrong' = FALSE /\ due' \in Seq(AllDraws)
         /\ due' = Draws(queue') \o h
         /\ queue = <<>> /\ (\A i \in 1 .. Len(items) : Ready(items[i])) => queue' = <<>>
<1>1. queue \in Seq(Items) /\ wrong = FALSE
  BY DEF Canvas
<1> DEFINE all == queue \o items
<1>2. all \in Seq(Items)
  BY <1>1, ConcatProperties
<1>3. Draws(all) = Draws(queue) \o Draws(items)
  BY <1>1, DrawsJoin
<1>4. Draws(queue) \in Seq(AllDraws) /\ Draws(items) \in Seq(AllDraws)
  BY <1>1, DrawsIs
<1>5. due = Draws(all) \o h
  <2> DEFINE a == Draws(queue)
             b == Draws(items)
  <2>1. a \in Seq(AllDraws) /\ b \in Seq(AllDraws)
    BY <1>4
  <2> HIDE DEF a, b
  <2>2. (a \o b) \o h = a \o (b \o h)
    BY <2>1, DrawsRegroup
  <2> QED
    BY <1>3, <2>2 DEF a, b
<1>6. Scan(all)
  BY DEF Put
<1>7. queue = <<>> => all = items
  <2>1. <<>> \o items = items
    BY DrawsRegroup
  <2> QED
    BY <2>1
<1> HIDE DEF all
<1>8. /\ queue' \in Seq(Items) /\ wrong' = FALSE /\ due' = Draws(queue') \o h
      /\ (\A i \in 1 .. Len(all) : Ready(all[i])) => queue' = <<>>
  BY <1>1, <1>2, <1>5, <1>6, ScanPaints
<1>9. due' \in Seq(AllDraws)
  <2>1. Draws(queue') \in Seq(AllDraws)
    BY <1>8, DrawsIs
  <2> QED
    BY <1>8, <2>1, ConcatProperties
<1> QED
  BY <1>7, <1>8, <1>9, Zenon

LEMMA FlipDraws ==
  ASSUME NEW items \in Seq(Items), NEW flip \in {Flip, ViewFlip}
  PROVE  /\ items \o flip \in Seq(Items) /\ Draws(items \o flip) = Draws(items)
         /\ (\A i \in 1 .. Len(items) : Ready(items[i])) =>
              \A i \in 1 .. Len(items \o flip) : Ready((items \o flip)[i])
<1>0. <<>> \in Seq(AllDraws)
  BY EmptySeq
<1>1. PICK x \in Items : flip = <<x>> /\ x.draws = <<>> /\ Ready(x)
  <2>1. PICK type \in {"flip", "viewFlip"} :
          flip = <<[type |-> type, draws |-> <<>>, img |-> "loaded"]>>
    BY DEF Flip, ViewFlip
  <2> DEFINE x == [type |-> type, draws |-> <<>>, img |-> "loaded"]
  <2>2. x \in Items /\ x.draws = <<>> /\ Ready(x)
    BY <1>0 DEF Items, Ready
  <2> QED
    BY <2>1, <2>2, Zenon
<1>2. flip = <<x>>
  BY <1>1
<1>3. <<x>> \in Seq(Items) /\ Len(<<x>>) = 1 /\ <<x>>[1] = x
  BY <1>1
<1>4. Draws(<<x>>) = <<>>
  BY <1>1, DrawsOne
<1> DEFINE one == <<x>>
<1> HIDE DEF one
<1>5. one \in Seq(Items) /\ Draws(one) = <<>> /\ Len(one) = 1 /\ one[1] = x
  BY <1>3, <1>4 DEF one
<1>6. Draws(items) \in Seq(AllDraws)
  BY DrawsIs
<1>7. Draws(items \o one) = Draws(items)
  <2>1. Draws(items \o one) = Draws(items) \o Draws(one)
    BY <1>5, DrawsJoin
  <2> DEFINE d == Draws(items)
  <2>2. d \in Seq(AllDraws)
    BY <1>6
  <2> HIDE DEF d
  <2>3. d \o <<>> = d
    BY <2>2, DrawsRegroup
  <2> QED
    BY <1>5, <2>1, <2>3 DEF d
<1>8. /\ items \o one \in Seq(Items) /\ Len(items \o one) = Len(items) + 1
      /\ \A i \in 1 .. Len(items) : (items \o one)[i] = items[i]
      /\ (items \o one)[Len(items) + 1] = x
  <2>1. /\ items \o one \in Seq(Items) /\ Len(items \o one) = Len(items) + Len(one)
        /\ \A i \in 1 .. Len(items) : (items \o one)[i] = items[i]
        /\ \A i \in 1 .. Len(one) : (items \o one)[Len(items) + i] = one[i]
    BY <1>5, ItemsJoined
  <2>2. 1 \in 1 .. Len(one)
    BY <1>5
  <2> QED
    BY <1>5, <2>1, <2>2
<1>9. ASSUME \A i \in 1 .. Len(items) : Ready(items[i])
      PROVE  \A i \in 1 .. Len(items \o one) : Ready((items \o one)[i])
  <2>1. Len(items) \in Nat
    BY LenProperties
  <2>2. \A i \in 1 .. Len(items) + 1 : i \in 1 .. Len(items) \/ i = Len(items) + 1
    BY <2>1
  <2> QED
    BY <1>1, <1>8, <1>9, <2>2
<1> QED
  BY <1>2, <1>7, <1>8, <1>9 DEF one

LEMMA ViewsDraw ==
  ASSUME NEW views \in {<<>>, ViewFlip}
  PROVE  /\ views \in Seq(Items) /\ Draws(views) = <<>>
         /\ \A i \in 1 .. Len(views) : Ready(views[i])
<1>1. <<>> \in Seq(Items) /\ Draws(<<>>) = <<>> /\ \A i \in 1 .. Len(<<>>) : Ready(<<>>[i])
  BY DrawsNone, EmptySeq
<1>2. CASE views = <<>>
  BY <1>1, <1>2
<1>3. CASE views = ViewFlip
  <2>1. <<>> \o ViewFlip = ViewFlip
    BY DEF ViewFlip
  <2> QED
    BY <1>1, <1>3, <2>1, FlipDraws
<1> QED
  BY <1>2, <1>3

\* Nothing is drawn.
LEMMA CanvasStays ==
  ASSUME Orderly => Canvas, UNCHANGED <<drawVars, flushing>>, flushing => ~ running'
  PROVE  Orderly => Canvas'
BY DEF Canvas, drawVars

LEMMA CanvasKept ==
  ASSUME StreamInv, running, UNCHANGED <<drawVars, flushing>>
  PROVE  Orderly => Canvas'
<1>1. Orderly => Canvas /\ ~ flushing
  BY DEF StreamInv, Canvas
<1> QED
  BY <1>1 DEF Canvas, drawVars

LEMMA PaintedStays ==
  ASSUME NEW s, NEW e, Painted(s, e), UNCHANGED <<queue, due, flushing, dec>>,
         fbu'.rects = fbu.rects
  PROVE  Painted(s, e)'
BY DEF Painted, Owes

\* The place moves on where nothing is drawn.
LEMMA PaintedMoves ==
  ASSUME NEW s, NEW e, NEW t, Painted(s, e), UNCHANGED <<queue, due, dec>>,
         t.ink = s.ink, ToPaintAt(t) = ToPaintAt(s),
         AtEndOfBlock(t) => AtEndOfBlock(s) \/ s.ink.rect \notin {"jpeg", "jpegQuant"},
         LastTile(t.ink.rect, t.read, dec),
         fbu'.rects > 0 /\ queue # <<>> => flushing' \/ s.ink.imaged
  PROVE  Painted(t, e)'
<1>1. PICK f \in Seq(AllDraws) : Owes(f, s, e)
  BY DEF Painted
<1>2. Owes(f, t, e)'
  BY <1>1 DEF Owes
<1>3. TablesMatch(t.ink, AtEndOfBlock(t), dec)
  BY DEF Painted, TablesMatch
<1> QED
  BY <1>2, <1>3 DEF Painted

\* What a step of the decoder of a rectangle does: it puts the items, reads n
\* pieces, and remembers this.
Brush(s, rect, n, items, memory) ==
  /\ items \in Seq(Items)
  /\ ToPaint(rect, s.read, s.ink.tables)
       = Draws(items) \o ToPaint(rect, s.read + n, s.ink.tables)
  /\ (\A i \in 1 .. Len(items) : Ready(items[i])) \/ rect \in Images
  /\ TablesMatch(s.ink, s.read + n = LenOf(rect), memory)
  /\ LastTile(rect, s.read + n, memory)

LEMMA Brushed ==
  ASSUME Orderly, StreamInv, running, NEW s, NEW e, Remaining(s, e), NEW rect \in Readable,
         InRect(s, rect), NEW n \in Nat, s.read + n <= LenOf(rect), NEW items, NEW memory,
         Brush(s, rect, n, items, memory), Put(items) \/ Put(items \o Flip), dec' = memory,
         UNCHANGED flushing
  PROVE  Canvas' /\ Painted([s EXCEPT !.read = s.read + n], e)'
<1> DEFINE t == [s EXCEPT !.read = s.read + n]
           left == ToPaint(rect, s.read + n, s.ink.tables)
<1>1. /\ Canvas /\ Painted(s, e) /\ s \in Place /\ flushing = FALSE /\ running
      /\ s.ink.tables \in Tables
  BY DEF StreamInv, Canvas, Remaining, Place, Inks
<1>2. /\ s.read \in Nat /\ s.read + n \in Nat /\ s.block = RectPieces(rect)
      /\ s.ink.rect = rect /\ rect # "none" /\ fbu.rects > 0
  <2>1. rect # "none"
    BY DEF Readable, Rects
  <2> QED
    BY <1>1, <2>1 DEF Place, InRect
<1>3. t \in Place /\ t.read = s.read + n /\ t.block = s.block /\ t.ink = s.ink
  BY <1>1, <1>2, Moved
<1> HIDE DEF t
<1>4. ToPaintAt(s) = ToPaint(rect, s.read, s.ink.tables)
  BY <1>2, Zenon DEF ToPaintAt, ToPaint, AtEndOfBlock, LenOf
<1>5. ToPaintAt(t) = left
  BY <1>2, <1>3, Zenon DEF ToPaintAt, ToPaint, AtEndOfBlock, LenOf
<1>6. left \in Seq(AllDraws)
  BY <1>1, ToPaintIs
<1> HIDE DEF left
<1>7. PICK f \in Seq(AllDraws) : Owes(f, s, e)
  BY <1>1 DEF Painted
<1>8. items \in Seq(Items) /\ ToPaintAt(s) = Draws(items) \o left
  BY <1>4 DEF Brush, left
<1>9. due = Draws(queue) \o (Draws(items) \o (left \o f))
  <2> DEFINE d == Draws(items)
  <2>1. d \in Seq(AllDraws)
    BY <1>8, DrawsIs
  <2> HIDE DEF d
  <2>2. (d \o left) \o f = d \o (left \o f)
    BY <1>6, <2>1, DrawsRegroup
  <2> QED
    BY <1>7, <1>8, <2>2 DEF Owes, d
<1>10. left \o f \in Seq(AllDraws)
  BY <1>6, ConcatProperties
<1>11. /\ queue' \in Seq(Items) /\ wrong' = FALSE /\ due' \in Seq(AllDraws)
       /\ due' = Draws(queue') \o (left \o f)
       /\ queue = <<>> /\ (\A i \in 1 .. Len(items) : Ready(items[i])) => queue' = <<>>
  <2>1. CASE Put(items)
    BY <1>1, <1>8, <1>9, <1>10, <2>1, PutPaints
  <2>2. CASE Put(items \o Flip)
    <3> DEFINE more == items \o Flip
    <3>1. /\ more \in Seq(Items) /\ Draws(more) = Draws(items)
          /\ (\A i \in 1 .. Len(items) : Ready(items[i])) => \A i \in 1 .. Len(more) : Ready(more[i])
      BY <1>8, FlipDraws
    <3>2. Put(more)
      BY <2>2
    <3> HIDE DEF more
    <3>3. due = Draws(queue) \o (Draws(more) \o (left \o f))
      BY <1>9, <3>1
    <3>4. /\ queue' \in Seq(Items) /\ wrong' = FALSE /\ due' \in Seq(AllDraws)
          /\ due' = Draws(queue') \o (left \o f)
          /\ queue = <<>> /\ (\A i \in 1 .. Len(more) : Ready(more[i])) => queue' = <<>>
      BY <1>1, <1>10, <3>1, <3>2, <3>3, PutPaints
    <3> QED
      BY <3>1, <3>4, Zenon
  <2> QED
    BY <2>1, <2>2
<1>12. Canvas'
  <2>1. flushing' = FALSE
    BY <1>1
  <2>2. \E g \in Seq(AllDraws) : due' = Draws(queue') \o g
    BY <1>10, <1>11
  <2> QED
    BY <1>11, <2>1, <2>2 DEF Canvas
<1>13. Owes(f, t, e)'
  <2>1. e.ink.drawn = t.ink.drawn \o f
    BY <1>3, <1>7 DEF Owes
  <2> QED
    BY <1>5, <1>11, <2>1 DEF Owes
<1>14. queue' # <<>> => t.ink.imaged
  <2>1. queue # <<>> => s.ink.imaged
    BY <1>1, <1>2 DEF Painted
  <2>2. rect \in Images => s.ink.imaged
    BY <1>1, <1>2 DEF Painted
  <2>3. (\A i \in 1 .. Len(items) : Ready(items[i])) \/ rect \in Images
    BY DEF Brush
  <2> QED
    BY <1>3, <1>11, <2>1, <2>2, <2>3, Zenon
<1>15. (t.ink.rect \in Direct => ~ t.ink.imaged) /\ (t.ink.rect \in Images => t.ink.imaged)
  BY <1>1, <1>3, Zenon DEF Painted
<1>16. TablesMatch(t.ink, AtEndOfBlock(t), memory)
  <2>1. AtEndOfBlock(t) <=> s.read + n = LenOf(rect)
    BY <1>2, <1>3 DEF AtEndOfBlock, LenOf
  <2> QED
    BY <1>3, <2>1, Zenon DEF Brush, TablesMatch
<1>17. LastTile(t.ink.rect, t.read, memory)
  BY <1>2, <1>3 DEF Brush
<1>18. Painted(t, e)'
  BY <1>13, <1>14, <1>15, <1>16, <1>17 DEF Painted
<1> QED
  BY <1>12, <1>18 DEF t

\* The decoders other than JPEG's leave the tables alone.
SameTables(memory) ==
  /\ memory.quant = dec.quant /\ memory.huffman = dec.huffman
  /\ memory.cachedQuant = dec.cachedQuant /\ memory.cachedHuffman = dec.cachedHuffman
HaveTables == {"jpeg", "jpegQuant"}

LEMMA TablesStay ==
  ASSUME NEW s, NEW e, Painted(s, e), s.ink.rect \notin HaveTables, NEW memory,
         SameTables(memory), NEW done
  PROVE  TablesMatch(s.ink, done, memory)
<1>1. s.ink.rect # "jpeg" /\ s.ink.rect \notin {"jpeg", "jpegQuant"}
  BY DEF HaveTables
<1> QED
  BY <1>1, Zenon DEF Painted, TablesMatch, SameTables

LEMMA NoItems ==
  /\ <<>> \in Seq(Items) /\ Draws(<<>>) = <<>>
  /\ \A i \in 1 .. Len(<<>>) : Ready(<<>>[i])
  /\ \A h \in Seq(AllDraws) : <<>> \o h = h /\ h \o <<>> = h
<1>1. <<>> \in Seq(Items) /\ \A i \in 1 .. Len(<<>>) : Ready(<<>>[i])
  BY EmptySeq
<1>2. \A h \in Seq(AllDraws) : <<>> \o h = h /\ h \o <<>> = h
  BY DrawsRegroup
<1> QED
  BY <1>1, <1>2, DrawsNone

\* Rectangles that draw nothing.
Undrawn ==
  {"emptyRaw", "badHextile", "tightGradient", "pngInTight", "lastRect", "cursor",
   "vmwareCursor", "qemuKey", "name", "size1", "size2", "extendedSize2", "resizeRefused",
   "other"}

LEMMA UndrawnIs ==
  ASSUME NEW rect \in Undrawn
  PROVE  /\ \A k, tb : ToPaint(rect, k, tb) = <<>>
         /\ rect \notin Images /\ rect \notin Direct /\ rect \notin HaveTables
         /\ rect # "hextile" /\ \A tb : RectDraws(rect, tb) = <<>>
<1>1. rect \notin Images /\ rect \notin Direct /\ rect \notin HaveTables /\ rect # "hextile"
      /\ rect # "raw" /\ rect # "rre"
  BY DEF Undrawn, Images, Direct, HaveTables
<1>2. \A tb : RectDraws(rect, tb) = <<>>
  BY DEF Undrawn, RectDraws
<1> QED
  BY <1>1, <1>2, Zenon DEF ToPaint

LEMMA BrushUndrawn ==
  ASSUME NEW s, NEW e, Remaining(s, e), NEW rect \in Undrawn, InRect(s, rect), NEW n,
         NEW memory, SameTables(memory), NEW items \in Seq(Items), Draws(items) = <<>>,
         \A i \in 1 .. Len(items) : Ready(items[i])
  PROVE  Orderly => Brush(s, rect, n, items, memory)
<1> SUFFICES ASSUME Orderly
             PROVE  Brush(s, rect, n, items, memory)
  OBVIOUS
<1>1. Painted(s, e) /\ s.ink.rect = rect
  BY DEF Remaining, InRect
<1>2. TablesMatch(s.ink, s.read + n = LenOf(rect), memory)
  BY <1>1, UndrawnIs, TablesStay
<1>3. LastTile(rect, s.read + n, memory)
  BY UndrawnIs DEF LastTile
<1>4. \A k, tb : ToPaint(rect, k, tb) = <<>>
  BY UndrawnIs
<1>5. <<>> = Draws(items) \o <<>>
  OBVIOUS
<1> QED
  BY <1>2, <1>3, <1>4, <1>5, Zenon DEF Brush

LEMMA BrushNothing ==
  ASSUME NEW s, NEW e, Remaining(s, e), NEW rect \in Undrawn, InRect(s, rect), NEW n,
         NEW memory, SameTables(memory)
  PROVE  Orderly => Brush(s, rect, n, <<>>, memory)
BY NoItems, BrushUndrawn

\* A decoder that draws at the end only: before it, and there.
LEMMA BrushGoesOn ==
  ASSUME NEW s, NEW e, Remaining(s, e), NEW rect \in Readable, InRect(s, rect),
         rect \notin Direct, rect \notin HaveTables, NEW n, s.read # LenOf(rect),
         s.read + n # LenOf(rect), NEW memory, SameTables(memory)
  PROVE  Orderly => Brush(s, rect, n, <<>>, memory)
<1> SUFFICES ASSUME Orderly
             PROVE  Brush(s, rect, n, <<>>, memory)
  OBVIOUS
<1>1. Painted(s, e) /\ s.ink.rect = rect /\ s.ink.tables \in Tables
  BY DEF Remaining, InRect, Place, Inks
<1>2. TablesMatch(s.ink, s.read + n = LenOf(rect), memory)
  BY <1>1, TablesStay
<1>3. rect # "raw" /\ rect # "rre" /\ rect # "hextile"
  BY DEF Direct
<1>4. LastTile(rect, s.read + n, memory)
  BY <1>3 DEF LastTile
<1> DEFINE ds == RectDraws(rect, s.ink.tables)
<1>5. /\ ToPaint(rect, s.read, s.ink.tables) = ds
      /\ ToPaint(rect, s.read + n, s.ink.tables) = ds
  BY <1>3, Zenon DEF ToPaint
<1>6. ds \in Seq(AllDraws)
  BY <1>1, RectDrawsAre
<1> HIDE DEF ds
<1>7. ds = Draws(<<>>) \o ds
  BY <1>6, NoItems
<1> QED
  BY <1>2, <1>4, <1>5, <1>7, NoItems, Zenon DEF Brush

LEMMA BrushEnds ==
  ASSUME NEW s, NEW e, Remaining(s, e), NEW rect \in Readable, InRect(s, rect),
         rect \notin Direct, rect \notin HaveTables, NEW n, s.read # LenOf(rect),
         s.read + n = LenOf(rect), NEW memory, SameTables(memory), NEW items \in Seq(Items),
         Draws(items) = RectDraws(rect, s.ink.tables),
         (\A i \in 1 .. Len(items) : Ready(items[i])) \/ rect \in Images
  PROVE  Orderly => Brush(s, rect, n, items, memory)
<1> SUFFICES ASSUME Orderly
             PROVE  Brush(s, rect, n, items, memory)
  OBVIOUS
<1>1. Painted(s, e) /\ s.ink.rect = rect /\ s.ink.tables \in Tables
  BY DEF Remaining, InRect, Place, Inks
<1>2. TablesMatch(s.ink, s.read + n = LenOf(rect), memory)
  BY <1>1, TablesStay
<1>3. rect # "raw" /\ rect # "rre" /\ rect # "hextile"
  BY DEF Direct
<1>4. LastTile(rect, s.read + n, memory)
  BY <1>3 DEF LastTile
<1>5. /\ ToPaint(rect, s.read, s.ink.tables) = Draws(items)
      /\ ToPaint(rect, s.read + n, s.ink.tables) = <<>>
  BY <1>3, Zenon DEF ToPaint
<1>6. Draws(items) \in Seq(AllDraws)
  BY DrawsIs
<1>7. Draws(items) = Draws(items) \o <<>>
  BY <1>6, NoItems
<1> QED
  BY <1>2, <1>4, <1>5, <1>7, Zenon DEF Brush

\* The handler waits, within a block or between two.
LEMMA WaitsIs ==
  ASSUME StreamInv, running, Waits, NEW s, NEW e, Remaining(s, e),
         Between(s) \/ \E rect \in Readable : InRect(s, rect) /\ s.read < LenOf(rect)
  PROVE  StreamInv'
<1>1. UNCHANGED <<streamVars, fbu, dec, fbSize, drawVars, flushing, serverVars>> /\ ~running'
      /\ failed' = failed /\ running' \in BOOLEAN
  BY DEF Waits, askVars
<1>2. StreamTypes'
  BY <1>1 DEF StreamInv, StreamTypes, FbuTypes, DecTypes, streamVars, serverVars
<1>c. Orderly => Canvas'
  BY <1>1, CanvasKept
<1>3. Remaining(s, e)'
  <2>1. Orderly => Painted(s, e)'
    BY <1>1, PaintedStays DEF Remaining, drawVars
  <2> QED
    BY <1>1, <2>1 DEF Remaining, streamVars, serverVars
<1>4. CASE Between(s)
  <2>1. Between(s)'
    BY <1>1, <1>4 DEF Between
  <2> QED
    BY <1>2, <1>c, <1>3, <2>1 DEF StreamInv, OnTrack, Agrees, Remaining
<1>5. ASSUME NEW rect \in Readable, InRect(s, rect), s.read < LenOf(rect)
      PROVE  StreamInv'
  <2>1. s.read # LenOf(rect)
    BY <1>5, Encodings DEF InRect
  <2>2. InRect(s, rect)'
    BY <1>1, <1>5, <2>1 DEF InRect
  <2> QED
    BY <1>2, <1>c, <1>3, <2>2 DEF StreamInv, OnTrack, Agrees, Remaining
<1> QED
  BY <1>4, <1>5

LEMMA FailsIs ==
  ASSUME StreamInv, Fails
  PROVE  StreamInv'
<1>1. UNCHANGED <<streamVars, fbu, dec, fbSize, drawVars, flushing, serverVars>> /\ ~running' /\ failed'
      /\ running' \in BOOLEAN /\ failed' \in BOOLEAN
  BY DEF Fails, askVars
<1>2. Orderly => Canvas'
  <2>1. Orderly => Canvas
    BY DEF StreamInv
  <2> QED
    BY <1>1, <2>1, CanvasStays
<1> QED
  BY <1>1, <1>2 DEF StreamInv, StreamTypes, FbuTypes, DecTypes, streamVars, serverVars

\* The rectangle goes on.
LEMMA GoesOn ==
  ASSUME StreamInv, running, NEW s, NEW e, Remaining(s, e), NEW rect \in Readable,
         InRect(s, rect), NEW n \in Nat, Moves(s, e, n), s.read + n <= LenOf(rect),
         NEW items, NEW memory, NEW stays \in BOOLEAN, RectGoesOn(items, memory, stays),
         s.read + n = LenOf(rect) => stays, Doing(rect, s.read + n, memory),
         DOMAIN memory = DecFields,
         memory.lines \in Nat, memory.subrects \in Nat, memory.tiles \in Nat,
         Orderly => Brush(s, rect, n, items, memory)
  PROVE  StreamInv'
<1> DEFINE t == [s EXCEPT !.read = s.read + n]
<1>1. UNCHANGED <<fbu, fbSize, flushing, serverVars>> /\ failed' = failed /\ running' = stays
      /\ dec' = memory /\ Put(items)
  BY DEF RectGoesOn, askVars
<1>2. s \in Place /\ s.read + n \in Nat /\ s.read + n \in 1 .. LenOf(rect)
  BY Encodings DEF Remaining, Place, InRect
<1>3. t \in Place /\ t.read = s.read + n /\ t.block = s.block /\ t.rects = s.rects
      /\ t.size = s.size /\ t.ink = s.ink
  BY <1>2, Moved
<1>4. StreamTypes'
  BY <1>1 DEF StreamInv, StreamTypes, FbuTypes, DecTypes, Moves, serverVars
<1>p. Orderly => Canvas' /\ Painted(t, e)'
  BY <1>1, Brushed
<1>5. Remaining(t, e)'
  BY <1>1, <1>3, <1>p DEF Remaining, Moves, serverVars
<1> HIDE DEF t
<1>6. InRect(t, rect)'
  BY <1>1, <1>2, <1>3 DEF InRect
<1> QED
  BY <1>3, <1>4, <1>p, <1>5, <1>6 DEF StreamInv, OnTrack, Agrees, Remaining

\* The rectangle ends.
LEMMA Finishes ==
  ASSUME StreamInv, running, NEW s, NEW e, Remaining(s, e), NEW rect \in Readable,
         InRect(s, rect), NEW n \in Nat, Moves(s, e, n), s.read + n = LenOf(rect),
         rect # "lastRect", rect \notin DOMAIN NewSize, NEW items, RectDone(items),
         Idle(dec'), DOMAIN dec' = DecFields, Orderly => Brush(s, rect, n, items, dec')
  PROVE  StreamInv'
<1> DEFINE t == [s EXCEPT !.read = s.read + n]
<1>1. UNCHANGED <<fbSize, serverVars>> /\ failed' = failed /\ running' \in BOOLEAN
      /\ fbu' = IF fbu.rects - 1 = 0 THEN NoRect ELSE [NoRect EXCEPT !.rects = fbu.rects - 1]
  <2>1. UNCHANGED <<fbSize, serverVars>> /\ failed' = failed
    BY DEF RectDone
  <2>2. fbu' = IF fbu.rects - 1 = 0 THEN NoRect ELSE [NoRect EXCEPT !.rects = fbu.rects - 1]
    BY DEF RectDone, RectsLeft
  <2>3. running' = running \/ running' = (avail' > 0)
    BY DEF RectDone, EndUpdate, Returns
  <2>4. running' \in BOOLEAN
    <3>1. (avail' > 0) \in BOOLEAN
      OBVIOUS
    <3>2. running \in BOOLEAN
      BY DEF StreamInv, StreamTypes
    <3> QED
      BY <2>3, <3>1, <3>2, Zenon
  <2> QED
    BY <2>1, <2>2, <2>4
<1>2. s \in Place /\ s.read + n \in Nat /\ s.read + n \in 1 .. LenOf(rect)
  BY Encodings DEF Remaining, Place, InRect
<1>3. t \in Place /\ t.read = s.read + n /\ t.block = s.block /\ t.rects = s.rects
      /\ t.size = s.size /\ t.ink = s.ink
  BY <1>2, Moved
<1>4. fbu' = [rects |-> s.rects, enc |-> "none", size |-> 0] /\ s.rects \in Nat
  <2>1. fbu.rects \in Nat /\ s.rects = fbu.rects - 1 /\ s.rects \in Nat
    BY DEF StreamInv, StreamTypes, FbuTypes, InRect, Remaining, Place
  <2> QED
    BY <1>1, <2>1 DEF NoRect
<1>5. StreamTypes'
  <2>1. FbuTypes'
    BY <1>4 DEF FbuTypes, NoRect
  <2>2. DecTypes'
    BY DEF DecTypes, Idle, Remembers
  <2> QED
    BY <1>1, <2>1, <2>2 DEF StreamInv, StreamTypes, Moves, serverVars
<1>p. Orderly => Canvas' /\ Painted(t, e)'
  <2>1. Put(items) \/ Put(items \o Flip)
    BY DEF RectDone, EndUpdate
  <2>2. UNCHANGED flushing /\ s.read + n <= LenOf(rect)
    BY <1>2 DEF RectDone
  <2>3. PICK memory : memory = dec'
    OBVIOUS
  <2>4. Orderly => Brush(s, rect, n, items, memory)
    BY <2>3
  <2> QED
    BY <2>1, <2>2, <2>3, <2>4, Brushed
<1>6. Remaining(t, e)'
  BY <1>1, <1>3, <1>p DEF Remaining, Moves, serverVars
<1> HIDE DEF t
<1>7. Between(t)'
  BY <1>1, <1>2, <1>3, <1>4 DEF Between, InRect, AtEndOfBlock, LenOf, Resized
<1> QED
  BY <1>3, <1>5, <1>p, <1>6, <1>7 DEF StreamInv, OnTrack, Agrees, Remaining

\* A handler of a rectangle runs in one of its encoding.
LEMMA Working ==
  ASSUME StreamInv, NEW enc, enc # "none", At(enc)
  PROVE  /\ running
         /\ \E s, e \in Place : \E rect \in Readable :
              Remaining(s, e) /\ InRect(s, rect) /\ Of(rect) = enc
<1>1. running /\ fbu.enc = enc
  BY DEF At
<1>2. PICK s, e \in Place : Remaining(s, e) /\ Agrees(s)
  BY <1>1 DEF StreamInv, OnTrack
<1>3. ~ Between(s)
  BY <1>1 DEF Between
<1>4. PICK rect \in Readable : InRect(s, rect)
  BY <1>2, <1>3 DEF Agrees
<1> QED
  BY <1>1, <1>2, <1>4 DEF InRect

-----------------------------------------------------------------------------
(* Messages, headers and resizing *)

\* What is due, seen from the beginning of the next block.
LEMMA BlockPaints ==
  ASSUME Orderly, StreamInv, NEW s \in Place, NEW e \in Place, Painted(s, e), Between(s),
         NEW t \in Place, Follows(s, t), t.read = 0, Run(wire, t, e)
  PROVE  Painted(t, e)
<1>1. /\ s.ink \in Inks /\ t.ink \in Inks /\ s.ink.drawn \in Seq(AllDraws)
      /\ t.ink.drawn \in Seq(AllDraws) /\ s.ink.tables \in Tables
  BY DEF Place, Inks
<1>2. PICK f \in Seq(AllDraws) : Owes(f, s, e)
  BY DEF Painted
<1>3. wire \in Seq(AllPieces)
  BY DEF StreamInv, StreamTypes
<1>4. PICK g \in Seq(AllDraws) : e.ink.drawn = t.ink.drawn \o g
  <2>1. Grows(t, e)
    BY <1>3, RunGrows
  <2> QED
    BY <2>1 DEF Grows
<1>5. AtEndOfBlock(s) /\ fbu.rects = s.rects /\ s.rects \in Nat
  BY DEF Between, Place
<1>6. ToPaintAt(s) = <<>>
  BY <1>5, Zenon DEF ToPaintAt
<1>7. e.ink.drawn = s.ink.drawn \o f /\ due = Draws(queue) \o f
  <2>1. <<>> \o f = f
    BY DrawsRegroup
  <2> QED
    BY <1>2, <1>6, <2>1 DEF Owes
<1>8. Kept(dec.huffman, dec.cachedHuffman) = s.ink.tables.huffman
      /\ Kept(dec.quant, dec.cachedQuant) = s.ink.tables.quant
  BY <1>5, Zenon DEF Painted, TablesMatch
<1>9. t.block \in Seq(AllPieces) /\ Len(t.block) \in Nat /\ Len(t.block) # 0
  BY BlocksAreNotEmpty, LenProperties
<1>10. ~ AtEndOfBlock(t)
  BY <1>9 DEF AtEndOfBlock
<1>11. CASE MessageFollows(s, t) \/ UpdateFollows(s, t)
  <2>1. /\ t.ink.rect = "none" /\ t.ink.drawn = s.ink.drawn /\ t.ink.tables = s.ink.tables
        /\ s.rects = 0
    BY <1>11 DEF MessageFollows, UpdateFollows, NoInk
  <2>2. f = g
    <3> DEFINE a == s.ink.drawn
    <3>1. a \in Seq(AllDraws) /\ a \o f = a \o g
      BY <1>1, <1>4, <1>7, <2>1
    <3> HIDE DEF a
    <3> QED
      BY <3>1, Cancelled
  <2>3. ToPaintAt(t) = <<>> /\ <<>> \o f = f
    BY <2>1, DrawsRegroup, Zenon DEF ToPaintAt
  <2>4. Owes(f, t, e)
    BY <1>7, <2>1, <2>3 DEF Owes
  <2>5. "none" \notin Direct /\ "none" \notin Images
    BY DEF Direct, Images
  <2>6. TablesMatch(t.ink, AtEndOfBlock(t), dec)
    BY <1>8, <2>1 DEF TablesMatch, FileTables
  <2>7. LastTile(t.ink.rect, t.read, dec)
    BY <2>1 DEF LastTile
  <2>8. ~ (fbu.rects > 0)
    BY <1>5, <2>1
  <2> QED
    BY <2>1, <2>4, <2>5, <2>6, <2>7, <2>8 DEF Painted
<1>12. ASSUME NEW rect \in Readable, RectFollows(s, t, rect)
       PROVE  Painted(t, e)
  <2> DEFINE tb == TablesOf(rect, s.ink.tables)
             rd == RectDraws(rect, tb)
  <2>1. t.ink = Inked(s.ink, rect) /\ Fits(s.ink, rect) /\ t.block = RectPieces(rect)
    BY <1>12 DEF RectFollows
  <2>2. tb \in Tables
    BY <1>1, TablesOfAre
  <2>3. rd \in Seq(AllDraws)
    BY <2>2, RectDrawsAre
  <2>4. /\ t.ink.rect = rect /\ t.ink.tables = tb /\ t.ink.drawn = s.ink.drawn \o rd
        /\ t.ink.imaged = (s.ink.imaged \/ rect \in Images)
    <3>1. /\ Inked(s.ink, rect).rect = rect /\ Inked(s.ink, rect).tables = tb
          /\ Inked(s.ink, rect).drawn = s.ink.drawn \o rd
          /\ Inked(s.ink, rect).imaged = (s.ink.imaged \/ rect \in Images)
      BY <1>1, InkedIs, Zenon
    <3> QED
      BY <2>1, <3>1, Zenon
  <2>5. ToPaintAt(t) = rd
    <3>1. rect # "none"
      BY DEF Readable, Rects
    <3>2. 0 # LenOf(rect)
      BY <1>9, <2>1 DEF LenOf
    <3>3. 0 <= 1
      OBVIOUS
    <3>4. ToPaint(rect, 0, tb) = rd
      BY <3>2, <3>3, Zenon DEF ToPaint
    <3> HIDE DEF rd, tb
    <3> QED
      BY <1>10, <2>4, <3>1, <3>4, Zenon DEF ToPaintAt
  <2> HIDE DEF rd, tb
  <2>6. f = rd \o g
    <3> DEFINE a == s.ink.drawn
    <3>1. a \in Seq(AllDraws) /\ rd \o g \in Seq(AllDraws)
      BY <1>1, <2>3, ConcatProperties
    <3>2. a \o f = (a \o rd) \o g
      BY <1>4, <1>7, <2>4
    <3> HIDE DEF a
    <3>3. (a \o rd) \o g = a \o (rd \o g)
      BY <2>3, <3>1, DrawsRegroup
    <3>4. a \o f = a \o (rd \o g)
      BY <3>2, <3>3
    <3> DEFINE b == rd \o g
    <3>5. b \in Seq(AllDraws) /\ a \o f = a \o b
      BY <3>1, <3>4
    <3> HIDE DEF b
    <3>6. f = b
      BY <3>1, <3>5, Cancelled
    <3> QED
      BY <3>6 DEF b
  <2>7. Owes(g, t, e)
    BY <1>4, <1>7, <2>5, <2>6 DEF Owes
  <2>8. fbu.rects > 0 /\ queue # <<>> => flushing \/ t.ink.imaged
    BY <2>4, Zenon DEF Painted
  <2>9. /\ t.ink.rect \in Direct => ~ t.ink.imaged
        /\ t.ink.rect \in Images => t.ink.imaged
    <3>1. rect \in Direct => rect \notin Images
      BY DEF Direct, Images
    <3> QED
      BY <2>1, <2>4, <3>1, Zenon DEF Fits
  <2>10. TablesMatch(t.ink, AtEndOfBlock(t), dec)
    <3>1. rect # "jpeg" => tb.huffman = s.ink.tables.huffman
      <4>1. s.ink.tables = [quant |-> s.ink.tables.quant, huffman |-> s.ink.tables.huffman]
        BY <1>1 DEF Tables
      <4> QED
        BY <4>1 DEF tb, TablesOf
    <3>2. rect \notin {"jpeg", "jpegQuant"} => tb.quant = s.ink.tables.quant
      BY DEF tb, TablesOf
    <3>3. FileTables(t.ink)
      <4>1. rect = "jpeg" => tb.quant = <<1, 2>> /\ tb.huffman = <<3>>
        BY DEF tb, TablesOf
      <4>2. rect = "jpegQuant" => tb.quant = <<4>>
        <5>1. s.ink.tables = [quant |-> s.ink.tables.quant, huffman |-> s.ink.tables.huffman]
          BY <1>1 DEF Tables
        <5> QED
          BY <5>1 DEF tb, TablesOf
      <4> QED
        BY <2>4, <4>1, <4>2, Zenon DEF FileTables
    <3> QED
      BY <1>8, <1>10, <2>4, <3>1, <3>2, <3>3, Zenon DEF TablesMatch
  <2>11. LastTile(t.ink.rect, t.read, dec)
    BY DEF LastTile
  <2> QED
    BY <2>7, <2>8, <2>9, <2>10, <2>11 DEF Painted
<1> QED
  BY <1>11, <1>12 DEF Follows

\* The block that comes next.
LEMMA NextBlock ==
  ASSUME StreamInv, running, avail >= 1, NEW s, NEW e, Remaining(s, e), Between(s)
  PROVE  \E t \in Place : /\ Follows(s, t) /\ t.read = 0 /\ Remaining(t, e)
                          /\ t.block \in Seq(AllPieces) /\ Len(t.block) \in Nat
                          /\ 1 <= Len(t.block) /\ wire[1] = t.block[1]
<1>1. Len(wire) # 0 /\ wire \in Seq(AllPieces)
  BY LenProperties DEF StreamInv, StreamTypes
<1>2. PICK t \in Place : Follows(s, t) /\ t.read = 0 /\ Run(wire, t, e)
  BY <1>1, RunNext DEF Remaining, Between
<1>3. Remaining(t, e)
  <2>1. Orderly => Painted(t, e)
    BY <1>2, BlockPaints DEF Remaining
  <2> QED
    BY <1>2, <2>1 DEF Remaining
<1>4. t.block \in Seq(AllPieces) /\ Len(t.block) \in Nat /\ Len(t.block) # 0
  BY <1>2, BlocksAreNotEmpty, LenProperties
<1>5. wire[1] = t.block[1]
  <2>1. 1 \in Nat /\ 1 <= avail /\ t.read + 1 <= Len(t.block) /\ t.read + 1 = 1
    BY <1>2, <1>4
  <2>2. \A i \in 1 .. 1 : wire[i] = t.block[t.read + i]
    BY <1>3, <2>1, Ahead
  <2> QED
    BY <2>1, <2>2
<1> QED
  BY <1>2, <1>3, <1>4, <1>5

LEMMA OnTrackBetween ==
  ASSUME StreamInv, running, fbu.enc = "none"
  PROVE  \E s, e \in Place : Remaining(s, e) /\ Between(s)
<1>1. PICK s, e \in Place : Remaining(s, e) /\ Agrees(s)
  BY DEF StreamInv, OnTrack
<1>2. ASSUME NEW rect \in Readable, InRect(s, rect)
      PROVE  FALSE
  BY <1>2, Encodings DEF InRect
<1> QED
  BY <1>1, <1>2 DEF Agrees

\* The place after the block t, whose pieces have been read.
LEMMA AfterBlock ==
  ASSUME NEW s \in Place, NEW e, NEW t \in Place, Follows(s, t), t.read = 0,
         Moves(t, e, Len(t.block)),
         e \in Place, AtRest(e), e.size = serverSize', e.ink.tables = tables',
         Len(t.block) \in Nat, Orderly => Painted([t EXCEPT !.read = Len(t.block)], e)'
  PROVE  LET a == [t EXCEPT !.read = Len(t.block)] IN
         /\ a \in Place /\ Remaining(a, e)' /\ AtEndOfBlock(a)
         /\ a.rects = t.rects /\ a.size = t.size
<1>1. LET a == [t EXCEPT !.read = Len(t.block)] IN
      /\ a \in Place /\ a.read = Len(t.block) /\ a.block = t.block /\ a.rects = t.rects
      /\ a.size = t.size
  BY Moved
<1>2. t.read + Len(t.block) = Len(t.block)
  OBVIOUS
<1> QED
  BY <1>1, <1>2 DEF Moves, Remaining, AtEndOfBlock

\* A message, or the header of an update, draws nothing.
LEMMA UnpaintedBlock ==
  ASSUME NEW t \in Place, NEW e, t.ink.rect = "none", t.block \in Seq(AllPieces), Painted(t, e),
         UNCHANGED <<drawVars, dec>>, Len(t.block) \in Nat,
         fbu'.rects > 0 /\ queue # <<>> => flushing'
  PROVE  Painted([t EXCEPT !.read = Len(t.block)], e)'
<1> DEFINE a == [t EXCEPT !.read = Len(t.block)]
<1>1. a \in Place /\ a.ink = t.ink
  BY Moved
<1> HIDE DEF a
<1>2. ToPaintAt(a) = ToPaintAt(t)
  BY <1>1, Zenon DEF ToPaintAt
<1>3. LastTile(a.ink.rect, a.read, dec) /\ t.ink.rect \notin {"jpeg", "jpegQuant"}
  BY <1>1 DEF LastTile
<1>4. UNCHANGED <<queue, due, dec>>
  BY DEF drawVars
<1>5. Painted(a, e)'
  BY <1>1, <1>2, <1>3, <1>4, PaintedMoves
<1> QED
  BY <1>5 DEF a

\* The messages that begin so have these pieces.
Spells(kinds, n) ==
  \A b \in Messages : b[1].kind = kinds[1] =>
    Len(b) = n /\ \A i \in 1 .. n : b[i].kind = kinds[i]

LEMMA MessageRead ==
  ASSUME StreamInv, BetweenMessages, NEW kinds, NEW n \in Nat, n >= 1, Len(kinds) = n,
         Reads(kinds), wire[1].kind = kinds[1], kinds[1] # "update",
         Spells(kinds, n),
         UNCHANGED <<fbu, dec, fbSize, drawVars, flushing, serverVars>>,
         running' \in BOOLEAN, failed' \in BOOLEAN
  PROVE  StreamInv'
<1>1. running /\ fbu.rects = 0 /\ fbu.enc = "none" /\ avail >= 1
  BY DEF BetweenMessages, StreamInv, StreamTypes, FbuTypes, NoRect, Reads
<1>2. PICK s, e \in Place : Remaining(s, e) /\ Between(s)
  BY <1>1, OnTrackBetween
<1>3. PICK t \in Place : /\ Follows(s, t) /\ t.read = 0 /\ Remaining(t, e)
                         /\ t.block \in Seq(AllPieces) /\ Len(t.block) \in Nat
                         /\ 1 <= Len(t.block) /\ wire[1] = t.block[1]
  BY <1>1, <1>2, NextBlock
<1>4. s.rects = 0 /\ AtEndOfBlock(s) /\ s.size = fbSize
  BY <1>1, <1>2 DEF Between
<1>5. MessageFollows(s, t)
  <2>1. ~ UpdateFollows(s, t)
    <3>1. t.rects \in Nat
      BY DEF Place
    <3>2. Counted(t.rects)[1].kind = "update"
      BY <3>1, CountedIs
    <3> QED
      BY <1>3, <3>2 DEF UpdateFollows
  <2>2. ~ \E rect \in Readable : RectFollows(s, t, rect)
    BY <1>4 DEF RectFollows
  <2> QED
    BY <1>3, <2>1, <2>2 DEF Follows
<1>6. Len(t.block) = n /\ \A i \in 1 .. n : t.block[i].kind = kinds[i]
  BY <1>3, <1>5 DEF MessageFollows, Spells
<1>7. Moves(t, e, n)
  <2>1. t.read + n <= Len(t.block) /\ \A i \in 1 .. n : t.block[t.read + i].kind = kinds[i]
    BY <1>3, <1>6
  <2> QED
    BY <1>3, <2>1, Reading
<1> DEFINE a == [t EXCEPT !.read = Len(t.block)]
<1>8. /\ a \in Place /\ Remaining(a, e)' /\ AtEndOfBlock(a)
      /\ a.rects = t.rects /\ a.size = t.size
  <2>1. AtRest(e) /\ e.size = serverSize' /\ e.ink.tables = tables'
    BY <1>2 DEF Remaining, serverVars
  <2>2. ASSUME Orderly
        PROVE  Painted([t EXCEPT !.read = Len(t.block)], e)'
    <3>1. t.ink.rect = "none"
      BY <1>5 DEF MessageFollows, NoInk
    <3>2. Painted(t, e) /\ ~ (fbu'.rects > 0) /\ UNCHANGED <<drawVars, dec>>
      BY <1>1, <1>3, <2>2 DEF Remaining
    <3> QED
      BY <1>3, <3>1, <3>2, UnpaintedBlock
  <2> QED
    BY <1>3, <1>6, <1>7, <2>1, <2>2, AfterBlock
<1> HIDE DEF a
<1>9. Between(a)'
  BY <1>1, <1>2, <1>4, <1>5, <1>8 DEF Between, MessageFollows, Idle, Remembers
<1>10. StreamTypes'
  BY <1>7 DEF StreamInv, StreamTypes, FbuTypes, DecTypes, Moves, serverVars
<1>11. Orderly => Canvas'
  BY <1>1, CanvasKept
<1> QED
  BY <1>8, <1>9, <1>10, <1>11 DEF StreamInv, OnTrack, Agrees

LEMMA MessageWaits ==
  ASSUME StreamInv, BetweenMessages, Waits
  PROVE  StreamInv'
<1>1. running /\ fbu.enc = "none"
  BY DEF BetweenMessages, StreamInv, StreamTypes, FbuTypes, NoRect
<1>2. PICK s, e \in Place : Remaining(s, e) /\ Between(s)
  BY <1>1, OnTrackBetween
<1> QED
  BY <1>1, <1>2, WaitsIs

LEMMA Skipped ==
  ASSUME StreamInv, NEW kinds, Skip(kinds), NEW n \in Nat, n >= 1, Len(kinds) = n,
         kinds[1] # "update", Spells(kinds, n)
  PROVE  StreamInv'
<1>1. BetweenMessages /\ wire[1].kind = kinds[1]
  BY DEF Skip, NextIs
<1>2. CASE Waits
  BY <1>1, <1>2, MessageWaits
<1>3. CASE ~ Lacks(Len(kinds))
  <2>1. /\ Reads(kinds) /\ Returns
        /\ UNCHANGED <<fbu, dec, fbSize, drawVars, flushing, serverVars>>
        /\ failed' = failed
    BY <1>3 DEF Skip, askVars
  <2>2. failed' \in BOOLEAN
    BY <2>1 DEF StreamInv, StreamTypes
  <2>3. running' \in BOOLEAN
    BY <2>1 DEF Returns
  <2> QED
    BY <1>1, <2>1, <2>2, <2>3, MessageRead
<1> QED
  BY <1>2, <1>3 DEF Skip

LEMMA MessagesKeepStep ==
  ASSUME StreamInv,
         \/ Bell \/ ServerCutText \/ ServerFence \/ Xvp \/ EndOfContinuousUpdates
         \/ SetColourMap \/ UnexpectedMessage
  PROVE  StreamInv'
<1>1. CASE Bell
  <2> DEFINE kinds == <<"bell">>
  <2>1. \A b \in Messages : b[1].kind = "bell" => Len(b) = 1
    BY MessagesAre
  <2>2. Len(kinds) = 1 /\ kinds[1] = "bell"
    OBVIOUS
  <2>3. Skip(kinds)
    BY <1>1 DEF Bell
  <2> HIDE DEF kinds
  <2>5. Spells(kinds, 1) /\ 1 \in Nat /\ 1 >= 1
    BY <2>1, <2>2 DEF Spells
  <2> QED
    BY <2>2, <2>3, <2>5, Skipped
<1>2. CASE ServerCutText
  <2>1. \A b \in Messages : b[1].kind = "cutText" =>
          Len(b) = 3 /\ b[2].kind = "length" /\ b[3].kind = "text"
    BY MessagesAre
  <2> DEFINE kinds == <<"cutText", "length", "text">>
  <2>2. Len(kinds) = 3 /\ kinds[1] = "cutText" /\ kinds[2] = "length" /\ kinds[3] = "text"
    OBVIOUS
  <2>3. Skip(kinds)
    BY <1>2 DEF ServerCutText
  <2> HIDE DEF kinds
  <2>4. \A i \in 1 .. 3 : i = 1 \/ i = 2 \/ i = 3
    OBVIOUS
  <2>5. Spells(kinds, 3) /\ 3 \in Nat /\ 3 >= 1
    BY <2>1, <2>2, <2>4 DEF Spells
  <2> QED
    BY <2>2, <2>3, <2>5, Skipped
<1>3. CASE ServerFence
  <2>1. \A b \in Messages : b[1].kind = "fence" =>
          Len(b) = 3 /\ b[2].kind = "length" /\ b[3].kind = "payload"
    BY MessagesAre
  <2> DEFINE kinds == <<"fence", "length", "payload">>
  <2>2. Len(kinds) = 3 /\ kinds[1] = "fence" /\ kinds[2] = "length" /\ kinds[3] = "payload"
    OBVIOUS
  <2>3. \A i \in 1 .. 3 : i = 1 \/ i = 2 \/ i = 3
    OBVIOUS
  <2>4. NextIs("fence")
    BY <1>3 DEF ServerFence
  <2>5. CASE Waits
    BY <2>4, <2>5, MessageWaits DEF NextIs
  <2>6. CASE ~Waits
    <3>1. Reads(kinds) /\ UNCHANGED <<fbu, dec, fbSize, drawVars, flushing, serverVars>>
      BY <1>3, <2>6 DEF ServerFence, askVars
    <3>2. running' \in BOOLEAN /\ failed' \in BOOLEAN
      <4>1. failed \in BOOLEAN /\ (avail' > 0) \in BOOLEAN
        BY DEF StreamInv, StreamTypes
      <4>2. (failed \/ wire[2].of = "illegal") \in BOOLEAN
        OBVIOUS
      <4> QED
        BY <1>3, <2>6, <4>1, <4>2, Zenon DEF ServerFence, Returns
    <3> HIDE DEF kinds
    <3>3. Spells(kinds, 3) /\ 3 \in Nat /\ 3 >= 1
      BY <2>1, <2>2, <2>3 DEF Spells
    <3> QED
      BY <2>2, <2>4, <3>1, <3>2, <3>3, MessageRead DEF NextIs
  <2> QED
    BY <2>5, <2>6
<1>4. CASE Xvp
  <2>1. \A b \in Messages : b[1].kind = "xvp" => Len(b) = 2 /\ b[2].kind = "version"
    BY MessagesAre
  <2> DEFINE kinds == <<"xvp", "version">>
  <2>2. Len(kinds) = 2 /\ kinds[1] = "xvp" /\ kinds[2] = "version"
    OBVIOUS
  <2>3. \A i \in 1 .. 2 : i = 1 \/ i = 2
    OBVIOUS
  <2>4. NextIs("xvp")
    BY <1>4 DEF Xvp
  <2>5. CASE Waits
    BY <2>4, <2>5, MessageWaits DEF NextIs
  <2>6. CASE ~Waits
    <3>1. Reads(kinds) /\ UNCHANGED <<fbu, dec, fbSize, drawVars, flushing, serverVars>>
      BY <1>4, <2>6 DEF Xvp, askVars
    <3>2. running' \in BOOLEAN /\ failed' \in BOOLEAN
      <4>1. failed \in BOOLEAN /\ (avail' > 0) \in BOOLEAN
        BY DEF StreamInv, StreamTypes
      <4>2. (failed \/ wire[2].of = "illegal") \in BOOLEAN
        OBVIOUS
      <4> QED
        BY <1>4, <2>6, <4>1, <4>2, Zenon DEF Xvp, Returns
    <3> HIDE DEF kinds
    <3>3. Spells(kinds, 2) /\ 2 \in Nat /\ 2 >= 1
      BY <2>1, <2>2, <2>3 DEF Spells
    <3> QED
      BY <2>2, <2>4, <3>1, <3>2, <3>3, MessageRead DEF NextIs
  <2> QED
    BY <2>5, <2>6
<1>5. ASSUME NEW kind \in {"endContinuous", "colourMap", "unexpected"}, NextIs(kind),
             Reads(<<kind>>), UNCHANGED <<fbu, dec, fbSize, drawVars, flushing, serverVars>>,
             running' \in BOOLEAN, failed' \in BOOLEAN
      PROVE  StreamInv'
  <2> DEFINE kinds == <<kind>>
  <2>1. Len(kinds) = 1 /\ kinds[1] = kind
    OBVIOUS
  <2>2. \A b \in Messages : b[1].kind = kind => Len(b) = 1
    BY MessagesAre
  <2>3. Reads(kinds)
    BY <1>5
  <2> HIDE DEF kinds
  <2>4. Spells(kinds, 1) /\ 1 \in Nat /\ 1 >= 1
    BY <2>1, <2>2 DEF Spells
  <2>5. BetweenMessages /\ wire[1].kind = kinds[1] /\ kinds[1] # "update"
    BY <1>5, <2>1 DEF NextIs
  <2> QED
    BY <1>5, <2>1, <2>3, <2>4, <2>5, MessageRead
<1>6. CASE EndOfContinuousUpdates
  <2>1. /\ NextIs("endContinuous") /\ Reads(<<"endContinuous">>)
        /\ UNCHANGED <<fbu, dec, fbSize, drawVars, flushing, serverVars>> /\ failed' = failed /\ Returns
    BY <1>6 DEF EndOfContinuousUpdates
  <2>2. running' \in BOOLEAN /\ failed' \in BOOLEAN
    BY <2>1 DEF Returns, StreamInv, StreamTypes
  <2> QED
    BY <1>5, <2>1, <2>2
<1>7. CASE SetColourMap
  <2>1. /\ NextIs("colourMap") /\ Reads(<<"colourMap">>)
        /\ UNCHANGED <<fbu, dec, fbSize, drawVars, flushing, serverVars>> /\ failed' = TRUE /\ running' = FALSE
    BY <1>7 DEF SetColourMap, askVars
  <2> QED
    BY <1>5, <2>1
<1>8. CASE UnexpectedMessage
  <2>1. /\ NextIs("unexpected") /\ Reads(<<"unexpected">>)
        /\ UNCHANGED <<fbu, dec, fbSize, drawVars, flushing, serverVars>> /\ failed' = TRUE /\ Returns
    BY <1>8 DEF UnexpectedMessage, askVars
  <2>2. running' \in BOOLEAN
    BY <2>1 DEF Returns
  <2> QED
    BY <1>5, <2>1, <2>2
<1> QED
  BY <1>1, <1>2, <1>3, <1>4, <1>6, <1>7, <1>8

-----------------------------------------------------------------------------
(* Updates, headers of rectangles, and pseudo rectangles *)

LEMMA BeginKeepsStep ==
  ASSUME StreamInv, BeginUpdate
  PROVE  StreamInv'
<1>1. NextIs("update") /\ BetweenMessages
  BY DEF BeginUpdate, NextIs
<1>2. CASE Waits
  BY <1>1, <1>2, MessageWaits
<1>3. CASE ~ Lacks(2) /\ ~ Waits
  <2> DEFINE kinds == <<"update", "count">>
  <2>1. /\ Reads(kinds) /\ UNCHANGED <<dec, fbSize, serverVars>> /\ failed' = failed
        /\ fbu' = [NoRect EXCEPT !.rects = wire[2].n]
        /\ running' = FALSE \/ running' = running \/ running' = (avail' > 0)
    BY <1>3 DEF BeginUpdate, EndUpdate, Returns
  <2>2. running /\ fbu.rects = 0 /\ fbu.enc = "none"
    BY <1>1 DEF BetweenMessages, StreamInv, StreamTypes, FbuTypes, NoRect
  <2>3. Len(kinds) = 2 /\ kinds[1] = "update" /\ kinds[2] = "count"
    OBVIOUS
  <2> HIDE DEF kinds
  <2>4. avail >= 2 /\ avail >= 1
    BY <2>1, <2>3 DEF Reads, StreamInv, StreamTypes
  <2>5. PICK s, e \in Place : Remaining(s, e) /\ Between(s)
    BY <2>2, OnTrackBetween
  <2>6. PICK t \in Place : /\ Follows(s, t) /\ t.read = 0 /\ Remaining(t, e)
                           /\ t.block \in Seq(AllPieces) /\ Len(t.block) \in Nat
                           /\ 1 <= Len(t.block) /\ wire[1] = t.block[1]
    BY <2>2, <2>4, <2>5, NextBlock
  <2>7. s.rects = 0 /\ s.size = fbSize
    BY <2>2, <2>5 DEF Between
  <2>8. t.block[1].kind = "update"
    BY <1>1, <2>6 DEF NextIs
  <2>9. UpdateFollows(s, t)
    <3>1. ~ MessageFollows(s, t)
      BY <2>8, MessagesAre DEF MessageFollows
    <3>2. ~ \E rect \in Readable : RectFollows(s, t, rect)
      BY <2>7 DEF RectFollows
    <3> QED
      BY <2>6, <3>1, <3>2 DEF Follows
  <2>10. /\ t.rects \in Nat \ {0} /\ Len(t.block) = 2 /\ t.block[2].n = t.rects
         /\ t.block[2].kind = "count"
    <3>1. t.rects \in Nat
      BY DEF Place
    <3>2. /\ Len(Counted(t.rects)) = 2 /\ Counted(t.rects)[2].n = t.rects
          /\ Counted(t.rects)[2].kind = "count"
      BY <3>1, CountedIs
    <3>3. t.block = Counted(t.rects) /\ t.rects # 0
      BY <2>9 DEF UpdateFollows
    <3> QED
      BY <3>1, <3>2, <3>3
  <2>11. \A i \in 1 .. 2 : t.read + i = i /\ (i = 1 \/ i = 2)
    BY <2>6
  <2>12. Moves(t, e, 2)
    <3>1. t.read + 2 <= Len(t.block) /\ \A i \in 1 .. 2 : t.block[t.read + i].kind = kinds[i]
      BY <2>3, <2>6, <2>8, <2>10, <2>11
    <3> QED
      BY <2>1, <2>3, <2>6, <3>1, Reading
  <2>13. wire[2].n = t.rects
    <3>1. \A i \in 1 .. 2 : wire[i] = t.block[t.read + i]
      <4>1. 2 \in Nat /\ 2 <= avail /\ t.read + 2 <= Len(t.block)
        BY <2>4, <2>6, <2>10 DEF StreamInv, StreamTypes
      <4> QED
        BY <2>6, <4>1, Ahead
    <3>2. 2 \in 1 .. 2
      OBVIOUS
    <3> QED
      BY <2>10, <2>11, <3>1, <3>2
  <2>d. /\ UNCHANGED drawVars
        /\ IF queue # <<>> THEN flushing' = TRUE /\ running' = FALSE ELSE UNCHANGED flushing
    <3>1. wire[2].n # 0
      BY <2>10, <2>13
    <3> QED
      BY <1>3, <3>1, Zenon DEF BeginUpdate, Pending
  <2>c. Orderly => Canvas'
    <3>1. Orderly => Canvas
      BY DEF StreamInv
    <3> QED
      BY <2>2, <2>d, <3>1 DEF Canvas, drawVars
  <2> DEFINE a == [t EXCEPT !.read = Len(t.block)]
  <2>14. /\ a \in Place /\ Remaining(a, e)' /\ AtEndOfBlock(a)
         /\ a.rects = t.rects /\ a.size = t.size
    <3>1. AtRest(e) /\ e.size = serverSize' /\ e.ink.tables = tables'
      BY <2>1, <2>5 DEF Remaining, serverVars
    <3>2. ASSUME Orderly
          PROVE  Painted([t EXCEPT !.read = Len(t.block)], e)'
      <4>1. t.ink.rect = "none"
        BY <2>9 DEF UpdateFollows, NoInk
      <4>2. Painted(t, e) /\ UNCHANGED <<drawVars, dec>> /\ (queue # <<>> => flushing')
        BY <2>1, <2>6, <2>d, <3>2 DEF Remaining
      <4> QED
        BY <2>6, <4>1, <4>2, UnpaintedBlock
    <3>3. /\ s \in Place /\ t \in Place /\ Follows(s, t) /\ t.read = 0
          /\ Moves(t, e, Len(t.block)) /\ e \in Place /\ Len(t.block) \in Nat
      BY <2>1, <2>6, <2>10, <2>12
    <3> QED
      BY <3>1, <3>2, <3>3, AfterBlock
  <2> HIDE DEF a
  <2>15. fbu' = [rects |-> t.rects, enc |-> "none", size |-> 0]
    BY <2>1, <2>13 DEF NoRect
  <2>16. Between(a)'
    BY <2>1, <2>5, <2>7, <2>9, <2>14, <2>15 DEF Between, UpdateFollows, Idle, Remembers
  <2>17. StreamTypes'
    <3>1. FbuTypes'
      BY <2>10, <2>15 DEF FbuTypes, NoRect
    <3>2. running' \in BOOLEAN
      <4>1. (avail' > 0) \in BOOLEAN
        OBVIOUS
      <4>2. running \in BOOLEAN
        BY DEF StreamInv, StreamTypes
      <4> QED
        BY <2>1, <4>1, <4>2, Zenon
    <3> QED
      BY <2>1, <2>12, <3>1, <3>2 DEF StreamInv, StreamTypes, DecTypes, Moves, serverVars
  <2> QED
    BY <2>14, <2>16, <2>17, <2>c DEF StreamInv, OnTrack, Agrees
<1> QED
  BY <1>2, <1>3 DEF BeginUpdate

\* The header of a rectangle draws nothing.
LEMMA HeaderPaints ==
  ASSUME NEW rect \in Readable, NEW t, NEW a, t.block = RectPieces(rect), a.block = t.block,
         a.ink = t.ink, t.ink.rect = rect, t.read = 0, a.read = 1
  PROVE  ToPaintAt(a) = ToPaintAt(t)
<1>1. Len(t.block) = LenOf(rect) /\ LenOf(rect) \in Nat /\ 1 \in 1 .. LenOf(rect)
  BY Encodings DEF LenOf
<1>2. rect # "none"
  BY DEF Readable, Rects
<1>3. ~ AtEndOfBlock(t)
  BY <1>1 DEF AtEndOfBlock
<1>4. ToPaintAt(t) = RectDraws(rect, t.ink.tables)
  <2>1. 0 # LenOf(rect) /\ 0 <= 1
    BY <1>1
  <2> QED
    BY <1>2, <1>3, <2>1, Zenon DEF ToPaintAt, ToPaint
<1>5. CASE LenOf(rect) = 1
  <2>1. rect \in Undrawn
    BY <1>5, Heads DEF Starts, Undrawn, Readable, Rects
  <2>2. AtEndOfBlock(a)
    BY <1>1, <1>5 DEF AtEndOfBlock
  <2> QED
    BY <1>4, <2>1, <2>2, UndrawnIs, Zenon DEF ToPaintAt
<1>6. CASE LenOf(rect) # 1
  <2>1. 1 # LenOf(rect) /\ 1 <= 1
    BY <1>6
  <2>2. ~ AtEndOfBlock(a)
    BY <1>1, <1>6 DEF AtEndOfBlock
  <2> QED
    BY <1>2, <1>4, <2>1, <2>2, Zenon DEF ToPaintAt, ToPaint
<1> QED
  BY <1>5, <1>6

LEMMA HeaderKeepsStep ==
  ASSUME StreamInv, RectHeader
  PROVE  StreamInv'
<1>1. running /\ fbu.rects > 0 /\ fbu.enc = "none"
  BY DEF RectHeader, At
<1>2. PICK s, e \in Place : Remaining(s, e) /\ Between(s)
  BY <1>1, OnTrackBetween
<1>3. CASE Waits
  BY <1>1, <1>2, <1>3, WaitsIs
<1>4. CASE ~ Waits
  <2> DEFINE kinds == <<"rect">>
  <2>1. /\ Reads(kinds) /\ UNCHANGED <<dec, fbSize, drawVars, flushing, serverVars>>
        /\ failed' = failed
        /\ running' = running /\ fbu' = [fbu EXCEPT !.enc = wire[1].of, !.size = wire[1].n]
    BY <1>4 DEF RectHeader, askVars
  <2>2. Len(kinds) = 1 /\ kinds[1] = "rect"
    OBVIOUS
  <2> HIDE DEF kinds
  <2>3. avail >= 1
    BY <2>1, <2>2 DEF Reads
  <2>4. PICK t \in Place : /\ Follows(s, t) /\ t.read = 0 /\ Remaining(t, e)
                           /\ t.block \in Seq(AllPieces) /\ Len(t.block) \in Nat
                           /\ 1 <= Len(t.block) /\ wire[1] = t.block[1]
    BY <1>1, <1>2, <2>3, NextBlock
  <2>5. s.rects = fbu.rects /\ s.rects > 0 /\ s.size = fbSize /\ s.rects \in Nat /\ Idle(dec)
    BY <1>1, <1>2 DEF Between, Place
  <2>6. PICK rect \in Readable : RectFollows(s, t, rect)
    <3>1. s.rects # 0
      BY <2>5
    <3> QED
      BY <2>4, <3>1, Zenon DEF Follows, MessageFollows, UpdateFollows
  <2>7. t.block = RectPieces(rect) /\ t.block[1].kind = "rect" /\ Len(t.block) = LenOf(rect)
    BY <2>6, RectsAre DEF RectFollows, LenOf
  <2>8. Moves(t, e, 1)
    <3>1. t.read + 1 <= Len(t.block) /\ \A i \in 1 .. 1 : t.block[t.read + i].kind = kinds[i]
      BY <2>2, <2>4, <2>7
    <3> QED
      BY <2>1, <2>2, <2>4, <3>1, Reading
  <2> DEFINE a == [t EXCEPT !.read = 1]
  <2>9. /\ a \in Place /\ a.read = 1 /\ a.block = t.block /\ a.rects = t.rects /\ a.size = t.size
        /\ a.ink = t.ink
    BY Moved
  <2>10. Remaining(a, e)'
    <3>1. t.read + 1 = 1
      BY <2>4
    <3>2. ASSUME Orderly
          PROVE  Painted(a, e)'
      <4>1. t.ink = Inked(s.ink, rect)
        BY <2>6 DEF RectFollows
      <4>2. t.ink.rect = rect
        <5>1. s.ink \in Inks
          BY DEF Place
        <5>2. Inked(s.ink, rect).rect = rect
          BY <5>1, InkedIs
        <5> QED
          BY <4>1, <5>2
      <4>3. Painted(t, e) /\ UNCHANGED <<queue, due, flushing, dec>> /\ fbu'.rects = fbu.rects
        BY <2>1, <2>4, <3>2 DEF Remaining, drawVars, StreamInv, StreamTypes, FbuTypes
      <4> HIDE DEF a
      <4>4. ToPaintAt(a) = ToPaintAt(t)
        BY <2>4, <2>7, <2>9, <4>2, HeaderPaints
      <4>5. AtEndOfBlock(a) => t.ink.rect \notin {"jpeg", "jpegQuant"}
        BY <2>7, <2>9, <4>2, Heads DEF AtEndOfBlock, Starts
      <4>6. LastTile(a.ink.rect, a.read, dec)
        BY <2>9 DEF LastTile
      <4>7. fbu'.rects > 0 /\ queue # <<>> => flushing' \/ t.ink.imaged
        BY <4>3 DEF Painted
      <4> QED
        BY <2>9, <4>3, <4>4, <4>5, <4>6, <4>7, PaintedMoves
    <3> QED
      BY <1>2, <2>1, <2>8, <2>9, <3>1, <3>2 DEF Remaining, Moves, serverVars
  <2> HIDE DEF a
  <2>c. Orderly => Canvas'
    BY <1>1, <2>1, CanvasKept
  <2>ink. a.ink.rect = rect
    <3>1. s.ink \in Inks /\ a.ink = Inked(s.ink, rect)
      BY <2>6, <2>9 DEF Place, RectFollows
    <3>2. Inked(s.ink, rect).rect = rect
      BY <3>1, InkedIs
    <3> QED
      BY <3>1, <3>2
  <2>11. fbu' = [rects |-> fbu.rects, enc |-> Of(rect), size |-> SizeOf(rect)]
    BY <2>1, <2>4, <2>7 DEF StreamInv, StreamTypes, FbuTypes, Of, SizeOf
  <2>12. 1 \in 1 .. LenOf(rect)
    BY Encodings
  <2>13. InRect(a, rect)'
    <3>1. Doing(rect, 1, dec')
      BY <2>1, <2>5 DEF Doing
    <3>2. a.rects = (IF rect = "lastRect" THEN 0 ELSE fbu.rects - 1)
          /\ a.size = Resized(rect, fbSize) /\ a.block = RectPieces(rect)
      BY <2>5, <2>6, <2>9 DEF RectFollows
    <3>3. running'
      BY <1>1, <2>1
    <3>4. /\ fbu'.enc = Of(rect) /\ fbu'.size = SizeOf(rect) /\ fbu'.rects > 0
          /\ fbu'.rects = fbu.rects /\ fbSize' = fbSize
      <4>1. fbSize' = fbSize
        BY <2>1
      <4>2. fbu'.enc = Of(rect) /\ fbu'.size = SizeOf(rect) /\ fbu'.rects = fbu.rects
        BY <2>11
      <4> QED
        BY <1>1, <4>1, <4>2
    <3>5. a.read \in 1 .. LenOf(rect) /\ Doing(rect, a.read, dec')
      BY <2>9, <2>12, <3>1
    <3> QED
      BY <2>ink, <3>2, <3>3, <3>4, <3>5 DEF InRect
  <2>14. StreamTypes'
    <3>1. FbuTypes'
      BY <1>1, <2>5, <2>11, Encodings DEF FbuTypes
    <3> QED
      BY <2>1, <2>8, <3>1 DEF StreamInv, StreamTypes, DecTypes, Moves, serverVars
  <2> QED
    BY <2>9, <2>10, <2>13, <2>14, <2>c DEF StreamInv, OnTrack, Agrees, Remaining
<1> QED
  BY <1>3, <1>4

\* The end of a rectangle that changes the size.
LEMMA Resizing ==
  ASSUME StreamInv, running, NEW s, NEW e, Remaining(s, e), NEW rect \in DOMAIN NewSize,
         rect \in Readable, InRect(s, rect), NEW n \in Nat, Moves(s, e, n),
         s.read + n = LenOf(rect), ResizeDone(NewSize[rect]), UNCHANGED dec, Idle(dec)
  PROVE  StreamInv'
<1> DEFINE t == [s EXCEPT !.read = s.read + n]
<1>1. fbSize' = NewSize[rect] /\ NewSize[rect] \in Sizes /\ rect # "lastRect"
  <2>1. NewSize[rect] \in {1, 2} /\ rect # "lastRect"
    BY DEF NewSize
  <2> QED
    BY <2>1, UpdatesAssumption DEF ResizeDone
<1>2. UNCHANGED <<serverVars>> /\ failed' = failed /\ running' \in BOOLEAN
  <2>1. UNCHANGED <<serverVars>> /\ failed' = failed
    BY DEF ResizeDone
  <2>2. running' = running \/ running' = (avail' > 0)
    BY DEF ResizeDone, Returns
  <2>3. (avail' > 0) \in BOOLEAN
    OBVIOUS
  <2>4. running \in BOOLEAN
    BY DEF StreamInv, StreamTypes
  <2>5. running' \in BOOLEAN
    BY <2>2, <2>3, <2>4, Zenon
  <2> QED
    BY <2>1, <2>5
<1>3. fbu' = IF fbu.rects - 1 = 0 THEN NoRect ELSE [NoRect EXCEPT !.rects = fbu.rects - 1]
  BY DEF ResizeDone, RectsLeft
<1>4. fbu' = [rects |-> s.rects, enc |-> "none", size |-> 0] /\ s.rects \in Nat
  <2>1. fbu.rects \in Nat /\ s.rects = fbu.rects - 1 /\ s.rects \in Nat
    BY <1>1 DEF StreamInv, StreamTypes, FbuTypes, InRect, Remaining, Place
  <2> QED
    BY <1>3, <2>1 DEF NoRect
<1>5. s \in Place /\ s.read + n \in Nat
  BY Encodings DEF Remaining, Place, InRect
<1>6. t \in Place /\ t.read = s.read + n /\ t.block = s.block /\ t.rects = s.rects
      /\ t.size = s.size /\ t.ink = s.ink
  BY <1>5, Moved
<1>7. StreamTypes'
  <2>1. FbuTypes'
    BY <1>4 DEF FbuTypes, NoRect
  <2> QED
    BY <1>1, <1>2, <2>1 DEF StreamInv, StreamTypes, DecTypes, Moves, serverVars
<1>p. Orderly => Canvas' /\ Painted(t, e)'
  <2> SUFFICES ASSUME Orderly
               PROVE  Canvas' /\ Painted(t, e)'
    OBVIOUS
  <2>1. rect \in Undrawn
    BY DEF NewSize, Undrawn
  <2>2. UNCHANGED flushing /\ s.read + n <= LenOf(rect) /\ flushing = FALSE
    BY <1>5 DEF ResizeDone, StreamInv, Canvas
  <2>3. PICK flips \in {<<>>, ViewFlip} : Put(flips) \/ Put(flips \o Flip)
    BY DEF ResizeDone
  <2>4. PICK memory : memory = dec
    OBVIOUS
  <2>5. Brush(s, rect, n, flips, memory) /\ dec' = memory
    BY <2>1, <2>4, ViewsDraw, BrushUndrawn DEF SameTables
  <2> QED
    BY <2>2, <2>3, <2>5, Brushed
<1>8. Remaining(t, e)'
  BY <1>2, <1>6, <1>p DEF Remaining, Moves, serverVars
<1> HIDE DEF t
<1>9. t.size = NewSize[rect] /\ AtEndOfBlock(t)
  BY <1>6 DEF InRect, Resized, AtEndOfBlock, LenOf
<1>10. Between(t)'
  BY <1>1, <1>4, <1>6, <1>9 DEF Between
<1> QED
  BY <1>6, <1>7, <1>p, <1>8, <1>10 DEF StreamInv, OnTrack, Agrees, Remaining

LEMMA ResizesAre == DOMAIN NewSize = {"size1", "size2", "extendedSize2"}
                    /\ NewSize["size1"] = 1 /\ NewSize["size2"] = 2
                    /\ NewSize["extendedSize2"] = 2
BY DEF NewSize

LEMMA SizeKeepsStep ==
  ASSUME StreamInv, DesktopSize
  PROVE  StreamInv'
<1>1. At("size") /\ UNCHANGED streamVars /\ ResizeDone(fbu.size) /\ UNCHANGED dec
  BY DEF DesktopSize, ResizeDone
<1>2. PICK s, e \in Place : \E rect \in Readable :
         Remaining(s, e) /\ InRect(s, rect) /\ Of(rect) = "size"
  BY <1>1, Working
<1>3. PICK rect \in Readable : Remaining(s, e) /\ InRect(s, rect) /\ Of(rect) = "size"
  BY <1>2
<1>4. rect \in {"size1", "size2"}
  BY <1>3, Encodings
<1>5. LenOf(rect) = 1 /\ fbu.size = NewSize[rect]
  BY <1>3, <1>4, Heads, ResizesAre DEF Starts, InRect
<1>6. s.read = 1 /\ Idle(dec)
  <2>1. s.read = 1
    BY <1>3, <1>5 DEF InRect
  <2> QED
    BY <1>3, <1>4, <2>1 DEF InRect, Doing
<1>7. Moves(s, e, 0) /\ s.read + 0 = LenOf(rect) /\ running /\ 0 \in Nat
  BY <1>1, <1>3, <1>5, <1>6, Stays DEF At
<1> QED
  BY <1>1, <1>3, <1>4, <1>5, <1>6, <1>7, Resizing, ResizesAre
Handling(s, e, rect, enc) ==
  /\ s \in Place /\ e \in Place /\ rect \in Readable
  /\ Remaining(s, e) /\ InRect(s, rect) /\ Of(rect) = enc

LEMMA Handled ==
  ASSUME StreamInv, NEW enc, enc # "none", At(enc)
  PROVE  running /\ \E s, e, rect : Handling(s, e, rect, enc)
<1>1. running /\ \E s, e \in Place : \E rect \in Readable :
        Remaining(s, e) /\ InRect(s, rect) /\ Of(rect) = enc
  BY Working
<1> QED
  BY <1>1 DEF Handling

\* Rectangles of which nothing is remembered before they end.
Simple ==
  {"emptyRaw", "copyRect", "jpeg", "jpegQuant", "jpegBare", "lastRect", "cursor", "vmwareCursor",
   "qemuKey", "name", "size1", "size2", "extendedSize2", "resizeRefused", "other"}

LEMMA SimpleDoes ==
  ASSUME NEW rect \in Simple, NEW k, NEW d, Doing(rect, k, d)
  PROVE  k = 1 /\ Idle(d)
BY DEF Doing, Simple

LEMMA SimplePlace ==
  ASSUME NEW s, NEW e, NEW rect \in Simple, NEW enc, Handling(s, e, rect, enc)
  PROVE  /\ s.read = 1 /\ Idle(dec) /\ s.block = RectPieces(rect) /\ Len(s.block) = LenOf(rect)
         /\ fbu.size = SizeOf(rect)
BY SimpleDoes DEF Handling, InRect, LenOf

\* The rest of the rectangle is n pieces.
LEMMA WholeRead ==
  ASSUME StreamInv, running, NEW s, NEW e, NEW rect \in Simple, NEW enc,
         Handling(s, e, rect, enc), rect # "lastRect", rect \notin DOMAIN NewSize,
         NEW kinds, NEW n \in Nat, Len(kinds) = n, LenOf(rect) = n + 1, Reads(kinds),
         \A i \in 1 .. n : RectPieces(rect)[1 + i].kind = kinds[i],
         NEW items, RectDone(items), UNCHANGED dec,
         Orderly => Brush(s, rect, n, items, dec)
  PROVE  StreamInv'
<1>1. /\ s.read = 1 /\ Idle(dec) /\ s.block = RectPieces(rect) /\ Len(s.block) = n + 1
  BY SimplePlace
<1>2. s.read + n <= Len(s.block) /\ s.read + n = LenOf(rect)
      /\ \A i \in 1 .. n : s.block[s.read + i].kind = kinds[i]
  BY <1>1
<1>3. Remaining(s, e) /\ InRect(s, rect) /\ rect \in Readable
  BY DEF Handling
<1>4. Moves(s, e, n)
  BY <1>2, <1>3, Reading
<1>5. Idle(dec') /\ DOMAIN dec' = DecFields
  BY <1>1 DEF StreamInv, StreamTypes, DecTypes, Idle, Remembers
<1>6. Orderly => Brush(s, rect, n, items, dec')
  <2>1. dec' = dec
    OBVIOUS
  <2> QED
    BY <2>1
<1> QED
  BY <1>2, <1>3, <1>4, <1>5, <1>6, Finishes

LEMMA SimpleWaits ==
  ASSUME StreamInv, running, NEW s, NEW e, NEW rect \in Simple, NEW enc,
         Handling(s, e, rect, enc), LenOf(rect) > 1, Waits
  PROVE  StreamInv'
<1>1. Remaining(s, e) /\ InRect(s, rect) /\ rect \in Readable /\ s.read < LenOf(rect)
  BY SimplePlace DEF Handling
<1> QED
  BY <1>1, WaitsIs

\* It has no more pieces.
LEMMA BareDone ==
  ASSUME StreamInv, running, NEW s, NEW e, NEW rect \in Simple, NEW enc,
         Handling(s, e, rect, enc), rect # "lastRect", rect \notin DOMAIN NewSize,
         LenOf(rect) = 1, UNCHANGED streamVars,
         NEW items, RectDone(items), UNCHANGED dec,
         Orderly => Brush(s, rect, 0, items, dec)
  PROVE  StreamInv'
<1>1. s.read = 1 /\ Idle(dec)
  BY SimplePlace
<1>2. Remaining(s, e) /\ InRect(s, rect) /\ rect \in Readable
  BY DEF Handling
<1>3. Moves(s, e, 0) /\ s.read + 0 = LenOf(rect) /\ 0 \in Nat
  BY <1>1, <1>2, Stays
<1>4. Idle(dec') /\ DOMAIN dec' = DecFields
  BY <1>1 DEF StreamInv, StreamTypes, DecTypes, Idle, Remembers
<1>5. Orderly => Brush(s, rect, 0, items, dec')
  <2>1. dec' = dec
    OBVIOUS
  <2> QED
    BY <2>1
<1> QED
  BY <1>2, <1>3, <1>4, <1>5, Finishes

LEMMA NothingDrawn ==
  ASSUME NEW s, NEW e, NEW rect \in Undrawn, NEW enc, Handling(s, e, rect, enc), NEW n
  PROVE  Orderly => Brush(s, rect, n, <<>>, dec)
<1>1. SameTables(dec)
  BY DEF SameTables
<1>2. Remaining(s, e) /\ InRect(s, rect)
  BY DEF Handling
<1> QED
  BY <1>1, <1>2, BrushNothing

LEMMA CursorKeepsStep ==
  ASSUME StreamInv, Cursor
  PROVE  StreamInv'
<1> DEFINE kinds == <<"pixels">>
<1>1. At("cursor") /\ WholeRect("cursor", kinds)
  BY DEF Cursor, WholeRect
<1>2. Len(kinds) = 1 /\ kinds[1] = "pixels"
  OBVIOUS
<1> HIDE DEF kinds
<1>3. PICK s, e, rect : running /\ Handling(s, e, rect, "cursor")
  BY <1>1, Handled
<1>4. rect = "cursor" /\ rect \in Simple /\ rect \notin DOMAIN NewSize
  BY <1>3, Encodings, ResizesAre DEF Handling, Simple
<1>5. LenOf(rect) = 1 + 1 /\ RectPieces(rect)[2].kind = "pixels"
  <2>1. LenOf(rect) = 1 + 1
    BY <1>4, Heads DEF Starts
  <2> QED
    BY <1>4, <2>1, CursorHas DEF Later
<1>6. CASE Waits
  BY <1>3, <1>4, <1>5, <1>6, SimpleWaits
<1>7. CASE Reads(kinds) /\ RectDone(<<>>) /\ UNCHANGED dec
  <2>1. \A i \in 1 .. 1 : RectPieces(rect)[1 + i].kind = kinds[i]
    BY <1>2, <1>5
  <2>2. Orderly => Brush(s, rect, 1, <<>>, dec)
    BY <1>3, <1>4, NothingDrawn DEF Undrawn
  <2> QED
    BY <1>2, <1>3, <1>4, <1>5, <1>7, <2>1, <2>2, WholeRead
<1> QED
  BY <1>1, <1>6, <1>7 DEF WholeRect

LEMMA NameKeepsStep ==
  ASSUME StreamInv, DesktopName
  PROVE  StreamInv'
<1> DEFINE kinds == <<"length", "text">>
<1>1. At("name") /\ WholeRect("name", kinds)
  BY DEF DesktopName, WholeRect
<1>2. Len(kinds) = 2 /\ kinds[1] = "length" /\ kinds[2] = "text"
  OBVIOUS
<1> HIDE DEF kinds
<1>3. PICK s, e, rect : running /\ Handling(s, e, rect, "name")
  BY <1>1, Handled
<1>4. rect = "name" /\ rect \in Simple /\ rect \notin DOMAIN NewSize
  BY <1>3, Encodings, ResizesAre DEF Handling, Simple
<1>5. /\ LenOf(rect) = 2 + 1 /\ RectPieces(rect)[2].kind = "length"
      /\ RectPieces(rect)[3].kind = "text"
  <2>1. LenOf(rect) = 2 + 1
    BY <1>4, Heads DEF Starts
  <2> QED
    BY <1>4, <2>1, NameHas DEF Later
<1>6. CASE Waits
  BY <1>3, <1>4, <1>5, <1>6, SimpleWaits
<1>7. CASE Reads(kinds) /\ RectDone(<<>>) /\ UNCHANGED dec
  <2>1. \A i \in 1 .. 2 : RectPieces(rect)[1 + i].kind = kinds[i]
    <3>1. \A i \in 1 .. 2 : i = 1 \/ i = 2
      OBVIOUS
    <3> QED
      BY <1>2, <1>5, <3>1
  <2>2. Orderly => Brush(s, rect, 2, <<>>, dec)
    BY <1>3, <1>4, NothingDrawn DEF Undrawn
  <2> QED
    BY <1>2, <1>3, <1>4, <1>5, <1>7, <2>1, <2>2, WholeRead
<1> QED
  BY <1>1, <1>6, <1>7 DEF WholeRect

LEMMA VMwareKeepsStep ==
  ASSUME StreamInv, VMwareCursor
  PROVE  StreamInv'
<1>1. At("vmwareCursor")
  BY DEF VMwareCursor
<1>3. PICK s, e, rect : running /\ Handling(s, e, rect, "vmwareCursor")
  BY <1>1, Handled
<1>4. rect = "vmwareCursor" /\ rect \in Simple /\ rect \notin DOMAIN NewSize
  BY <1>3, Encodings, ResizesAre DEF Handling, Simple
<1>5. /\ LenOf(rect) = 2 + 1 /\ RectPieces(rect)[2].kind = "cursorType"
      /\ RectPieces(rect)[2].of = "alpha" /\ RectPieces(rect)[3].kind = "pixels"
  <2>1. LenOf(rect) = 2 + 1
    BY <1>4, Heads DEF Starts
  <2> QED
    BY <1>4, <2>1, VmwareCursorHas DEF Later
<1>6. CASE Waits
  BY <1>3, <1>4, <1>5, <1>6, SimpleWaits
<1>7. CASE ~ Waits
  <2>1. avail >= 1
    BY <1>7 DEF VMwareCursor, Lacks, StreamInv, StreamTypes
  <2>2. wire[1].of = "alpha"
    <3>1. Remaining(s, e) /\ s.read = 1 /\ s.block = RectPieces(rect) /\ Len(s.block) = 3
      <4>1. Remaining(s, e)
        BY <1>3 DEF Handling
      <4>2. s.read = 1 /\ s.block = RectPieces(rect) /\ Len(s.block) = LenOf(rect)
        BY <1>3, <1>4, SimplePlace
      <4> QED
        BY <1>5, <4>1, <4>2
    <3>2. 1 \in Nat /\ 1 <= avail /\ s.read + 1 <= Len(s.block) /\ s.read + 1 = 2
      BY <2>1, <3>1 DEF StreamInv, StreamTypes
    <3>3. \A i \in 1 .. 1 : wire[i] = s.block[s.read + i]
      BY <3>1, <3>2, Ahead
    <3> QED
      BY <1>5, <3>1, <3>2, <3>3
  <2> DEFINE kinds == <<"cursorType", "pixels">>
  <2>3. Reads(kinds) /\ RectDone(<<>>) /\ UNCHANGED dec
    BY <1>7, <2>2 DEF VMwareCursor
  <2>4. Len(kinds) = 2 /\ kinds[1] = "cursorType" /\ kinds[2] = "pixels"
    OBVIOUS
  <2> HIDE DEF kinds
  <2>5. \A i \in 1 .. 2 : RectPieces(rect)[1 + i].kind = kinds[i]
    <3>1. \A i \in 1 .. 2 : i = 1 \/ i = 2
      OBVIOUS
    <3> QED
      BY <1>5, <2>4, <3>1
  <2>6. Orderly => Brush(s, rect, 2, <<>>, dec)
    BY <1>3, <1>4, NothingDrawn DEF Undrawn
  <2> QED
    BY <1>3, <1>4, <1>5, <2>3, <2>4, <2>5, <2>6, WholeRead
<1> QED
  BY <1>6, <1>7

LEMMA ExtendedKeepsStep ==
  ASSUME StreamInv, ExtendedDesktopSize
  PROVE  StreamInv'
<1>1. At("extendedSize")
  BY DEF ExtendedDesktopSize
<1>3. PICK s, e, rect : running /\ Handling(s, e, rect, "extendedSize")
  BY <1>1, Handled
<1>4. rect \in {"extendedSize2", "resizeRefused"} /\ rect \in Simple
  BY <1>3, Encodings DEF Handling, Simple
<1>5. /\ LenOf(rect) = 2 + 1 /\ RectPieces(rect)[2].kind = "screens"
      /\ RectPieces(rect)[3].kind = "screen"
  <2>1. LenOf(rect) = 2 + 1
    BY <1>4, Heads DEF Starts
  <2> QED
    BY <1>4, <2>1, ExtendedSize2Has, ResizeRefusedHas DEF Later
<1>6. CASE Waits
  BY <1>3, <1>4, <1>5, <1>6, SimpleWaits
<1>7. CASE ~ Waits
  <2> DEFINE kinds == <<"screens", "screen">>
  <2>1. Reads(kinds) /\ IF fbu.size = 0 THEN RectDone(<<>>) /\ UNCHANGED dec
                        ELSE ResizeDone(fbu.size)
    BY <1>7 DEF ExtendedDesktopSize
  <2>2. Len(kinds) = 2 /\ kinds[1] = "screens" /\ kinds[2] = "screen"
    OBVIOUS
  <2> HIDE DEF kinds
  <2>3. \A i \in 1 .. 2 : RectPieces(rect)[1 + i].kind = kinds[i]
    <3>1. \A i \in 1 .. 2 : i = 1 \/ i = 2
      OBVIOUS
    <3> QED
      BY <1>5, <2>2, <3>1
  <2>4. s.read = 1 /\ Idle(dec) /\ s.block = RectPieces(rect) /\ Len(s.block) = 3
        /\ fbu.size = SizeOf(rect)
    BY <1>3, <1>4, <1>5, SimplePlace
  <2>5. CASE rect = "resizeRefused"
    <3>1. fbu.size = 0 /\ rect \notin DOMAIN NewSize /\ rect # "lastRect"
      BY <2>4, <2>5, Heads, ResizesAre DEF Starts
    <3>2. RectDone(<<>>) /\ UNCHANGED dec
      BY <2>1, <3>1
    <3>3. Orderly => Brush(s, rect, 2, <<>>, dec)
      BY <1>3, <2>5, NothingDrawn DEF Undrawn
    <3> QED
      BY <1>3, <1>4, <1>5, <2>1, <2>2, <2>3, <3>1, <3>2, <3>3, WholeRead
  <2>6. CASE rect = "extendedSize2"
    <3>1. fbu.size = 2 /\ rect \in DOMAIN NewSize /\ NewSize[rect] = 2
      BY <2>4, <2>6, Heads, ResizesAre DEF Starts
    <3>2. ResizeDone(NewSize[rect]) /\ UNCHANGED dec
      BY <2>1, <3>1 DEF ResizeDone
    <3>3. Moves(s, e, 2)
      <4>1. s.read + 2 <= Len(s.block) /\ \A i \in 1 .. 2 : s.block[s.read + i].kind = kinds[i]
        BY <2>3, <2>4
      <4>2. Remaining(s, e)
        BY <1>3 DEF Handling
      <4> QED
        BY <2>1, <2>2, <4>1, <4>2, Reading
    <3>4. Remaining(s, e) /\ InRect(s, rect) /\ rect \in Readable /\ s.read + 2 = LenOf(rect)
      BY <1>3, <1>5, <2>4 DEF Handling
    <3> QED
      BY <1>3, <2>4, <3>1, <3>2, <3>3, <3>4, Resizing
  <2> QED
    BY <1>4, <2>5, <2>6
<1> QED
  BY <1>6, <1>7

LEMMA QemuKeyKeepsStep ==
  ASSUME StreamInv, QemuExtendedKeyEvent
  PROVE  StreamInv'
<1>1. At("qemuKey") /\ UNCHANGED streamVars /\ UNCHANGED dec /\ RectDone(<<>>)
  BY DEF QemuExtendedKeyEvent
<1>2. PICK s, e, rect : running /\ Handling(s, e, rect, "qemuKey")
  BY <1>1, Handled
<1>3. rect = "qemuKey" /\ rect \in Simple /\ rect \notin DOMAIN NewSize
  BY <1>2, Encodings, ResizesAre DEF Handling, Simple
<1>4. LenOf(rect) = 1
  BY <1>3, Heads DEF Starts
<1>5. Orderly => Brush(s, rect, 0, <<>>, dec)
  BY <1>2, <1>3, NothingDrawn DEF Undrawn
<1> QED
  BY <1>1, <1>2, <1>3, <1>4, <1>5, BareDone

LEMMA LastRectKeepsStep ==
  ASSUME StreamInv, LastRect
  PROVE  StreamInv'
<1>1. At("lastRect") /\ UNCHANGED streamVars /\ UNCHANGED <<dec, fbSize, serverVars>>
      /\ failed' = failed /\ fbu' = NoRect /\ running' = (avail' > 0)
  BY DEF LastRect, EndUpdate, Returns
<1>2. PICK s, e, rect : running /\ Handling(s, e, rect, "lastRect")
  BY <1>1, Handled
<1>3. rect = "lastRect" /\ rect \in Simple /\ rect \notin DOMAIN NewSize
  BY <1>2, Encodings, ResizesAre DEF Handling, Simple
<1>4. LenOf(rect) = 1
  BY <1>3, Heads DEF Starts
<1>5. s.read = 1 /\ Idle(dec) /\ Len(s.block) = 1
  BY <1>2, <1>3, <1>4, SimplePlace
<1>p. Orderly => Canvas' /\ Painted(s, e)'
  <2>1. Put(<<>> \o Flip) /\ UNCHANGED flushing
    BY DEF LastRect, EndUpdate
  <2>2. Orderly => Brush(s, rect, 0, <<>>, dec)
    BY <1>2, <1>3, NothingDrawn DEF Undrawn
  <2>3. PICK memory : memory = dec
    OBVIOUS
  <2>4. Orderly => Brush(s, rect, 0, <<>>, memory)
    BY <2>2, <2>3
  <2>5. dec' = memory
    BY <1>1, <2>3
  <2>6. s.read + 0 <= LenOf(rect) /\ 0 \in Nat /\ [s EXCEPT !.read = s.read + 0] = s
    BY <1>2, <1>4, <1>5 DEF Handling, Place
  <2>7. s \in Place /\ e \in Place /\ rect \in Readable /\ Remaining(s, e) /\ InRect(s, rect)
    BY <1>2 DEF Handling
  <2> QED
    <3> SUFFICES ASSUME Orderly
                 PROVE  Canvas' /\ Painted(s, e)'
      OBVIOUS
    <3>1. Brush(s, rect, 0, <<>>, memory) /\ (Put(<<>>) \/ Put(<<>> \o Flip))
      BY <2>1, <2>4
    <3>2. Canvas' /\ Painted([s EXCEPT !.read = s.read + 0], e)'
      BY <1>2, <2>1, <2>5, <2>6, <2>7, <3>1, Brushed, Zenon
    <3> QED
      BY <2>6, <3>2, Zenon
<1>6. Remaining(s, e)' /\ wire' = wire /\ avail' = avail /\ confused' = FALSE
  BY <1>1, <1>2, <1>p DEF Remaining, Handling, streamVars, serverVars, StreamInv, StreamTypes
<1>7. Between(s)'
  <2>1. s.rects = 0 /\ s.size = fbSize
    BY <1>2, <1>3 DEF Handling, InRect, Resized
  <2> QED
    BY <1>1, <1>5, <2>1 DEF Between, AtEndOfBlock, NoRect, Idle, Remembers
<1>8. StreamTypes'
  <2>1. FbuTypes'
    BY <1>1 DEF FbuTypes, NoRect
  <2>2. running' \in BOOLEAN
    BY <1>1
  <2> QED
    BY <1>1, <1>6, <2>1, <2>2 DEF StreamInv, StreamTypes, DecTypes, serverVars
<1> QED
  BY <1>2, <1>p, <1>6, <1>7, <1>8 DEF StreamInv, OnTrack, Agrees, Handling

-----------------------------------------------------------------------------
(* The decoders, one piece at a time *)

LEMMA DoingNumbers ==
  ASSUME NEW rect, NEW k, NEW d, Doing(rect, k, d)
  PROVE  d.lines \in Nat /\ d.subrects \in Nat /\ d.tiles \in Nat
BY DEF Doing, Idle, Remembers, AtTiles, InTight

LEMMA InPlace ==
  ASSUME NEW s, NEW e, NEW rect, NEW enc, Handling(s, e, rect, enc)
  PROVE  /\ s \in Place /\ e \in Place /\ rect \in Readable /\ Remaining(s, e) /\ InRect(s, rect)
         /\ s.block = RectPieces(rect) /\ Len(s.block) = LenOf(rect) /\ LenOf(rect) \in Nat
         /\ s.read \in 1 .. LenOf(rect) /\ fbu.size = SizeOf(rect) /\ fbu.enc = Of(rect)
         /\ Of(rect) = enc /\ Doing(rect, s.read, dec)
BY Encodings DEF Handling, InRect, LenOf

\* The next piece of the rectangle.
LEMMA Peek ==
  ASSUME StreamInv, NEW s, NEW e, NEW rect, NEW enc, Handling(s, e, rect, enc),
         ~ Lacks(1), s.read < LenOf(rect)
  PROVE  wire[1] = RectPieces(rect)[s.read + 1]
<1>1. /\ Remaining(s, e) /\ s.block = RectPieces(rect) /\ Len(s.block) = LenOf(rect)
      /\ LenOf(rect) \in Nat /\ s.read \in 1 .. LenOf(rect)
  BY InPlace
<1>2. 1 \in Nat /\ 1 <= avail /\ s.read + 1 <= Len(s.block)
  BY <1>1 DEF Lacks, StreamInv, StreamTypes
<1>3. \A i \in 1 .. 1 : wire[i] = s.block[s.read + i]
  BY <1>1, <1>2, Ahead
<1> QED
  BY <1>1, <1>3

LEMMA ReadsOne ==
  ASSUME StreamInv, NEW s, NEW e, NEW rect, NEW enc, Handling(s, e, rect, enc),
         NEW kind, Reads(<<kind>>), s.read < LenOf(rect),
         RectPieces(rect)[s.read + 1].kind = kind
  PROVE  Moves(s, e, 1)
<1> DEFINE kinds == <<kind>>
<1>1. Len(kinds) = 1 /\ kinds[1] = kind
  OBVIOUS
<1>2. Reads(kinds)
  OBVIOUS
<1> HIDE DEF kinds
<1>3. /\ Remaining(s, e) /\ s.block = RectPieces(rect) /\ Len(s.block) = LenOf(rect)
      /\ LenOf(rect) \in Nat /\ s.read \in 1 .. LenOf(rect)
  BY InPlace
<1>4. s.read + 1 <= Len(s.block) /\ \A i \in 1 .. 1 : s.block[s.read + i].kind = kinds[i]
  BY <1>1, <1>3
<1> QED
  BY <1>1, <1>2, <1>3, <1>4, Reading

LEMMA ReadsTwo ==
  ASSUME StreamInv, NEW s, NEW e, NEW rect, NEW enc, Handling(s, e, rect, enc),
         NEW kind, NEW then, Reads(<<kind, then>>), s.read + 2 <= LenOf(rect),
         RectPieces(rect)[s.read + 1].kind = kind, RectPieces(rect)[s.read + 2].kind = then
  PROVE  Moves(s, e, 2)
<1> DEFINE kinds == <<kind, then>>
<1>1. Len(kinds) = 2 /\ kinds[1] = kind /\ kinds[2] = then
  OBVIOUS
<1>2. Reads(kinds)
  OBVIOUS
<1> HIDE DEF kinds
<1>3. /\ Remaining(s, e) /\ s.block = RectPieces(rect) /\ Len(s.block) = LenOf(rect)
      /\ LenOf(rect) \in Nat /\ s.read \in 1 .. LenOf(rect)
  BY InPlace
<1>4. \A i \in 1 .. 2 : s.block[s.read + i].kind = kinds[i]
  <2>1. \A i \in 1 .. 2 : i = 1 \/ i = 2
    OBVIOUS
  <2> QED
    BY <1>1, <1>3, <2>1
<1>5. s.read + 2 <= Len(s.block)
  BY <1>3
<1> QED
  BY <1>1, <1>2, <1>3, <1>4, <1>5, Reading

LEMMA RectWaits ==
  ASSUME StreamInv, running, NEW s, NEW e, NEW rect, NEW enc, Handling(s, e, rect, enc),
         s.read < LenOf(rect), Waits
  PROVE  StreamInv'
<1>1. Remaining(s, e) /\ InRect(s, rect) /\ rect \in Readable
  BY InPlace
<1> QED
  BY <1>1, WaitsIs

\* So many pieces further the rectangle goes on.
LEMMA Continues ==
  ASSUME StreamInv, running, NEW s, NEW e, NEW rect, NEW enc, Handling(s, e, rect, enc),
         NEW n \in Nat, Moves(s, e, n), s.read + n <= LenOf(rect),
         NEW items, NEW memory, NEW stays \in BOOLEAN, RectGoesOn(items, memory, stays),
         s.read + n = LenOf(rect) => stays, Doing(rect, s.read + n, memory),
         DOMAIN memory = DecFields, Orderly => Brush(s, rect, n, items, memory)
  PROVE  StreamInv'
<1>1. Remaining(s, e) /\ InRect(s, rect) /\ rect \in Readable
  BY InPlace
<1>2. memory.lines \in Nat /\ memory.subrects \in Nat /\ memory.tiles \in Nat
  BY DoingNumbers
<1> QED
  BY <1>1, <1>2, GoesOn

LEMMA Remembering ==
  ASSUME StreamInv, running, NEW s, NEW e, NEW rect, NEW enc, Handling(s, e, rect, enc),
         NEW kind, NEW memory, Remember(<<kind>>, memory), s.read < LenOf(rect),
         RectPieces(rect)[s.read + 1].kind = kind,
         ~ Lacks(1) => Doing(rect, s.read + 1, memory), DOMAIN memory = DecFields,
         ~ Lacks(1) => (Orderly => Brush(s, rect, 1, <<>>, memory))
  PROVE  StreamInv'
<1>1. Len(<<kind>>) = 1
  OBVIOUS
<1>2. CASE Waits
  BY <1>2, RectWaits
<1>3. CASE ~ Lacks(1) /\ Reads(<<kind>>) /\ RectGoesOn(<<>>, memory, TRUE)
  <2>1. Moves(s, e, 1)
    BY <1>3, ReadsOne
  <2>2. s.read + 1 <= LenOf(rect) /\ 1 \in Nat /\ TRUE \in BOOLEAN
    BY InPlace
  <2> QED
    BY <1>3, <2>1, <2>2, Continues
<1> QED
  BY <1>1, <1>2, <1>3 DEF Remember

LEMMA Ends ==
  ASSUME StreamInv, running, NEW s, NEW e, NEW rect, NEW enc, Handling(s, e, rect, enc),
         NEW n \in Nat, Moves(s, e, n), s.read + n = LenOf(rect), rect # "lastRect",
         rect \notin DOMAIN NewSize, NEW items, RectDone(items), Idle(dec'),
         DOMAIN dec' = DecFields, Orderly => Brush(s, rect, n, items, dec')
  PROVE  StreamInv'
<1>1. Remaining(s, e) /\ InRect(s, rect) /\ rect \in Readable
  BY InPlace
<1> QED
  BY <1>1, Finishes

\* The items draw the whole rectangle.
DrawsAll(rect, items, tb) ==
  /\ items \in Seq(Items) /\ Draws(items) = RectDraws(rect, tb)
  /\ (\A i \in 1 .. Len(items) : Ready(items[i])) \/ rect \in Images

LEMMA OneItem ==
  ASSUME NEW x \in Items
  PROVE  /\ <<x>> \in Seq(Items) /\ Draws(<<x>>) = x.draws
         /\ Ready(x) => \A i \in 1 .. Len(<<x>>) : Ready(<<x>>[i])
<1>1. Draws(<<x>>) = x.draws
  BY DrawsOne
<1> QED
  BY <1>1

\* Short sequences from their first element on.
LEMMA Prepended ==
  ASSUME NEW a \in AllDraws, NEW t \in Seq(AllDraws), NEW u \in Seq(AllDraws),
         Len(u) = Len(t) + 1, u[1] = a, \A i \in 1 .. Len(t) : u[i + 1] = t[i]
  PROVE  <<a>> \o t = u
<1> DEFINE v == <<a>> \o t
<1>1. <<a>> \in Seq(AllDraws) /\ Len(<<a>>) = 1 /\ <<a>>[1] = a /\ Len(t) \in Nat
  BY LenProperties
<1>2. v \in Seq(AllDraws) /\ Len(v) = Len(t) + 1 /\ v[1] = a
  BY <1>1, ConcatProperties
<1>3. \A j \in 1 .. Len(t) : v[j + 1] = t[j]
  BY <1>1, ConcatProperties
<1> HIDE DEF v
<1>4. \A i \in 1 .. Len(v) : v[i] = u[i]
  <2> SUFFICES ASSUME NEW i \in 1 .. Len(v), i # 1
               PROVE  v[i] = u[i]
    BY <1>2
  <2>1. i - 1 \in 1 .. Len(t) /\ (i - 1) + 1 = i
    BY <1>1, <1>2
  <2> QED
    BY <1>3, <2>1
<1>5. v = u
  BY <1>2, <1>4, SeqEqual
<1> QED
  BY <1>5 DEF v

LEMMA PrependedOne == \A a, b \in AllDraws : <<a>> \o <<b>> = <<a, b>>
<1> SUFFICES ASSUME NEW a \in AllDraws, NEW b \in AllDraws
             PROVE  <<a>> \o <<b>> = <<a, b>>
  OBVIOUS
<1> DEFINE t == <<b>>
           u == <<a, b>>
<1>1. t \in Seq(AllDraws) /\ u \in Seq(AllDraws) /\ Len(u) = Len(t) + 1 /\ u[1] = a
      /\ \A i \in 1 .. Len(t) : u[i + 1] = t[i]
  OBVIOUS
<1> HIDE DEF t, u
<1>2. <<a>> \o t = u
  BY <1>1, Prepended
<1> QED
  BY <1>2 DEF t, u

LEMMA PrependedTwo == \A a, b, c \in AllDraws : <<a>> \o <<b, c>> = <<a, b, c>>
<1> SUFFICES ASSUME NEW a \in AllDraws, NEW b \in AllDraws, NEW c \in AllDraws
             PROVE  <<a>> \o <<b, c>> = <<a, b, c>>
  OBVIOUS
<1> DEFINE t == <<b, c>>
           u == <<a, b, c>>
<1>1. t \in Seq(AllDraws) /\ u \in Seq(AllDraws) /\ Len(u) = Len(t) + 1 /\ u[1] = a
      /\ \A i \in 1 .. Len(t) : u[i + 1] = t[i]
  OBVIOUS
<1> HIDE DEF t, u
<1>2. <<a>> \o t = u
  BY <1>1, Prepended
<1> QED
  BY <1>2 DEF t, u

LEMMA PrependedThree == \A a, b, c, d \in AllDraws : <<a>> \o <<b, c, d>> = <<a, b, c, d>>
<1> SUFFICES ASSUME NEW a \in AllDraws, NEW b \in AllDraws, NEW c \in AllDraws, NEW d \in AllDraws
             PROVE  <<a>> \o <<b, c, d>> = <<a, b, c, d>>
  OBVIOUS
<1> DEFINE t == <<b, c, d>>
           u == <<a, b, c, d>>
<1>1. t \in Seq(AllDraws) /\ u \in Seq(AllDraws) /\ Len(u) = Len(t) + 1 /\ u[1] = a
      /\ \A i \in 1 .. Len(t) : u[i + 1] = t[i]
  OBVIOUS
<1> HIDE DEF t, u
<1>2. <<a>> \o t = u
  BY <1>1, Prepended
<1> QED
  BY <1>2 DEF t, u

LEMMA DrawIs ==
  ASSUME NEW what \in Whats, NEW parts \in Seq(Nat)
  PROVE  Draw(what, parts) \in AllDraws /\ <<Draw(what, parts)>> \in Seq(AllDraws)
BY DEF Draw, AllDraws

LEMMA OnePut ==
  ASSUME NEW kind \in {"fill", "copy", "blit", "img"}, NEW what \in Whats,
         NEW parts \in Seq(Nat), NEW state \in {"loading", "loaded"}, NEW rect, NEW tb,
         RectDraws(rect, tb) = <<Draw(what, parts)>>, state = "loaded" \/ rect \in Images,
         NEW items, items = <<[type |-> kind, draws |-> <<Draw(what, parts)>>, img |-> state]>>
  PROVE  DrawsAll(rect, items, tb)
<1> DEFINE x == [type |-> kind, draws |-> <<Draw(what, parts)>>, img |-> state]
<1>1. <<Draw(what, parts)>> \in Seq(AllDraws)
  BY DrawIs
<1>2. x \in Items /\ x.draws = RectDraws(rect, tb) /\ (Ready(x) <=> state = "loaded")
  BY <1>1 DEF Items, Ready
<1>3. items = <<x>>
  OBVIOUS
<1> HIDE DEF x
<1>4. /\ <<x>> \in Seq(Items) /\ Draws(<<x>>) = x.draws
      /\ Ready(x) => \A i \in 1 .. Len(<<x>>) : Ready(<<x>>[i])
  BY <1>2, OneItem
<1> QED
  BY <1>2, <1>3, <1>4 DEF DrawsAll

\* Before the end of a rectangle that is drawn there, and at its end.
LEMMA NotYet ==
  ASSUME NEW s, NEW e, NEW rect, NEW enc, Handling(s, e, rect, enc), rect \notin Direct,
         rect \notin HaveTables, NEW n \in Nat, s.read + n < LenOf(rect), NEW memory,
         SameTables(memory)
  PROVE  Orderly => Brush(s, rect, n, <<>>, memory)
<1>1. /\ Remaining(s, e) /\ InRect(s, rect) /\ rect \in Readable /\ s.read \in Nat
      /\ LenOf(rect) \in Nat
  BY InPlace
<1>2. s.read # LenOf(rect) /\ s.read + n # LenOf(rect)
  BY <1>1
<1> QED
  BY <1>1, <1>2, BrushGoesOn

LEMMA EndsDrawn ==
  ASSUME StreamInv, running, NEW s, NEW e, NEW rect, NEW enc, Handling(s, e, rect, enc),
         NEW n \in Nat \ {0}, Moves(s, e, n), s.read + n = LenOf(rect), rect # "lastRect",
         rect \notin DOMAIN NewSize, rect \notin Direct, rect \notin HaveTables,
         NEW items, RectDone(items), Idle(dec'), DOMAIN dec' = DecFields, SameTables(dec'),
         DrawsAll(rect, items, s.ink.tables)
  PROVE  StreamInv'
<1>1. Remaining(s, e) /\ InRect(s, rect) /\ rect \in Readable /\ s.read \in Nat
  BY InPlace
<1>2. s.read # LenOf(rect) /\ n \in Nat
  BY <1>1
<1>3. PICK memory : memory = dec'
  OBVIOUS
<1>4. SameTables(memory)
  BY <1>3
<1>5. /\ items \in Seq(Items) /\ Draws(items) = RectDraws(rect, s.ink.tables)
      /\ (\A i \in 1 .. Len(items) : Ready(items[i])) \/ rect \in Images
  BY DEF DrawsAll
<1>6. Orderly => Brush(s, rect, n, items, memory)
  BY <1>1, <1>2, <1>4, <1>5, BrushEnds
<1>7. Orderly => Brush(s, rect, n, items, dec')
  BY <1>3, <1>6
<1> QED
  BY <1>2, <1>7, Ends

LEMMA CopyKeepsStep ==
  ASSUME StreamInv, CopyRect
  PROVE  StreamInv'
<1>1. At("copyRect")
  BY DEF CopyRect
<1>2. PICK s, e, rect : running /\ Handling(s, e, rect, "copyRect")
  BY <1>1, Handled
<1>3. rect = "copyRect" /\ rect \in Simple /\ rect \notin DOMAIN NewSize /\ rect # "lastRect"
  BY <1>2, Encodings, ResizesAre DEF Handling, Simple
<1>4. LenOf(rect) = 2
  BY <1>3, Heads DEF Starts
<1>5. s.read = 1 /\ Idle(dec) /\ s.read < LenOf(rect)
      /\ RectPieces(rect)[s.read + 1].kind = "from"
  <2>1. s.read = 1 /\ Idle(dec)
    BY <1>2, <1>3, SimplePlace
  <2>2. RectPieces(rect)[2].kind = "from"
    BY <1>3, CopyRectHas DEF Later
  <2> QED
    BY <1>4, <2>1, <2>2
<1>6. CASE Waits
  BY <1>2, <1>5, <1>6, RectWaits
<1>7. CASE ~ Waits
  <2>1. Reads(<<"from">>) /\ RectDone(IF Empty THEN <<>> ELSE CopyImage(Draw("copy", <<>>)))
        /\ UNCHANGED dec
    BY <1>7 DEF CopyRect
  <2>2. Moves(s, e, 1) /\ s.read + 1 = LenOf(rect) /\ 1 \in Nat \ {0}
    BY <1>2, <1>4, <1>5, <2>1, ReadsOne
  <2>3. Idle(dec') /\ DOMAIN dec' = DecFields /\ SameTables(dec')
    BY <1>5, <2>1 DEF StreamInv, StreamTypes, DecTypes, Idle, Remembers, SameTables
  <2> DEFINE items == CopyImage(Draw("copy", <<>>))
  <2>4. RectDone(items)
    <3>1. ~ Empty
      BY <1>2, <1>3, InPlace, Heads DEF Starts, Empty
    <3> QED
      BY <2>1, <3>1
  <2>5. DrawsAll(rect, items, s.ink.tables)
    <3>1. items = <<[type |-> "copy", draws |-> <<Draw("copy", <<>>)>>, img |-> "loaded"]>>
      BY DEF CopyImage
    <3>2. RectDraws(rect, s.ink.tables) = <<Draw("copy", <<>>)>>
      BY <1>3 DEF RectDraws
    <3>3. "copy" \in Whats /\ <<>> \in Seq(Nat)
      BY DEF Whats
    <3> HIDE DEF items
    <3> QED
      BY <3>1, <3>2, <3>3, OnePut
  <2> HIDE DEF items
  <2>6. rect \notin Direct /\ rect \notin HaveTables
    BY <1>3 DEF Direct, HaveTables
  <2> QED
    BY <1>2, <1>3, <2>2, <2>3, <2>4, <2>5, <2>6, EndsDrawn
<1> QED
  BY <1>6, <1>7

\* What is remembered in a rectangle of each kind.
LEMMA ZrleDoing ==
  ASSUME NEW k, NEW d
  PROVE  Doing("zrle", k, d) <=>
           \/ k = 1 /\ Idle(d)
           \/ k = 2 /\ Remembers(d, 0, 0, 0, "none", "none", 0, FALSE, TRUE)
BY DEF Doing

LEMMA ZrleDraws == ASSUME NEW tb PROVE DrawsAll("zrle", ZrleItems, tb)
<1> DEFINE d1 == Draw("tile", <<1>>)
           d2 == Draw("tile", <<2>>)
           x == [type |-> "blit", draws |-> <<d1>>, img |-> "loaded"]
           y == [type |-> "fill", draws |-> <<d2>>, img |-> "loaded"]
<1>1. ZrleItems = <<x>> \o <<y>>
  BY DEF ZrleItems, Blit, Fill
<1>2. RectDraws("zrle", tb) = <<d1>> \o <<d2>>
  <2>1. RectDraws("zrle", tb) = <<d1, d2>>
    BY DEF RectDraws
  <2> QED
    BY <2>1
<1>3. <<d1>> \in Seq(AllDraws) /\ <<d2>> \in Seq(AllDraws)
  <2>1. "tile" \in Whats /\ <<1>> \in Seq(Nat) /\ <<2>> \in Seq(Nat)
    BY DEF Whats
  <2> QED
    BY <2>1, DrawIs
<1> HIDE DEF d1, d2
<1>4. x \in Items /\ x.draws = <<d1>> /\ Ready(x)
      /\ y \in Items /\ y.draws = <<d2>> /\ Ready(y)
  BY <1>3 DEF Items, Ready
<1> HIDE DEF x, y
<1>5. /\ <<x>> \in Seq(Items) /\ Draws(<<x>>) = <<d1>>
      /\ <<y>> \in Seq(Items) /\ Draws(<<y>>) = <<d2>>
  <2>1. <<x>> \in Seq(Items) /\ Draws(<<x>>) = x.draws
    BY <1>4, OneItem
  <2>2. <<y>> \in Seq(Items) /\ Draws(<<y>>) = y.draws
    BY <1>4, OneItem
  <2> QED
    BY <1>4, <2>1, <2>2
<1>6. Draws(<<x>> \o <<y>>) = <<d1>> \o <<d2>> /\ <<x>> \o <<y>> \in Seq(Items)
  BY <1>5, DrawsJoin, ConcatProperties
<1>7. \A i \in 1 .. Len(<<x>> \o <<y>>) : Ready((<<x>> \o <<y>>)[i])
  <2> DEFINE a == <<x>>
             b == <<y>>
  <2>1. /\ a \in Seq(Items) /\ Len(a) = 1 /\ a[1] = x
        /\ b \in Seq(Items) /\ Len(b) = 1 /\ b[1] = y
    BY <1>4
  <2> HIDE DEF a, b
  <2>2. Len(a \o b) = 2 /\ (a \o b)[1] = x /\ (a \o b)[2] = y
    <3>1. 1 \in 1 .. Len(a) /\ 1 \in 1 .. Len(b) /\ Len(a) + 1 = 2 /\ Len(a) + Len(b) = 2
      BY <2>1
    <3>2. /\ Len(a \o b) = Len(a) + Len(b)
          /\ (a \o b)[1] = a[1]
          /\ (a \o b)[Len(a) + 1] = b[1]
      BY <2>1, <3>1, ItemsJoined, Zenon
    <3> QED
      BY <2>1, <3>1, <3>2
  <2>3. \A i \in 1 .. Len(a \o b) : (a \o b)[i] = x \/ (a \o b)[i] = y
    BY <2>2
  <2>4. \A i \in 1 .. Len(a \o b) : Ready((a \o b)[i])
    BY <1>4, <2>3
  <2> QED
    BY <2>4 DEF a, b
<1> QED
  BY <1>1, <1>2, <1>6, <1>7 DEF DrawsAll

LEMMA ZrleKeepsStep ==
  ASSUME StreamInv, Zrle
  PROVE  StreamInv'
<1>1. At("zrle")
  BY DEF Zrle
<1>2. PICK s, e, rect : running /\ Handling(s, e, rect, "zrle")
  BY <1>1, Handled
<1>3. rect = "zrle" /\ rect \notin DOMAIN NewSize /\ rect # "lastRect"
  BY <1>2, Encodings, ResizesAre DEF Handling
<1>4. LenOf(rect) = 3
  BY <1>3, Heads DEF Starts
<1>5. RectPieces(rect)[2].kind = "length" /\ RectPieces(rect)[3].kind = "data"
  BY <1>3, ZrleHas DEF Later
<1>6. DOMAIN dec = DecFields
  BY DEF StreamInv, StreamTypes, DecTypes
<1>7. \/ s.read = 1 /\ Idle(dec)
      \/ s.read = 2 /\ Remembers(dec, 0, 0, 0, "none", "none", 0, FALSE, TRUE)
  BY <1>2, <1>3, InPlace, ZrleDoing
<1>8. CASE ~ dec.zLength
  <2> DEFINE memory == [dec EXCEPT !.zLength = TRUE]
  <2>1. Remember(<<"length">>, memory)
    BY <1>8 DEF Zrle
  <2>2. s.read = 1 /\ Idle(dec)
    BY <1>7, <1>8 DEF Remembers
  <2>3. DOMAIN memory = DecFields /\ Remembers(memory, 0, 0, 0, "none", "none", 0, FALSE, TRUE)
    BY <1>6, <2>2 DEF Idle, Remembers, DecFields
  <2>5. SameTables(memory)
    BY <1>6 DEF SameTables, DecFields
  <2> HIDE DEF memory
  <2>6. Orderly => Brush(s, rect, 1, <<>>, memory)
    <3>1. s.read + 1 < LenOf(rect) /\ 1 \in Nat
      BY <1>4, <2>2
    <3>2. rect \notin Direct /\ rect \notin HaveTables
      BY <1>3 DEF Direct, HaveTables
    <3> QED
      BY <1>2, <2>5, <3>1, <3>2, NotYet
  <2>4. Doing(rect, s.read + 1, memory) /\ s.read < LenOf(rect)
        /\ RectPieces(rect)[s.read + 1].kind = "length"
    <3>1. s.read + 1 = 2 /\ s.read < LenOf(rect)
      BY <1>4, <2>2
    <3>2. Doing("zrle", 2, memory)
      BY <2>3, ZrleDoing
    <3> QED
      BY <1>3, <1>5, <3>1, <3>2
  <2> QED
    BY <1>2, <2>1, <2>3, <2>4, <2>6, Remembering
<1>9. CASE dec.zLength
  <2>1. s.read = 2 /\ Remembers(dec, 0, 0, 0, "none", "none", 0, FALSE, TRUE)
    BY <1>7, <1>9 DEF Idle, Remembers
  <2>2. s.read < LenOf(rect) /\ RectPieces(rect)[s.read + 1].kind = "data"
    BY <1>4, <1>5, <2>1
  <2>3. CASE Waits
    BY <1>2, <2>2, <2>3, RectWaits
  <2>4. CASE ~ Waits
    <3>1. Reads(<<"data">>) /\ RectDone(ZrleItems) /\ dec' = [dec EXCEPT !.zLength = FALSE]
      BY <1>9, <2>4 DEF Zrle
    <3>2. Moves(s, e, 1) /\ s.read + 1 = LenOf(rect) /\ 1 \in Nat \ {0}
      BY <1>2, <1>4, <2>1, <2>2, <3>1, ReadsOne
    <3>3. Idle(dec') /\ DOMAIN dec' = DecFields /\ SameTables(dec')
      BY <1>6, <2>1, <3>1 DEF Idle, Remembers, DecFields, SameTables
    <3>4. rect \notin Direct /\ rect \notin HaveTables
      BY <1>3 DEF Direct, HaveTables
    <3>5. DrawsAll(rect, ZrleItems, s.ink.tables)
      BY <1>3, ZrleDraws
    <3> QED
      BY <1>2, <1>3, <3>1, <3>2, <3>3, <3>4, <3>5, EndsDrawn
  <2> QED
    BY <2>3, <2>4
<1> QED
  BY <1>8, <1>9

-----------------------------------------------------------------------------
(* The decoders that draw as the pieces come *)

LEMMA LesserOf ==
  ASSUME NEW a \in Nat, NEW b \in Nat
  PROVE  Min({a, b}) = IF a <= b THEN a ELSE b
<1>1. \A x \in {a, b} : (\A y \in {a, b} : x <= y) => x = IF a <= b THEN a ELSE b
  OBVIOUS
<1>2. \E x \in {a, b} : \A y \in {a, b} : x <= y
  OBVIOUS
<1> QED
  BY <1>1, <1>2 DEF Min

LEMMA RawDoing ==
  ASSUME NEW k, NEW d
  PROVE  Doing("raw", k, d) <=>
           \/ k = 1 /\ Idle(d)
           \/ k = 2 /\ Remembers(d, 1, 0, 0, "none", "none", 0, FALSE, FALSE)
BY DEF Doing

\* No image waits where draws refer to the receive queue.
LEMMA NoneWaits ==
  ASSUME Orderly, StreamInv, running, NEW s, NEW e, NEW rect \in Direct, NEW enc,
         Handling(s, e, rect, enc)
  PROVE  queue = <<>> /\ \A items : FromReceiveQueue(items) = items
<1>1. Painted(s, e) /\ s.ink.rect = rect /\ fbu.rects > 0
  BY DEF Handling, Remaining, InRect
<1>2. ~ flushing /\ ~ s.ink.imaged
  BY <1>1 DEF StreamInv, Canvas, Painted
<1>3. queue = <<>>
  BY <1>1, <1>2 DEF Painted
<1> QED
  BY <1>3 DEF FromReceiveQueue

LEMMA RawLines ==
  ASSUME NEW n \in 1 .. 2, NEW k \in {1, 2}, k + n <= 3, fbu.size = 2, NEW tb
  PROVE  /\ Lines(3 - k, n) \in Seq(AllDraws)
         /\ ToPaint("raw", k, tb) = Lines(3 - k, n) \o ToPaint("raw", k + n, tb)
<1> DEFINE d1 == Draw("line", <<1>>)
           d2 == Draw("line", <<2>>)
<1>1. d1 \in AllDraws /\ d2 \in AllDraws
  <2>1. "line" \in Whats /\ <<1>> \in Seq(Nat) /\ <<2>> \in Seq(Nat)
    BY DEF Whats
  <2> QED
    BY <2>1, DrawIs
<1>2. RectDraws("raw", tb) = <<d1, d2>> /\ LenOf("raw") = 3
  BY Heads DEF RectDraws, Starts
<1>3. /\ ToPaint("raw", 1, tb) = <<d1, d2>>
      /\ ToPaint("raw", 2, tb) = <<d2>>
      /\ ToPaint("raw", 3, tb) = <<>>
  BY <1>2 DEF ToPaint
<1> DEFINE line(i) == Draw("line", <<fbu.size - (3 - k) + i>>)
           ls == Lines(3 - k, n)
<1>4. ls = [i \in 1 .. n |-> line(i)]
  BY DEF Lines
<1>5. /\ k = 1 => line(1) = d1 /\ line(2) = d2
      /\ k = 2 => line(1) = d2
  <2>1. /\ k = 1 => fbu.size - (3 - k) + 1 = 1 /\ fbu.size - (3 - k) + 2 = 2
        /\ k = 2 => fbu.size - (3 - k) + 1 = 2
    OBVIOUS
  <2> QED
    BY <2>1
<1>6. /\ n \in Nat /\ (k = 2 => n = 1)
      /\ n = 1 => \A i \in 1 .. n : i = 1
      /\ n = 2 => \A i \in 1 .. n : i = 1 \/ i = 2
  OBVIOUS
<1> HIDE DEF d1, d2, line, ls
<1>l. ls \in Seq(AllDraws) /\ Len(ls) = n /\ \A i \in 1 .. n : ls[i] = line(i)
  <2>1. \A i \in 1 .. n : line(i) \in AllDraws
    <3>1. (k = 1 \/ k = 2) /\ (n = 1 \/ n = 2)
      OBVIOUS
    <3> QED
      BY <1>1, <1>5, <1>6, <3>1
  <2> QED
    BY <1>4, <1>6, <2>1
<1>7. /\ <<d1>> \in Seq(AllDraws) /\ <<d2>> \in Seq(AllDraws) /\ <<d1, d2>> \in Seq(AllDraws)
      /\ <<d1, d2>> = <<d1>> \o <<d2>> /\ <<d2>> = <<d2>> \o <<>>
      /\ <<d1, d2>> = <<d1, d2>> \o <<>>
  <2>1. /\ <<d1>> \in Seq(AllDraws) /\ <<d2>> \in Seq(AllDraws)
        /\ <<d1, d2>> \in Seq(AllDraws)
    BY <1>1
  <2> QED
    BY <1>1, <2>1, PrependedOne, DrawsRegroup
<1>a. k = 1 /\ n = 1 => ls = <<d1>>
  BY <1>1, <1>5, <1>l
<1>b. k = 1 /\ n = 2 => ls = <<d1, d2>>
  <2> SUFFICES ASSUME k = 1, n = 2
               PROVE  ls = <<d1, d2>>
    OBVIOUS
  <2>1. Len(ls) = 2 /\ ls[1] = d1 /\ ls[2] = d2 /\ ls \in Seq(AllDraws)
    BY <1>5, <1>l
  <2> QED
    BY <1>1, <2>1
<1>c. k = 2 /\ n = 1 => ls = <<d2>>
  BY <1>1, <1>5, <1>l
<1>8. CASE k = 1 /\ n = 1
  <2>1. k + n = 2
    BY <1>8
  <2> QED
    BY <1>3, <1>l, <1>a, <1>7, <1>8, <2>1 DEF ls
<1>9. CASE k = 1 /\ n = 2
  BY <1>3, <1>l, <1>b, <1>7, <1>9 DEF ls
<1>10. CASE k = 2 /\ n = 1
  BY <1>3, <1>l, <1>c, <1>7, <1>10 DEF ls
<1> QED
  BY <1>6, <1>8, <1>9, <1>10

\* The rectangle is not one of JPEG, and one item is put.
LEMMA BrushOne ==
  ASSUME NEW s, NEW e, NEW rect, NEW enc, Handling(s, e, rect, enc), rect \notin HaveTables,
         NEW n, NEW memory, SameTables(memory), LastTile(rect, s.read + n, memory),
         NEW x \in Items, Ready(x),
         ToPaint(rect, s.read, s.ink.tables)
           = x.draws \o ToPaint(rect, s.read + n, s.ink.tables)
  PROVE  Orderly => Brush(s, rect, n, <<x>>, memory)
<1> SUFFICES ASSUME Orderly
             PROVE  Brush(s, rect, n, <<x>>, memory)
  OBVIOUS
<1>1. Painted(s, e) /\ s.ink.rect = rect
  BY DEF Handling, Remaining, InRect
<1>2. TablesMatch(s.ink, s.read + n = LenOf(rect), memory)
  BY <1>1, TablesStay
<1>3. /\ <<x>> \in Seq(Items) /\ Draws(<<x>>) = x.draws
      /\ \A i \in 1 .. Len(<<x>>) : Ready(<<x>>[i])
  BY OneItem
<1> QED
  BY <1>2, <1>3, Zenon DEF Brush

LEMMA RawBrush ==
  ASSUME StreamInv, running, NEW s, NEW e, NEW enc, Handling(s, e, "raw", enc),
         s.read \in {1, 2}, NEW n \in 1 .. 2, s.read + n <= 3, fbu.size = 2,
         NEW memory, SameTables(memory)
  PROVE  Orderly => Brush(s, "raw", n, FromReceiveQueue(Blit(Lines(3 - s.read, n))), memory)
<1> SUFFICES ASSUME Orderly
             PROVE  Brush(s, "raw", n, FromReceiveQueue(Blit(Lines(3 - s.read, n))), memory)
  OBVIOUS
<1>1. FromReceiveQueue(Blit(Lines(3 - s.read, n))) = Blit(Lines(3 - s.read, n))
  <2>1. "raw" \in Direct
    BY DEF Direct
  <2> QED
    BY <2>1, NoneWaits
<1> DEFINE ds == Lines(3 - s.read, n)
           x == [type |-> "blit", draws |-> ds, img |-> "loaded"]
           tb == s.ink.tables
<1>2. ds \in Seq(AllDraws) /\ ToPaint("raw", s.read, tb) = ds \o ToPaint("raw", s.read + n, tb)
  BY RawLines
<1> HIDE DEF ds
<1>3. x \in Items /\ x.draws = ds /\ Ready(x)
  BY <1>2 DEF Items, Ready
<1>4. Blit(ds) = <<x>>
  BY DEF Blit
<1> HIDE DEF x
<1>5. "raw" \notin HaveTables /\ LastTile("raw", s.read + n, memory)
  BY DEF HaveTables, LastTile
<1>6. Brush(s, "raw", n, <<x>>, memory)
  BY <1>2, <1>3, <1>5, BrushOne
<1> QED
  BY <1>1, <1>4, <1>6 DEF ds

LEMMA RawKeepsStep ==
  ASSUME StreamInv, Raw
  PROVE  StreamInv'
<1>1. At("raw")
  BY DEF Raw
<1>2. PICK s, e, rect : running /\ Handling(s, e, rect, "raw")
  BY <1>1, Handled
<1>3. rect \in {"raw", "emptyRaw"} /\ rect \notin DOMAIN NewSize /\ rect # "lastRect"
  BY <1>2, Encodings, ResizesAre DEF Handling
<1>4. fbu.size = SizeOf(rect)
  BY <1>2, InPlace
<1>5. DOMAIN dec = DecFields /\ avail \in Nat
  BY DEF StreamInv, StreamTypes, DecTypes
<1>6. CASE rect = "emptyRaw"
  <2>1. SizeOf(rect) = 0 /\ LenOf(rect) = 1
    BY <1>6, Heads DEF Starts
  <2>2. UNCHANGED <<streamVars, dec>> /\ RectDone(<<>>)
    BY <1>4, <2>1 DEF Raw, Empty
  <2>3. UNCHANGED streamVars /\ UNCHANGED dec /\ rect \in Simple
    BY <1>6, <2>2 DEF Simple
  <2>4. Orderly => Brush(s, rect, 0, <<>>, dec)
    BY <1>2, <1>6, NothingDrawn DEF Undrawn
  <2> QED
    BY <1>2, <1>3, <2>1, <2>2, <2>3, <2>4, BareDone
<1>7. CASE rect = "raw"
  <2>1. SizeOf(rect) = 2 /\ LenOf(rect) = 3
    BY <1>7, Heads DEF Starts
  <2>2. RectPieces(rect)[2].kind = "line" /\ RectPieces(rect)[3].kind = "line"
    BY <1>7, RawHas DEF Later
  <2>3. \/ s.read = 1 /\ Idle(dec)
        \/ s.read = 2 /\ Remembers(dec, 1, 0, 0, "none", "none", 0, FALSE, FALSE)
    BY <1>2, <1>7, InPlace, RawDoing
  <2>4. s.read \in {1, 2} /\ s.read < LenOf(rect)
    <3>1. s.read = 1 \/ s.read = 2
      BY <2>3, Zenon
    <3> QED
      BY <2>1, <3>1
  <2>5. CASE Waits
    BY <1>2, <2>4, <2>5, RectWaits
  <2>6. CASE ~ Waits
    <3> DEFINE left == IF dec.lines = 0 THEN fbu.size ELSE dec.lines
               n == Min({left, avail})
               items == FromReceiveQueue(Blit(Lines(left, n)))
               memory == [dec EXCEPT !.lines = left - n]
               kinds == [i \in 1 .. n |-> "line"]
    <3>1. ~ Empty /\ ~ Lacks(1)
      <4>1. ~ Empty
        BY <1>4, <2>1 DEF Empty
      <4> QED
        BY <2>6, <4>1, Zenon DEF Raw
    <3>2. /\ Reads(kinds)
          /\ IF n = left THEN RectDone(items) /\ dec' = memory
             ELSE RectGoesOn(items, memory, FALSE)
      BY <3>1, Zenon DEF Raw
    <3>3. left = 3 - s.read /\ left \in Nat
      BY <1>4, <2>1, <2>3 DEF Idle, Remembers
    <3>4. n \in 1 .. left /\ n \in Nat
      <4>1. left >= 1
        BY <2>4, <3>3
      <4>2. ~ (avail < 1)
        BY <3>1 DEF Lacks
      <4> HIDE DEF left
      <4>3. n = IF left <= avail THEN left ELSE avail
        BY <1>5, <3>3, LesserOf
      <4> HIDE DEF n
      <4> QED
        BY <1>5, <3>3, <4>1, <4>2, <4>3
    <3>5. DOMAIN memory = DecFields
          /\ Remembers(memory, left - n, 0, 0, "none", "none", 0, FALSE, FALSE)
      BY <1>5, <2>3 DEF Idle, Remembers, DecFields
    <3>b. SameTables(memory)
      BY <1>5 DEF SameTables, DecFields
    <3> HIDE DEF n, left, memory
    <3>c. items = FromReceiveQueue(Blit(Lines(3 - s.read, n)))
      BY <3>3
    <3> HIDE DEF items
    <3>6. Len(kinds) = n /\ \A i \in 1 .. n : kinds[i] = "line"
      BY <3>4
    <3> HIDE DEF kinds
    <3>7. s.read + n <= 3 /\ (n = left => s.read + n = 3) /\ s.read \in Nat
          /\ (n # left => s.read = 1 /\ n = 1 /\ left - n = 1)
      BY <2>4, <3>3, <3>4
    <3>8. Moves(s, e, n)
      <4>1. /\ Remaining(s, e) /\ s.block = RectPieces(rect) /\ Len(s.block) = LenOf(rect)
        BY <1>2, InPlace
      <4>2. \A i \in 1 .. n : s.block[s.read + i].kind = kinds[i]
        <5>1. \A i \in 1 .. n : s.read + i = 2 \/ s.read + i = 3
          BY <2>4, <3>4, <3>7
        <5> QED
          BY <2>2, <3>6, <4>1, <5>1
      <4> QED
        BY <2>1, <3>2, <3>4, <3>6, <3>7, <4>1, <4>2, Reading
    <3>d. Orderly => Brush(s, rect, n, items, memory)
      <4>1. s.read + n <= 3 /\ n \in 1 .. 2 /\ s.read \in {1, 2} /\ fbu.size = 2
        BY <1>4, <2>1, <2>4, <3>3, <3>4, <3>7
      <4>2. Handling(s, e, "raw", "raw")
        BY <1>2, <1>7
      <4>3. Orderly => Brush(s, "raw", n, FromReceiveQueue(Blit(Lines(3 - s.read, n))), memory)
        BY <1>2, <3>b, <4>1, <4>2, RawBrush
      <4> QED
        BY <1>7, <3>c, <4>3
    <3>9. CASE n = left
      <4>1. RectDone(items) /\ dec' = memory /\ s.read + n = LenOf(rect)
        BY <2>1, <3>2, <3>7, <3>9
      <4>2. Idle(dec') /\ DOMAIN dec' = DecFields
        <5>1. left - n = 0
          BY <3>3, <3>9
        <5> QED
          BY <3>5, <4>1, <5>1 DEF Idle
      <4>3. Orderly => Brush(s, rect, n, items, dec')
        BY <3>d, <4>1
      <4> QED
        BY <1>2, <1>3, <3>4, <3>8, <4>1, <4>2, <4>3, Ends
    <3>10. CASE n # left
      <4>1. RectGoesOn(items, memory, FALSE) /\ s.read + n <= LenOf(rect)
            /\ s.read + n # LenOf(rect) /\ FALSE \in BOOLEAN /\ s.read + n = 2
        <5>1. RectGoesOn(items, memory, FALSE)
          BY <3>2, <3>10
        <5>2. s.read = 1 /\ n = 1
          BY <3>7, <3>10
        <5> QED
          <6>1. s.read + n = 2
            BY <5>2
          <6>2. LenOf(rect) = 3
            BY <2>1
          <6>3. s.read + n <= LenOf(rect) /\ s.read + n # LenOf(rect)
            BY <6>1, <6>2
          <6> QED
            BY <5>1, <6>1, <6>3
      <4>2. Remembers(memory, 1, 0, 0, "none", "none", 0, FALSE, FALSE)
        BY <3>5, <3>7, <3>10
      <4>3. Doing(rect, s.read + n, memory)
        BY <1>7, <4>1, <4>2, RawDoing
      <4> QED
        BY <1>2, <3>4, <3>5, <3>8, <3>d, <4>1, <4>3, Continues
    <3> QED
      BY <3>9, <3>10
  <2> QED
    BY <2>5, <2>6
<1> QED
  BY <1>3, <1>6, <1>7

LEMMA RreDoing ==
  ASSUME NEW k, NEW d
  PROVE  Doing("rre", k, d) <=>
           \/ k = 1 /\ Idle(d)
           \/ k \in {2, 3} /\ Remembers(d, 0, 4 - k, 0, "none", "none", 0, FALSE, FALSE)
BY DEF Doing

LEMMA FillsAre == \A n \in Nat : Fills(n) \in AllDraws /\ Tiles(n) \in AllDraws
<1>1. "fill" \in Whats /\ "tile" \in Whats /\ \A n \in Nat : <<n>> \in Seq(Nat)
  BY DEF Whats
<1> QED
  BY <1>1, DrawIs DEF Fills, Tiles

LEMMA RreToPaint ==
  ASSUME NEW k \in 1 .. 3, NEW tb
  PROVE  ToPaint("rre", k, tb) = <<Fills(k - 1)>> \o ToPaint("rre", k + 1, tb)
<1> DEFINE ds == RectDraws("rre", tb)
<1>1. ds = [i \in 1 .. 3 |-> Draw("fill", <<i - 1>>)] /\ LenOf("rre") = 4
  BY Heads DEF RectDraws, Starts
<1>2. /\ ToPaint("rre", 1, tb) = ds
      /\ ToPaint("rre", 2, tb) = <<Fills(1), Fills(2)>>
      /\ ToPaint("rre", 3, tb) = <<Fills(2)>>
      /\ ToPaint("rre", 4, tb) = <<>>
  BY <1>1 DEF ToPaint
<1> HIDE DEF ds
<1> DEFINE a == Fills(0)
           b == Fills(1)
           c == Fills(2)
<1>3. a \in AllDraws /\ b \in AllDraws /\ c \in AllDraws
  BY FillsAre
<1>4. \A i \in 1 .. 3 : Draw("fill", <<i - 1>>) = Fills(i - 1)
  BY DEF Fills
<1>5. /\ ds = [i \in 1 .. 3 |-> Fills(i - 1)]
      /\ \A i \in 1 .. 3 : Fills(i - 1) \in AllDraws
  BY <1>1, <1>4, FillsAre
<1>6. ds \in Seq(AllDraws) /\ Len(ds) = 3 /\ \A i \in 1 .. 3 : ds[i] = Fills(i - 1)
  BY <1>5
<1>7. ds[1] = a /\ ds[2] = b /\ ds[3] = c
  BY <1>6
<1> HIDE DEF a, b, c
<1>8. ds = <<a, b, c>>
  BY <1>3, <1>6, <1>7
<1>9. <<a>> \o <<b, c>> = <<a, b, c>> /\ <<b>> \o <<c>> = <<b, c>> /\ <<c>> \o <<>> = <<c>>
  <2>1. <<c>> \in Seq(AllDraws)
    BY <1>3
  <2>2. <<a>> \o <<b, c>> = <<a, b, c>>
    BY <1>3, PrependedTwo
  <2>3. <<b>> \o <<c>> = <<b, c>>
    BY <1>3, PrependedOne
  <2> QED
    BY <2>1, <2>2, <2>3, DrawsRegroup
<1>10. CASE k = 1
  <2>1. k - 1 = 0 /\ k + 1 = 2
    BY <1>10
  <2> QED
    BY <1>2, <1>8, <1>9, <1>10, <2>1 DEF a, b, c
<1>11. CASE k = 2
  <2>1. k - 1 = 1 /\ k + 1 = 3
    BY <1>11
  <2> QED
    BY <1>2, <1>9, <1>11, <2>1 DEF b, c
<1>12. CASE k = 3
  <2>1. k - 1 = 2 /\ k + 1 = 4
    BY <1>12
  <2> QED
    BY <1>2, <1>9, <1>12, <2>1 DEF c
<1> QED
  BY <1>10, <1>11, <1>12

LEMMA RreBrush ==
  ASSUME StreamInv, running, NEW s, NEW e, NEW enc, Handling(s, e, "rre", enc),
         s.read \in {1, 2, 3}, NEW memory, SameTables(memory)
  PROVE  Orderly => Brush(s, "rre", 1, RreFill(s.read - 1), memory)
<1> SUFFICES ASSUME Orderly
             PROVE  Brush(s, "rre", 1, RreFill(s.read - 1), memory)
  OBVIOUS
<1> DEFINE ds == <<Fills(s.read - 1)>>
           x == [type |-> "fill", draws |-> ds, img |-> "loaded"]
           tb == s.ink.tables
<1>1. RreFill(s.read - 1) = <<x>>
  <2>1. "rre" \in Direct
    BY DEF Direct
  <2>2. \A items : FromReceiveQueue(items) = items
    BY <2>1, NoneWaits
  <2> QED
    BY <2>2 DEF RreFill, Fill, Fills
<1>2. ds \in Seq(AllDraws) /\ ToPaint("rre", s.read, tb) = ds \o ToPaint("rre", s.read + 1, tb)
  <2>1. s.read - 1 \in Nat /\ s.read \in 1 .. 3
    OBVIOUS
  <2>2. Fills(s.read - 1) \in AllDraws
    BY <2>1, FillsAre
  <2>3. ToPaint("rre", s.read, tb) = ds \o ToPaint("rre", s.read + 1, tb)
    BY <2>1, RreToPaint
  <2> QED
    BY <2>2, <2>3
<1> HIDE DEF ds
<1>3. x \in Items /\ x.draws = ds /\ Ready(x)
  BY <1>2 DEF Items, Ready
<1> HIDE DEF x
<1>4. "rre" \notin HaveTables /\ LastTile("rre", s.read + 1, memory)
  BY DEF HaveTables, LastTile
<1>5. Brush(s, "rre", 1, <<x>>, memory)
  BY <1>2, <1>3, <1>4, BrushOne
<1> QED
  BY <1>1, <1>5

LEMMA RreKeepsStep ==
  ASSUME StreamInv, Rre
  PROVE  StreamInv'
<1>1. At("rre")
  BY DEF Rre
<1>2. PICK s, e, rect : running /\ Handling(s, e, rect, "rre")
  BY <1>1, Handled
<1>3. rect = "rre" /\ rect \notin DOMAIN NewSize /\ rect # "lastRect"
  BY <1>2, Encodings, ResizesAre DEF Handling
<1>4. LenOf(rect) = 4
  BY <1>3, Heads DEF Starts
<1>5. /\ RectPieces(rect)[2].kind = "subrects" /\ RectPieces(rect)[2].n = 2
      /\ RectPieces(rect)[3].kind = "subrect" /\ RectPieces(rect)[4].kind = "subrect"
      /\ RectPieces(rect)[3].n = 1 /\ RectPieces(rect)[4].n = 2
  BY <1>3, RreHas DEF Later
<1>6. DOMAIN dec = DecFields
  BY DEF StreamInv, StreamTypes, DecTypes
<1>7. \/ s.read = 1 /\ Idle(dec)
      \/ /\ s.read \in {2, 3}
         /\ Remembers(dec, 0, 4 - s.read, 0, "none", "none", 0, FALSE, FALSE)
  BY <1>2, <1>3, InPlace, RreDoing
<1>8. s.read \in {1, 2, 3} /\ s.read < LenOf(rect)
  <2>1. s.read = 1 \/ s.read \in {2, 3}
    BY <1>7, Zenon
  <2> QED
    BY <1>4, <2>1
<1>9. CASE Waits
  BY <1>2, <1>8, <1>9, RectWaits
<1>10. CASE ~ Waits
  <2> DEFINE start == dec.subrects = 0
             left == IF start THEN wire[1].n ELSE dec.subrects - 1
             items == RreFill(IF start THEN 0 ELSE wire[1].n)
             memory == [dec EXCEPT !.subrects = left]
  <2>1. /\ ~ Lacks(1)
        /\ Reads(IF start THEN <<"subrects">> ELSE <<"subrect">>)
        /\ IF left = 0 THEN RectDone(items) /\ dec' = memory
           ELSE RectGoesOn(items, memory, TRUE)
    BY <1>10 DEF Rre
  <2>2. wire[1] = RectPieces(rect)[s.read + 1]
    BY <1>2, <1>8, <2>1, Peek
  <2>3. left = 3 - s.read /\ (start <=> s.read = 1)
    BY <1>5, <1>7, <2>2 DEF Idle, Remembers
  <2>4. DOMAIN memory = DecFields
        /\ Remembers(memory, 0, left, 0, "none", "none", 0, FALSE, FALSE)
    BY <1>6, <1>7 DEF Idle, Remembers, DecFields
  <2>b. SameTables(memory)
    BY <1>6 DEF SameTables, DecFields
  <2>c. items = RreFill(s.read - 1)
    <3>1. (IF start THEN 0 ELSE wire[1].n) = s.read - 1
      BY <1>5, <1>8, <2>2, <2>3
    <3> QED
      BY <3>1
  <2>5. Moves(s, e, 1)
    <3>1. CASE start
      <4>1. Reads(<<"subrects">>) /\ RectPieces(rect)[s.read + 1].kind = "subrects"
        BY <1>5, <2>1, <2>3, <3>1
      <4> QED
        BY <1>2, <1>8, <4>1, ReadsOne
    <3>2. CASE ~ start
      <4>1. Reads(<<"subrect">>)
        BY <2>1, <3>2
      <4>2. RectPieces(rect)[s.read + 1].kind = "subrect"
        BY <1>5, <1>8, <2>3, <3>2
      <4> QED
        BY <1>2, <1>8, <4>1, <4>2, ReadsOne
    <3> QED
      BY <3>1, <3>2
  <2> HIDE DEF left, items, memory
  <2>d. Orderly => Brush(s, rect, 1, items, memory)
    <3>1. Handling(s, e, "rre", "rre")
      BY <1>2, <1>3
    <3>2. Orderly => Brush(s, "rre", 1, RreFill(s.read - 1), memory)
      BY <1>2, <1>8, <2>b, <3>1, RreBrush
    <3> QED
      BY <1>3, <2>c, <3>2
  <2>6. CASE left = 0
    <3>1. RectDone(items) /\ dec' = memory /\ s.read + 1 = LenOf(rect) /\ 1 \in Nat
      <4>1. RectDone(items) /\ dec' = memory
        BY <2>1, <2>6
      <4>2. s.read + 1 = LenOf(rect)
        BY <1>4, <1>8, <2>3, <2>6
      <4> QED
        BY <4>1, <4>2
    <3>2. Idle(dec') /\ DOMAIN dec' = DecFields
      BY <2>4, <2>6, <3>1 DEF Idle
    <3>3. Orderly => Brush(s, rect, 1, items, dec')
      BY <2>d, <3>1
    <3> QED
      BY <1>2, <1>3, <2>5, <3>1, <3>2, <3>3, Ends
  <2>7. CASE left # 0
    <3>1. RectGoesOn(items, memory, TRUE) /\ s.read + 1 <= LenOf(rect) /\ TRUE \in BOOLEAN
          /\ 1 \in Nat
      <4>1. RectGoesOn(items, memory, TRUE)
        BY <2>1, <2>7
      <4>2. s.read + 1 <= LenOf(rect)
        BY <1>4, <1>8
      <4> QED
        BY <4>1, <4>2
    <3>2. s.read + 1 \in {2, 3} /\ left = 4 - (s.read + 1)
      BY <1>8, <2>3, <2>7
    <3>3. Remembers(memory, 0, 4 - (s.read + 1), 0, "none", "none", 0, FALSE, FALSE)
      BY <2>4, <3>2
    <3>4. Doing(rect, s.read + 1, memory)
      BY <1>3, <3>2, <3>3, RreDoing
    <3> QED
      BY <1>2, <2>4, <2>5, <2>d, <3>1, <3>4, Continues
  <2> QED
    BY <2>6, <2>7
<1> QED
  BY <1>9, <1>10

-----------------------------------------------------------------------------
(* Hextile *)

\* How many tiles are left after k pieces, where no tile is half read.
TileStarts == {1, 3, 4, 7, 9}
TilesLeft(k) ==
  IF k = 1 THEN 5 ELSE IF k = 3 THEN 4 ELSE IF k = 4 THEN 3 ELSE IF k = 7 THEN 2 ELSE
  IF k = 9 THEN 1 ELSE 0

LEMMA HextileDoing ==
  ASSUME NEW k, NEW d
  PROVE  /\ Doing("hextile", k, d) <=>
              \/ k = 1 /\ Idle(d)
              \/ k \in TileStarts /\ AtTiles(d, TilesLeft(k))
         /\ Doing("badHextile", k, d) <=> k = 1 /\ Idle(d)
<1>1. /\ Doing("hextile", k, d) <=>
           \/ k = 1 /\ Idle(d)
           \/ k = 1 /\ AtTiles(d, 5)
           \/ k = 3 /\ AtTiles(d, 4)
           \/ k = 4 /\ AtTiles(d, 3)
           \/ k = 7 /\ AtTiles(d, 2)
           \/ k = 9 /\ AtTiles(d, 1)
      /\ Doing("badHextile", k, d) <=> k = 1 /\ Idle(d)
  BY DEF Doing
<1>2. TilesLeft(1) = 5 /\ TilesLeft(3) = 4 /\ TilesLeft(4) = 3 /\ TilesLeft(7) = 2
      /\ TilesLeft(9) = 1
  BY DEF TilesLeft
<1>3. k \in TileStarts <=> k = 1 \/ k = 3 \/ k = 4 \/ k = 7 \/ k = 9
  BY DEF TileStarts
<1> QED
  BY <1>1, <1>2, <1>3, Zenon

\* The tile that starts after k pieces has n of them.
TileHas(k, n, kinds) ==
  /\ Len(kinds) = n /\ \A i \in 1 .. n : RectPieces("hextile")[k + i].kind = kinds[i]
  /\ RectPieces("hextile")[k + 1].of # "illegal"
  /\ TilesLeft(k + n) = TilesLeft(k) - 1
  /\ IF k = 9 THEN k + n = 10 ELSE k + n \in TileStarts

LEMMA HextileTiles ==
  ASSUME NEW k \in TileStarts
  PROVE  \E n \in 1 .. 3 : TileHas(k, n, TilePieces(RectPieces("hextile")[k + 1].of))
<1> DEFINE blank == <<"tile">>
           pixels == <<"tile", "pixels">>
           subrects == <<"tile", "subrects", "pixels">>
<1>1. /\ Len(blank) = 1 /\ blank[1] = "tile"
      /\ Len(pixels) = 2 /\ pixels[1] = "tile" /\ pixels[2] = "pixels"
      /\ Len(subrects) = 3 /\ subrects[1] = "tile" /\ subrects[2] = "subrects"
      /\ subrects[3] = "pixels"
  OBVIOUS
<1>2. /\ TilePieces("blank") = blank /\ TilePieces("back") = pixels
      /\ TilePieces("raw") = pixels /\ TilePieces("subrects") = subrects
  BY DEF TilePieces
<1> HIDE DEF blank, pixels, subrects
<1>3. /\ \A i \in 1 .. 1 : i = 1
      /\ \A i \in 1 .. 2 : i = 1 \/ i = 2
      /\ \A i \in 1 .. 3 : i = 1 \/ i = 2 \/ i = 3
  OBVIOUS
<1>4. 1 \in 1 .. 3 /\ 2 \in 1 .. 3 /\ 3 \in 1 .. 3
  OBVIOUS
<1> DEFINE b == RectPieces("hextile")
<1>5. /\ b[2].kind = "tile" /\ b[3].kind = "pixels" /\ b[4].kind = "tile" /\ b[5].kind = "tile"
      /\ b[6].kind = "subrects" /\ b[7].kind = "pixels" /\ b[8].kind = "tile"
      /\ b[9].kind = "pixels" /\ b[10].kind = "tile"
  BY HextileHas DEF Later
<1>6. /\ b[2].of = "back" /\ b[4].of = "blank" /\ b[5].of = "subrects" /\ b[8].of = "raw"
      /\ b[10].of = "blank"
  BY HextileHas DEF Later
<1> HIDE DEF b
<1>7. CASE k = 1
  <2>1. \A i \in 1 .. 2 : b[1 + i].kind = pixels[i]
    BY <1>1, <1>3, <1>5
  <2>2. TilesLeft(1 + 2) = TilesLeft(1) - 1
    BY DEF TilesLeft
  <2>3. IF 1 = 9 THEN 1 + 2 = 10 ELSE 1 + 2 \in TileStarts
    BY DEF TileStarts
  <2>4. 1 + 1 = 2 /\ b[1 + 1].of # "illegal"
    BY <1>6
  <2>5. TileHas(1, 2, pixels) /\ RectPieces("hextile")[1 + 1].of = "back"
    BY <1>1, <1>6, <2>1, <2>2, <2>3, <2>4 DEF TileHas, b
  <2> QED
    BY <1>2, <1>4, <1>7, <2>5
<1>8. CASE k = 3
  <2>1. \A i \in 1 .. 1 : b[3 + i].kind = blank[i]
    BY <1>1, <1>3, <1>5
  <2>2. TilesLeft(3 + 1) = TilesLeft(3) - 1
    BY DEF TilesLeft
  <2>3. IF 3 = 9 THEN 3 + 1 = 10 ELSE 3 + 1 \in TileStarts
    BY DEF TileStarts
  <2>4. 3 + 1 = 4 /\ b[3 + 1].of # "illegal"
    BY <1>6
  <2>5. TileHas(3, 1, blank) /\ RectPieces("hextile")[3 + 1].of = "blank"
    BY <1>1, <1>6, <2>1, <2>2, <2>3, <2>4 DEF TileHas, b
  <2> QED
    BY <1>2, <1>4, <1>8, <2>5
<1>9. CASE k = 4
  <2>1. \A i \in 1 .. 3 : b[4 + i].kind = subrects[i]
    BY <1>1, <1>3, <1>5
  <2>2. TilesLeft(4 + 3) = TilesLeft(4) - 1
    BY DEF TilesLeft
  <2>3. IF 4 = 9 THEN 4 + 3 = 10 ELSE 4 + 3 \in TileStarts
    BY DEF TileStarts
  <2>4. 4 + 1 = 5 /\ b[4 + 1].of # "illegal"
    BY <1>6
  <2>5. TileHas(4, 3, subrects) /\ RectPieces("hextile")[4 + 1].of = "subrects"
    BY <1>1, <1>6, <2>1, <2>2, <2>3, <2>4 DEF TileHas, b
  <2> QED
    BY <1>2, <1>4, <1>9, <2>5
<1>10. CASE k = 7
  <2>1. \A i \in 1 .. 2 : b[7 + i].kind = pixels[i]
    BY <1>1, <1>3, <1>5
  <2>2. TilesLeft(7 + 2) = TilesLeft(7) - 1
    BY DEF TilesLeft
  <2>3. IF 7 = 9 THEN 7 + 2 = 10 ELSE 7 + 2 \in TileStarts
    BY DEF TileStarts
  <2>4. 7 + 1 = 8 /\ b[7 + 1].of # "illegal"
    BY <1>6
  <2>5. TileHas(7, 2, pixels) /\ RectPieces("hextile")[7 + 1].of = "raw"
    BY <1>1, <1>6, <2>1, <2>2, <2>3, <2>4 DEF TileHas, b
  <2> QED
    BY <1>2, <1>4, <1>10, <2>5
<1>11. CASE k = 9
  <2>1. \A i \in 1 .. 1 : b[9 + i].kind = blank[i]
    BY <1>1, <1>3, <1>5
  <2>2. TilesLeft(9 + 1) = TilesLeft(9) - 1
    BY DEF TilesLeft
  <2>3. IF 9 = 9 THEN 9 + 1 = 10 ELSE 9 + 1 \in TileStarts
    BY DEF TileStarts
  <2>4. 9 + 1 = 10 /\ b[9 + 1].of # "illegal"
    BY <1>6
  <2>5. TileHas(9, 1, blank) /\ RectPieces("hextile")[9 + 1].of = "blank"
    BY <1>1, <1>6, <2>1, <2>2, <2>3, <2>4 DEF TileHas, b
  <2> QED
    BY <1>2, <1>4, <1>11, <2>5
<1> QED
  BY <1>7, <1>8, <1>9, <1>10, <1>11 DEF TileStarts

\* The tile that starts after k pieces, and what is still to be drawn then.
TileAt(k) == RectPieces("hextile")[k + 1]

LEMMA HextileToPaintIs ==
  ASSUME NEW tb
  PROVE  /\ ToPaint("hextile", 1, tb) = <<Tiles(1)>> \o ToPaint("hextile", 3, tb)
         /\ ToPaint("hextile", 3, tb) = <<Tiles(2)>> \o ToPaint("hextile", 4, tb)
         /\ ToPaint("hextile", 4, tb) = <<Tiles(3)>> \o ToPaint("hextile", 7, tb)
         /\ ToPaint("hextile", 7, tb) = <<Tiles(4)>> \o ToPaint("hextile", 9, tb)
         /\ ToPaint("hextile", 9, tb) = <<>> /\ ToPaint("hextile", 10, tb) = <<>>
<1> DEFINE ds == RectDraws("hextile", tb)
<1>1. ds = [i \in 1 .. 4 |-> Draw("tile", <<i>>)] /\ LenOf("hextile") = 10
  BY Heads DEF RectDraws, Starts
<1>2. /\ HextileToPaint(3) = <<Tiles(2), Tiles(3), Tiles(4)>>
      /\ HextileToPaint(4) = <<Tiles(3), Tiles(4)>>
      /\ HextileToPaint(7) = <<Tiles(4)>> /\ HextileToPaint(9) = <<>>
  BY DEF HextileToPaint
<1>3. /\ ToPaint("hextile", 1, tb) = ds
      /\ \A k \in {3, 4, 7, 9} : ToPaint("hextile", k, tb) = HextileToPaint(k)
      /\ ToPaint("hextile", 10, tb) = <<>>
  BY <1>1 DEF ToPaint
<1> HIDE DEF ds
<1> DEFINE a == Tiles(1)
           b == Tiles(2)
           c == Tiles(3)
           d == Tiles(4)
<1>4. a \in AllDraws /\ b \in AllDraws /\ c \in AllDraws /\ d \in AllDraws
  BY FillsAre
<1>5. \A i \in 1 .. 4 : Draw("tile", <<i>>) = Tiles(i)
  BY DEF Tiles
<1>6. ds \in Seq(AllDraws) /\ Len(ds) = 4 /\ \A i \in 1 .. 4 : ds[i] = Tiles(i)
  <2>1. \A i \in 1 .. 4 : Tiles(i) \in AllDraws
    BY FillsAre
  <2> QED
    BY <1>1, <1>5, <2>1
<1>7. ds[1] = a /\ ds[2] = b /\ ds[3] = c /\ ds[4] = d
  BY <1>6
<1>8. /\ HextileToPaint(3) = <<b, c, d>> /\ HextileToPaint(4) = <<c, d>>
      /\ HextileToPaint(7) = <<d>>
  BY <1>2
<1> HIDE DEF a, b, c, d
<1>9. ds = <<a, b, c, d>>
  BY <1>4, <1>6, <1>7
<1>10. /\ <<a>> \o <<b, c, d>> = <<a, b, c, d>> /\ <<b>> \o <<c, d>> = <<b, c, d>>
       /\ <<c>> \o <<d>> = <<c, d>> /\ <<d>> \o <<>> = <<d>>
  <2>1. <<d>> \in Seq(AllDraws)
    BY <1>4
  <2>2. <<a>> \o <<b, c, d>> = <<a, b, c, d>>
    BY <1>4, PrependedThree
  <2>3. <<b>> \o <<c, d>> = <<b, c, d>>
    BY <1>4, PrependedTwo
  <2>4. <<c>> \o <<d>> = <<c, d>>
    BY <1>4, PrependedOne
  <2>5. <<d>> \o <<>> = <<d>>
    BY <2>1, DrawsRegroup
  <2> QED
    BY <2>2, <2>3, <2>4, <2>5
<1>11. /\ ToPaint("hextile", 1, tb) = <<a>> \o ToPaint("hextile", 3, tb)
       /\ ToPaint("hextile", 3, tb) = <<b>> \o ToPaint("hextile", 4, tb)
       /\ ToPaint("hextile", 4, tb) = <<c>> \o ToPaint("hextile", 7, tb)
       /\ ToPaint("hextile", 7, tb) = <<d>> \o ToPaint("hextile", 9, tb)
       /\ ToPaint("hextile", 9, tb) = <<>>
  BY <1>2, <1>3, <1>8, <1>9, <1>10
<1> QED
  BY <1>3, <1>11 DEF a, b, c, d

\* A tile without a background after a raw one is not drawn.
LEMMA HextileBrush ==
  ASSUME StreamInv, running, NEW s, NEW e, NEW enc, Handling(s, e, "hextile", enc),
         s.read \in TileStarts, NEW n, TileHas(s.read, n, TilePieces(TileAt(s.read).of)),
         NEW memory, SameTables(memory), memory.lastRaw = (TileAt(s.read).of = "raw")
  PROVE  Orderly =>
           Brush(s, "hextile", n, TileItems(TileAt(s.read).of, TileAt(s.read).n), memory)
<1> SUFFICES ASSUME Orderly
             PROVE  Brush(s, "hextile", n, TileItems(TileAt(s.read).of, TileAt(s.read).n), memory)
  OBVIOUS
<1> DEFINE k == s.read
           tb == s.ink.tables
           items == TileItems(TileAt(k).of, TileAt(k).n)
           Does(x) == x \in Items /\ Ready(x) /\ items = <<x>>
                      /\ ToPaint("hextile", k, tb) = x.draws \o ToPaint("hextile", k + n, tb)
<1>1. /\ TileAt(1).of = "back" /\ TileAt(1).n = 1 /\ TileAt(3).of = "blank" /\ TileAt(3).n = 2
      /\ TileAt(4).of = "subrects" /\ TileAt(4).n = 3 /\ TileAt(7).of = "raw" /\ TileAt(7).n = 4
      /\ TileAt(9).of = "blank" /\ TileAt(9).n = 5
  <2> DEFINE b == RectPieces("hextile")
  <2>1. /\ b[2].of = "back" /\ b[2].n = 1 /\ b[4].of = "blank" /\ b[4].n = 2
        /\ b[5].of = "subrects" /\ b[5].n = 3 /\ b[8].of = "raw" /\ b[8].n = 4
        /\ b[10].of = "blank" /\ b[10].n = 5
    BY HextileHas DEF Later
  <2>2. TileAt(1) = b[2] /\ TileAt(3) = b[4] /\ TileAt(4) = b[5] /\ TileAt(7) = b[8]
        /\ TileAt(9) = b[10]
    BY DEF TileAt
  <2> HIDE DEF b
  <2> QED
    BY <2>1, <2>2
<1>2. /\ k = 1 => n = 2
      /\ k = 3 => n = 1
      /\ k = 4 => n = 3
      /\ k = 7 => n = 2
      /\ k = 9 => n = 1
  <2>1. Len(TilePieces("back")) = 2 /\ Len(TilePieces("blank")) = 1
        /\ Len(TilePieces("subrects")) = 3 /\ Len(TilePieces("raw")) = 2
    BY DEF TilePieces
  <2>2. n = Len(TilePieces(TileAt(k).of))
    BY DEF TileHas
  <2> QED
    BY <1>1, <2>1, <2>2
<1>3. Painted(s, e) /\ s.ink.rect = "hextile" /\ \A it : FromReceiveQueue(it) = it
  <2>1. "hextile" \in Direct
    BY DEF Direct
  <2> QED
    BY <2>1, NoneWaits DEF Handling, Remaining, InRect
<1>4. (k = 3 => dec.lastRaw = FALSE) /\ (k = 9 => dec.lastRaw = TRUE)
  BY <1>3 DEF Painted, LastTile
<1>5. LastTile("hextile", k + n, memory) /\ "hextile" \notin HaveTables
  <2>1. /\ k + n = 3 => k = 1 
        /\ k + n = 9 => k = 7
    BY <1>2 DEF TileStarts
  <2>2. /\ k + n = 3 => memory.lastRaw = FALSE
        /\ k + n = 9 => memory.lastRaw = TRUE
    BY <1>1, <2>1
  <2> QED
    BY <2>2 DEF LastTile, HaveTables
<1>6. ASSUME NEW j \in Nat, NEW kind \in {"fill", "blit"},
             items = <<[type |-> kind, draws |-> <<Tiles(j)>>, img |-> "loaded"]>>,
             ToPaint("hextile", k, tb) = <<Tiles(j)>> \o ToPaint("hextile", k + n, tb)
      PROVE  Brush(s, "hextile", n, items, memory)
  <2> DEFINE ds == <<Tiles(j)>>
             x == [type |-> kind, draws |-> ds, img |-> "loaded"]
  <2>1. ds \in Seq(AllDraws)
    BY FillsAre
  <2>2. ToPaint("hextile", k, tb) = ds \o ToPaint("hextile", k + n, tb)
    BY <1>6
  <2>3. items = <<x>>
    BY <1>6
  <2> HIDE DEF ds, items
  <2>4. x \in Items /\ x.draws = ds /\ Ready(x)
    BY <2>1 DEF Items, Ready
  <2> HIDE DEF x
  <2>5. Brush(s, "hextile", n, <<x>>, memory)
    BY <1>5, <2>2, <2>4, BrushOne
  <2> QED
    BY <2>3, <2>5
<1>7. CASE k = 1
  <2>1. items = <<[type |-> "blit", draws |-> <<Tiles(1)>>, img |-> "loaded"]>>
    BY <1>1, <1>7 DEF TileItems, Blit, Tiles
  <2>2. ToPaint("hextile", k, tb) = <<Tiles(1)>> \o ToPaint("hextile", k + n, tb)
    BY <1>2, <1>7, HextileToPaintIs
  <2> QED
    BY <1>6, <2>1, <2>2
<1>8. CASE k = 3
  <2>1. items = <<[type |-> "fill", draws |-> <<Tiles(2)>>, img |-> "loaded"]>>
    BY <1>1, <1>4, <1>8 DEF TileItems, Fill, Tiles
  <2>2. ToPaint("hextile", k, tb) = <<Tiles(2)>> \o ToPaint("hextile", k + n, tb)
    BY <1>2, <1>8, HextileToPaintIs
  <2> QED
    BY <1>6, <2>1, <2>2
<1>9. CASE k = 4
  <2>1. items = <<[type |-> "blit", draws |-> <<Tiles(3)>>, img |-> "loaded"]>>
    BY <1>1, <1>9 DEF TileItems, Blit, Tiles
  <2>2. ToPaint("hextile", k, tb) = <<Tiles(3)>> \o ToPaint("hextile", k + n, tb)
    BY <1>2, <1>9, HextileToPaintIs
  <2> QED
    BY <1>6, <2>1, <2>2
<1>10. CASE k = 7
  <2>1. items = <<[type |-> "blit", draws |-> <<Tiles(4)>>, img |-> "loaded"]>>
    BY <1>1, <1>3, <1>10 DEF TileItems, Blit, Tiles
  <2>2. ToPaint("hextile", k, tb) = <<Tiles(4)>> \o ToPaint("hextile", k + n, tb)
    BY <1>2, <1>10, HextileToPaintIs
  <2> QED
    BY <1>6, <2>1, <2>2
<1>11. CASE k = 9
  <2>1. items = <<>>
    BY <1>1, <1>4, <1>11 DEF TileItems
  <2>2. ToPaint("hextile", k, tb) = <<>> /\ ToPaint("hextile", k + n, tb) = <<>>
    BY <1>2, <1>11, HextileToPaintIs
  <2>3. <<>> = <<>> \o <<>> /\ Draws(<<>>) = <<>>
    BY NoItems
  <2>4. TablesMatch(s.ink, k + n = LenOf("hextile"), memory)
    BY <1>3, <1>5, TablesStay
  <2>5. Brush(s, "hextile", n, <<>>, memory)
    BY <1>5, <2>2, <2>3, <2>4, NoItems, Zenon DEF Brush
  <2> QED
    BY <2>1, <2>5
<1> QED
  BY <1>7, <1>8, <1>9, <1>10, <1>11 DEF TileStarts

LEMMA HextileKeepsStep ==
  ASSUME StreamInv, Hextile
  PROVE  StreamInv'
<1>1. At("hextile")
  BY DEF Hextile
<1>2. PICK s, e, rect : running /\ Handling(s, e, rect, "hextile")
  BY <1>1, Handled
<1>3. rect \in {"hextile", "badHextile"} /\ rect \notin DOMAIN NewSize /\ rect # "lastRect"
  BY <1>2, Encodings, ResizesAre DEF Handling
<1>4. fbu.size = SizeOf(rect) /\ DOMAIN dec = DecFields
  BY <1>2, InPlace DEF StreamInv, StreamTypes, DecTypes
<1>5. ~ Empty
  <2>1. SizeOf(rect) = 5 \/ SizeOf(rect) = 1
    BY <1>3, Heads DEF Starts
  <2> QED
    BY <1>4, <2>1 DEF Empty
<1>6. s.read < LenOf(rect)
  <2>1. CASE rect = "hextile"
    <3>1. LenOf(rect) = 10
      BY <2>1, Heads DEF Starts
    <3>2. s.read = 1 \/ s.read \in TileStarts
      BY <1>2, <2>1, InPlace, HextileDoing
    <3> QED
      BY <3>1, <3>2 DEF TileStarts
  <2>2. CASE rect = "badHextile"
    <3>1. LenOf(rect) = 3
      BY <2>2, Heads DEF Starts
    <3>2. s.read = 1
      BY <1>2, <2>2, InPlace, HextileDoing
    <3> QED
      BY <3>1, <3>2
  <2> QED
    BY <1>3, <2>1, <2>2
<1>7. CASE Waits
  BY <1>2, <1>6, <1>7, RectWaits
<1>8. CASE Fails
  BY <1>8, FailsIs
<1>9. CASE ~ Waits /\ ~ Fails
  <2> DEFINE left == IF dec.tiles = 0 THEN fbu.size ELSE dec.tiles
             sub == wire[1].of
             kinds == TilePieces(sub)
             items == TileItems(sub, wire[1].n)
             memory == [dec EXCEPT !.tiles = left - 1, !.lastRaw = (sub = "raw")]
             waiting == [dec EXCEPT !.tiles = left]
  <2>1. ~ Lacks(1) /\ sub # "illegal"
    BY <1>5, <1>9, Zenon DEF Hextile
  <2>2. IF Lacks(Len(kinds))
        THEN RectGoesOn(<<>>, waiting, FALSE) /\ UNCHANGED streamVars
        ELSE /\ Reads(kinds)
             /\ IF left = 1 THEN RectDone(items) /\ dec' = memory
                ELSE RectGoesOn(items, memory, TRUE)
    BY <1>5, <2>1, Zenon DEF Hextile
  <2>3. wire[1] = RectPieces(rect)[s.read + 1]
    BY <1>2, <1>6, <2>1, Peek
  <2>4. rect = "hextile"
    <3>1. CASE rect = "badHextile"
      <4>1. s.read = 1
        BY <1>2, <3>1, InPlace, HextileDoing
      <4>2. RectPieces(rect)[2].of = "illegal"
        BY <3>1, BadHextileHas DEF Later
      <4> QED
        BY <2>1, <2>3, <4>1, <4>2
    <3> QED
      BY <1>3, <3>1
  <2>5. LenOf(rect) = 10 /\ fbu.size = 5
    BY <1>4, <2>4, Heads DEF Starts
  <2>6. s.read \in TileStarts /\ ((s.read = 1 /\ Idle(dec)) \/ AtTiles(dec, TilesLeft(s.read)))
    BY <1>2, <2>4, InPlace, HextileDoing DEF TileStarts
  <2>7. /\ dec.lines = 0 /\ dec.subrects = 0 /\ dec.ctl = "none" /\ dec.filter = "none"
        /\ dec.numColors = 0 /\ dec.len = FALSE /\ dec.zLength = FALSE
    BY <2>6 DEF Idle, AtTiles, Remembers
  <2>8. left = TilesLeft(s.read) /\ left \in 1 .. 5
    <3>1. TilesLeft(s.read) \in 1 .. 5 /\ TilesLeft(1) = 5
      BY <2>6 DEF TilesLeft, TileStarts
    <3>2. CASE s.read = 1 /\ Idle(dec)
      BY <2>5, <3>1, <3>2 DEF Idle, Remembers
    <3>3. CASE AtTiles(dec, TilesLeft(s.read))
      <4>1. dec.tiles = TilesLeft(s.read)
        BY <3>3 DEF AtTiles, Remembers
      <4> QED
        BY <3>1, <4>1
    <3> QED
      BY <2>6, <3>2, <3>3
  <2>9. DOMAIN memory = DecFields /\ AtTiles(memory, left - 1)
    BY <1>4, <2>7 DEF AtTiles, Remembers, DecFields
  <2>a. SameTables(memory) /\ memory.lastRaw = (TileAt(s.read).of = "raw")
    BY <1>4, <2>3, <2>4 DEF SameTables, DecFields, TileAt
  <2>b. items = TileItems(TileAt(s.read).of, TileAt(s.read).n)
    BY <2>3, <2>4 DEF TileAt
  <2>c. kinds = TilePieces(TileAt(s.read).of)
    BY <2>3, <2>4 DEF TileAt
  <2>d. SameTables(waiting) /\ waiting.lastRaw = dec.lastRaw
    BY <1>4 DEF SameTables, DecFields
  <2>10. DOMAIN waiting = DecFields /\ AtTiles(waiting, left)
    BY <1>4, <2>7 DEF AtTiles, Remembers, DecFields
  <2>11. PICK n \in 1 .. 3 : TileHas(s.read, n, kinds)
    BY <2>3, <2>4, <2>6, HextileTiles
  <2> HIDE DEF left, sub, kinds, items, memory, waiting
  <2>12. n \in Nat /\ s.read \in Nat
    BY <2>6 DEF TileStarts
  <2>13. CASE Lacks(Len(kinds))
    <3>1. RectGoesOn(<<>>, waiting, FALSE) /\ UNCHANGED streamVars
      BY <2>2, <2>13
    <3>2. Remaining(s, e) /\ s.read + 0 = s.read
      BY <1>2, <2>12, InPlace
    <3>3. Moves(s, e, 0)
      BY <3>1, <3>2, Stays
    <3>4. Doing(rect, s.read + 0, waiting)
      BY <2>4, <2>6, <2>8, <2>10, <3>2, HextileDoing
    <3>5. s.read + 0 <= LenOf(rect) /\ s.read + 0 # LenOf(rect) /\ 0 \in Nat
      BY <1>6, <2>5, <2>12
    <3>6. Orderly => Brush(s, rect, 0, <<>>, waiting)
      <4> SUFFICES ASSUME Orderly
                   PROVE  Brush(s, rect, 0, <<>>, waiting)
        OBVIOUS
      <4>1. Painted(s, e) /\ s.ink.rect = rect /\ s.ink.tables \in Tables
        BY <1>2 DEF Handling, Remaining, InRect, Place, Inks
      <4>2. TablesMatch(s.ink, s.read + 0 = LenOf(rect), waiting)
        <5>1. s.ink.rect \notin HaveTables
          BY <2>4, <4>1 DEF HaveTables
        <5> QED
          BY <2>d, <4>1, <5>1, TablesStay
      <4>3. LastTile(rect, s.read + 0, waiting)
        BY <2>d, <3>2, <4>1 DEF Painted, LastTile
      <4>4. ToPaint(rect, s.read, s.ink.tables) \in Seq(AllDraws)
        BY <4>1, ToPaintIs
      <4>5. ToPaint(rect, s.read, s.ink.tables)
              = Draws(<<>>) \o ToPaint(rect, s.read + 0, s.ink.tables)
        BY <3>2, <4>4, NoItems
      <4> QED
        BY <4>2, <4>3, <4>5, NoItems, Zenon DEF Brush
    <3> QED
      BY <1>2, <2>10, <3>1, <3>3, <3>4, <3>5, <3>6, Continues
  <2>14. CASE ~ Lacks(Len(kinds))
    <3>1. /\ Reads(kinds)
          /\ IF left = 1 THEN RectDone(items) /\ dec' = memory
             ELSE RectGoesOn(items, memory, TRUE)
      BY <2>2, <2>14
    <3>2. /\ Remaining(s, e) /\ s.block = RectPieces("hextile") /\ Len(s.block) = 10
      BY <1>2, <2>4, <2>5, InPlace
    <3>3. s.read + n <= 10 /\ (s.read = 9 <=> left = 1) /\ (s.read = 9 => s.read + n = 10)
          /\ (s.read # 9 => s.read + n \in TileStarts)
      BY <2>6, <2>8, <2>11, <2>12 DEF TileHas, TilesLeft, TileStarts
    <3>4. Moves(s, e, n)
      <4>1. Len(kinds) = n /\ \A i \in 1 .. n : s.block[s.read + i].kind = kinds[i]
        BY <2>11, <3>2 DEF TileHas
      <4> QED
        BY <2>12, <3>1, <3>2, <3>3, <4>1, Reading
    <3>5. AtTiles(memory, TilesLeft(s.read + n))
      BY <2>8, <2>9, <2>11 DEF TileHas
    <3>b. Orderly => Brush(s, rect, n, items, memory)
      <4>1. TileHas(s.read, n, TilePieces(TileAt(s.read).of))
        BY <2>11, <2>c
      <4>2. Handling(s, e, "hextile", "hextile")
        BY <1>2, <2>4
      <4>3. Orderly =>
              Brush(s, "hextile", n, TileItems(TileAt(s.read).of, TileAt(s.read).n), memory)
        BY <1>2, <2>6, <2>a, <4>1, <4>2, HextileBrush
      <4> QED
        BY <2>4, <2>b, <4>3
    <3>6. CASE left = 1
      <4>1. RectDone(items) /\ dec' = memory
        BY <3>1, <3>6
      <4>2. s.read + n = LenOf(rect)
        BY <2>5, <3>3, <3>6
      <4>3. Idle(dec') /\ DOMAIN dec' = DecFields
        <5>1. left - 1 = 0
          BY <3>6
        <5> QED
          BY <2>9, <4>1, <5>1 DEF Idle, AtTiles
      <4>4. Orderly => Brush(s, rect, n, items, dec')
        BY <3>b, <4>1
      <4> QED
        BY <1>2, <1>3, <2>12, <3>4, <4>1, <4>2, <4>3, <4>4, Ends
    <3>7. CASE left # 1
      <4>1. RectGoesOn(items, memory, TRUE) /\ TRUE \in BOOLEAN
        BY <3>1, <3>7
      <4>2. s.read + n <= LenOf(rect)
        BY <2>5, <3>3
      <4>3. s.read + n \in TileStarts
        BY <3>3, <3>7
      <4>4. Doing(rect, s.read + n, memory)
        BY <2>4, <3>5, <4>3, HextileDoing
      <4> QED
        BY <1>2, <2>9, <2>12, <3>4, <3>b, <4>1, <4>2, <4>4, Continues
    <3> QED
      BY <3>6, <3>7
  <2> QED
    BY <2>13, <2>14
<1> QED
  BY <1>7, <1>8, <1>9

-----------------------------------------------------------------------------
(* Tight and TightPNG *)

TightRects ==
  {"tightFill", "tightJpeg", "tightCopy", "tightFew", "tightPalette", "tightGradient",
   "tightPng", "pngInTight"}
ControlOf(rect) ==
  CASE rect = "tightFill" -> "fill"
    [] rect = "tightJpeg" -> "jpeg"
    [] rect \in {"tightPng", "pngInTight"} -> "png"
    [] rect \in {"tightCopy", "tightFew"} -> "basic"
    [] OTHER -> "filtered"

\* What is remembered in one of them, after k pieces.
InFilled(rect, k, d) ==
  k = 2 /\ rect = "tightFill" /\ InTight(d, "fill", "none", 0, FALSE)
InImage(rect, k, d) ==
  \/ k = 2 /\ rect = "tightJpeg" /\ InTight(d, "jpeg", "none", 0, FALSE)
  \/ k = 3 /\ rect = "tightJpeg" /\ InTight(d, "jpeg", "none", 0, TRUE)
  \/ k = 2 /\ rect = "tightPng" /\ InTight(d, "png", "none", 0, FALSE)
  \/ k = 3 /\ rect = "tightPng" /\ InTight(d, "png", "none", 0, TRUE)
  \/ k = 2 /\ rect = "pngInTight" /\ InTight(d, "png", "none", 0, FALSE)
InBasic(rect, k, d) ==
  \/ k = 2 /\ rect \in {"tightCopy", "tightFew"} /\ InTight(d, "basic", "none", 0, FALSE)
  \/ k = 2 /\ rect \in {"tightCopy", "tightFew"} /\ InTight(d, "basic", "copy", 0, FALSE)
  \/ k = 3 /\ rect = "tightCopy" /\ InTight(d, "basic", "copy", 0, TRUE)
InFiltered(rect, k, d) ==
  \/ /\ k = 2 /\ rect \in {"tightPalette", "tightGradient"}
     /\ InTight(d, "filtered", "none", 0, FALSE)
  \/ k = 3 /\ rect = "tightGradient" /\ InTight(d, "filtered", "gradient", 0, FALSE)
  \/ k = 3 /\ rect = "tightPalette" /\ InTight(d, "filtered", "palette", 0, FALSE)
  \/ k = 5 /\ rect = "tightPalette" /\ InTight(d, "filtered", "palette", 2, FALSE)
  \/ k = 6 /\ rect = "tightPalette" /\ InTight(d, "filtered", "palette", 2, TRUE)

LEMMA TightDoing ==
  ASSUME NEW rect \in TightRects, NEW k, NEW d
  PROVE  Doing(rect, k, d) <=>
           \/ k = 1 /\ Idle(d)
           \/ InFilled(rect, k, d) \/ InImage(rect, k, d)
           \/ InBasic(rect, k, d) \/ InFiltered(rect, k, d)
<1>1. CASE rect = "tightFill"
  BY <1>1 DEF Doing, InFilled, InImage, InBasic, InFiltered
<1>2. CASE rect \in {"tightJpeg", "tightPng", "pngInTight"}
  BY <1>2 DEF Doing, InFilled, InImage, InBasic, InFiltered
<1>3. CASE rect \in {"tightCopy", "tightFew"}
  BY <1>3 DEF Doing, InFilled, InImage, InBasic, InFiltered
<1>4. CASE rect \in {"tightPalette", "tightGradient"}
  BY <1>4 DEF Doing, InFilled, InImage, InBasic, InFiltered
<1> QED
  BY <1>1, <1>2, <1>3, <1>4 DEF TightRects

\* What a decoder has to keep to forget all in the end.
Lean(d) ==
  d.lines = 0 /\ d.subrects = 0 /\ d.tiles = 0 /\ d.zLength = FALSE

LEMMA TightIsLean ==
  ASSUME NEW rect \in TightRects, NEW k, NEW d, Doing(rect, k, d)
  PROVE  Lean(d)
<1>1. CASE Idle(d)
  BY <1>1 DEF Idle, Remembers, Lean
<1>2. ASSUME NEW ctl, NEW filter, NEW numColors, NEW len, InTight(d, ctl, filter, numColors, len)
      PROVE  Lean(d)
  BY <1>2 DEF InTight, Remembers, Lean
<1> QED
  BY <1>1, <1>2, TightDoing, Zenon DEF InFilled, InImage, InBasic, InFiltered

\* The control byte tells which of the four it is.
LEMMA ControlTells ==
  ASSUME NEW rect \in TightRects, NEW k, NEW d, Doing(rect, k, d)
  PROVE  /\ d.ctl = "none" => k = 1 /\ Idle(d)
         /\ d.ctl = "fill" => InFilled(rect, k, d)
         /\ d.ctl \in {"jpeg", "png"} => InImage(rect, k, d)
         /\ d.ctl = "basic" => InBasic(rect, k, d)
         /\ d.ctl = "filtered" => InFiltered(rect, k, d)
<1>1. Idle(d) => d.ctl = "none"
  BY DEF Idle, Remembers
<1>2. \A ctl, filter, numColors, len : InTight(d, ctl, filter, numColors, len) => d.ctl = ctl
  BY DEF InTight, Remembers
<1>3. InFilled(rect, k, d) => d.ctl = "fill"
  BY <1>2, Zenon DEF InFilled
<1>4. InImage(rect, k, d) => d.ctl \in {"jpeg", "png"}
  BY <1>2, Zenon DEF InImage
<1>5. InBasic(rect, k, d) => d.ctl = "basic"
  BY <1>2, Zenon DEF InBasic
<1>6. InFiltered(rect, k, d) => d.ctl = "filtered"
  BY <1>2, Zenon DEF InFiltered
<1> QED
  BY <1>1, <1>3, <1>4, <1>5, <1>6, TightDoing

LEMMA TightHandled ==
  ASSUME StreamInv, AtTight
  PROVE  /\ running /\ fbu.enc \in {"tight", "tightPng"}
         /\ \E s, e, rect : /\ Handling(s, e, rect, fbu.enc) /\ rect \in TightRects
                            /\ Doing(rect, s.read, dec) /\ fbu.size = SizeOf(rect)
                            /\ (fbu.enc = "tight" <=> rect # "tightPng")
                            /\ rect \notin DOMAIN NewSize /\ rect # "lastRect"
<1>1. PICK enc \in {"tight", "tightPng"} : At(enc)
  BY DEF AtTight
<1>2. fbu.enc = enc /\ enc # "none"
  BY <1>1 DEF At
<1>3. PICK s, e, rect : running /\ Handling(s, e, rect, enc)
  BY <1>1, <1>2, Handled
<1>4. rect \in TightRects /\ (enc = "tight" <=> rect # "tightPng")
  BY <1>1, <1>3, Encodings DEF Handling, TightRects
<1>5. rect \notin DOMAIN NewSize /\ rect # "lastRect"
  BY <1>4, ResizesAre DEF TightRects
<1>6. Doing(rect, s.read, dec) /\ fbu.size = SizeOf(rect)
  BY <1>3, InPlace
<1> QED
  BY <1>1, <1>2, <1>3, <1>4, <1>5, <1>6

LEMMA TightControls ==
  ASSUME NEW rect \in TightRects
  PROVE  /\ RectPieces(rect)[2].kind = "control" /\ RectPieces(rect)[2].of = ControlOf(rect)
         /\ LenOf(rect) \in {3, 4, 7} /\ SizeOf(rect) \in {1, 2}
<1>1. CASE rect \in {"tightFill", "tightJpeg"}
  <2>1. RectPieces(rect)[2].kind = "control" /\ RectPieces(rect)[2].of = ControlOf(rect)
    BY <1>1, TightFillHas, TightJpegHas DEF Later, ControlOf
  <2> QED
    BY <1>1, <2>1, Heads DEF Starts
<1>2. CASE rect \in {"tightPng", "pngInTight"}
  <2>1. RectPieces(rect)[2].kind = "control" /\ RectPieces(rect)[2].of = ControlOf(rect)
    BY <1>2, TightPngHas, PngInTightHas DEF Later, ControlOf
  <2> QED
    BY <1>2, <2>1, Heads DEF Starts
<1>3. CASE rect \in {"tightCopy", "tightFew"}
  <2>1. RectPieces(rect)[2].kind = "control" /\ RectPieces(rect)[2].of = ControlOf(rect)
    BY <1>3, TightCopyHas, TightFewHas DEF Later, ControlOf
  <2> QED
    BY <1>3, <2>1, Heads DEF Starts
<1>4. CASE rect \in {"tightPalette", "tightGradient"}
  <2>1. RectPieces(rect)[2].kind = "control" /\ RectPieces(rect)[2].of = ControlOf(rect)
    BY <1>4, TightPaletteHas, TightGradientHas DEF Later, ControlOf
  <2> QED
    BY <1>4, <2>1, Heads DEF Starts
<1> QED
  BY <1>1, <1>2, <1>3, <1>4 DEF TightRects

LEMMA TightDraws ==
  ASSUME NEW rect \in TightRects
  PROVE  rect \notin Direct /\ rect \notin HaveTables
BY DEF TightRects, Direct, HaveTables

LEMMA TightControlKeepsStep ==
  ASSUME StreamInv, TightControl
  PROVE  StreamInv'
<1>1. AtTight /\ dec.ctl = "none"
  BY DEF TightControl
<1>2. PICK s, e, rect : /\ running /\ Handling(s, e, rect, fbu.enc) /\ rect \in TightRects
                        /\ Doing(rect, s.read, dec)
  BY <1>1, TightHandled
<1> DEFINE memory == [dec EXCEPT !.ctl = wire[1].of]
<1>3. Remember(<<"control">>, memory)
  BY DEF TightControl
<1>4. s.read = 1 /\ Idle(dec)
  BY <1>1, <1>2, ControlTells
<1>5. s.read < LenOf(rect) /\ RectPieces(rect)[s.read + 1].kind = "control"
      /\ RectPieces(rect)[s.read + 1].of = ControlOf(rect) /\ s.read + 1 = 2
  BY <1>2, <1>4, TightControls
<1>6. DOMAIN dec = DecFields
  BY DEF StreamInv, StreamTypes, DecTypes
<1>7. DOMAIN memory = DecFields /\ InTight(memory, wire[1].of, "none", 0, FALSE)
  BY <1>4, <1>6 DEF Idle, Remembers, InTight, DecFields
<1>b. SameTables(memory)
  BY <1>6 DEF SameTables, DecFields
<1> HIDE DEF memory
<1>c. Orderly => Brush(s, rect, 1, <<>>, memory)
  <2>1. s.read + 1 < LenOf(rect) /\ 1 \in Nat
    BY <1>2, <1>4, TightControls
  <2> QED
    BY <1>2, <1>b, <2>1, TightDraws, NotYet
<1>8. ASSUME ~ Lacks(1)
      PROVE  Doing(rect, s.read + 1, memory)
  <2>1. wire[1].of = ControlOf(rect)
    BY <1>2, <1>5, <1>8, Peek
  <2>2. InTight(memory, ControlOf(rect), "none", 0, FALSE)
    BY <1>7, <2>1
  <2>3. CASE rect = "tightFill"
    <3>1. InFilled(rect, 2, memory)
      BY <2>2, <2>3 DEF InFilled, ControlOf
    <3> QED
      BY <1>2, <1>5, <3>1, TightDoing
  <2>4. CASE rect \in {"tightJpeg", "tightPng", "pngInTight"}
    <3>1. InImage(rect, 2, memory)
      BY <2>2, <2>4 DEF InImage, ControlOf
    <3> QED
      BY <1>2, <1>5, <3>1, TightDoing
  <2>5. CASE rect \in {"tightCopy", "tightFew"}
    <3>1. InBasic(rect, 2, memory)
      BY <2>2, <2>5 DEF InBasic, ControlOf
    <3> QED
      BY <1>2, <1>5, <3>1, TightDoing
  <2>6. CASE rect \in {"tightPalette", "tightGradient"}
    <3>1. InFiltered(rect, 2, memory)
      BY <2>2, <2>6 DEF InFiltered, ControlOf
    <3> QED
      BY <1>2, <1>5, <3>1, TightDoing
  <2> QED
    BY <1>2, <2>3, <2>4, <2>5, <2>6 DEF TightRects
<1> QED
  BY <1>2, <1>3, <1>5, <1>7, <1>8, <1>c, Remembering

LEMMA TightEnds ==
  ASSUME StreamInv, running, NEW s, NEW e, NEW rect \in TightRects, NEW enc,
         Handling(s, e, rect, enc), NEW n \in Nat \ {0}, Moves(s, e, n),
         s.read + n = LenOf(rect), NEW items, TightDone(items),
         DrawsAll(rect, items, s.ink.tables)
  PROVE  StreamInv'
<1>1. RectDone(items)
      /\ dec' = [dec EXCEPT !.ctl = "none", !.filter = "none", !.numColors = 0, !.len = FALSE]
  BY DEF TightDone
<1>2. Lean(dec)
  BY InPlace, TightIsLean
<1>3. DOMAIN dec = DecFields
  BY DEF StreamInv, StreamTypes, DecTypes
<1>4. Idle(dec') /\ DOMAIN dec' = DecFields /\ SameTables(dec')
  BY <1>1, <1>2, <1>3 DEF Idle, Remembers, Lean, DecFields, SameTables
<1>5. rect # "lastRect" /\ rect \notin DOMAIN NewSize
  BY ResizesAre DEF TightRects
<1> QED
  BY <1>1, <1>4, <1>5, TightDraws, EndsDrawn

-----------------------------------------------------------------------------
(* The data of a rectangle in Tight *)

\* The last piece.
LEMMA TightLast ==
  ASSUME StreamInv, running, NEW s, NEW e, NEW rect \in TightRects, NEW enc,
         Handling(s, e, rect, enc), s.read + 1 = LenOf(rect), s.read < LenOf(rect), NEW kind,
         RectPieces(rect)[s.read + 1].kind = kind,
         \/ Waits
         \/ Reads(<<kind>>)
            /\ \E items : TightDone(items) /\ DrawsAll(rect, items, s.ink.tables)
  PROVE  StreamInv'
<1>1. CASE Waits
  BY <1>1, RectWaits
<1>2. ASSUME Reads(<<kind>>), NEW items, TightDone(items), DrawsAll(rect, items, s.ink.tables)
      PROVE  StreamInv'
  <2>1. Moves(s, e, 1) /\ 1 \in Nat \ {0}
    BY <1>2, ReadsOne
  <2> QED
    BY <1>2, <2>1, TightEnds
<1> QED
  BY <1>1, <1>2

\* The length of the data.
LEMMA LengthKeepsStep ==
  ASSUME StreamInv, running, NEW s, NEW e, NEW rect \in TightRects, NEW enc,
         Handling(s, e, rect, enc), s.read + 1 < LenOf(rect),
         RectPieces(rect)[s.read + 1].kind = "length", DataLength,
         Doing(rect, s.read + 1, [dec EXCEPT !.len = TRUE])
  PROVE  StreamInv'
<1> DEFINE memory == [dec EXCEPT !.len = TRUE]
<1>1. Remember(<<"length">>, memory)
  BY DEF DataLength
<1>2. DOMAIN memory = DecFields
  BY DEF StreamInv, StreamTypes, DecTypes
<1>3. Doing(rect, s.read + 1, memory)
  OBVIOUS
<1>4. SameTables(memory)
  BY DEF StreamInv, StreamTypes, DecTypes, SameTables, DecFields
<1> HIDE DEF memory
<1>5. Orderly => Brush(s, rect, 1, <<>>, memory)
  BY <1>4, TightDraws, NotYet
<1>6. s.read < LenOf(rect)
  BY InPlace
<1> QED
  BY <1>1, <1>2, <1>3, <1>5, <1>6, Remembering

LEMMA TightFillKeepsStep ==
  ASSUME StreamInv, TightFill
  PROVE  StreamInv'
<1>1. AtTight /\ dec.ctl = "fill"
  BY DEF TightFill
<1>2. PICK s, e, rect : /\ running /\ Handling(s, e, rect, fbu.enc) /\ rect \in TightRects
                        /\ Doing(rect, s.read, dec)
  BY <1>1, TightHandled
<1>3. rect = "tightFill" /\ s.read = 2
  BY <1>1, <1>2, ControlTells DEF InFilled
<1>4. LenOf(rect) = 3
  BY <1>3, Heads DEF Starts
<1>5. RectPieces(rect)[3].kind = "colour"
  BY <1>3, TightFillHas DEF Later
<1>6. s.read + 1 = LenOf(rect) /\ s.read < LenOf(rect)
      /\ RectPieces(rect)[s.read + 1].kind = "colour"
  BY <1>3, <1>4, <1>5
<1> DEFINE items == Fill(<<Draw("fill", <<>>)>>)
<1>7. Waits \/ (Reads(<<"colour">>) /\ TightDone(items))
  BY Zenon DEF TightFill
<1>8. DrawsAll(rect, items, s.ink.tables)
  <2>1. items = <<[type |-> "fill", draws |-> <<Draw("fill", <<>>)>>, img |-> "loaded"]>>
    BY DEF Fill
  <2>2. RectDraws(rect, s.ink.tables) = <<Draw("fill", <<>>)>>
    BY <1>3 DEF RectDraws
  <2>3. "fill" \in Whats /\ <<>> \in Seq(Nat)
    BY DEF Whats
  <2> HIDE DEF items
  <2> QED
    BY <2>1, <2>2, <2>3, OnePut
<1> HIDE DEF items
<1>9. \/ Waits
      \/ /\ Reads(<<"colour">>)
         /\ \E it : TightDone(it) /\ DrawsAll(rect, it, s.ink.tables)
  BY <1>7, <1>8
<1> QED
  BY <1>2, <1>6, <1>9, TightLast

LEMMA TightImageKeepsStep ==
  ASSUME StreamInv, TightImage
  PROVE  StreamInv'
<1>1. AtTight /\ dec.ctl \in {"jpeg", "png"} \ IllegalFor(fbu.enc)
  BY DEF TightImage
<1>2. PICK s, e, rect : /\ running /\ Handling(s, e, rect, fbu.enc) /\ rect \in TightRects
                        /\ Doing(rect, s.read, dec) /\ (fbu.enc = "tight" <=> rect # "tightPng")
  BY <1>1, TightHandled
<1>3. InImage(rect, s.read, dec) /\ rect # "pngInTight"
  <2>1. InImage(rect, s.read, dec)
    BY <1>1, <1>2, ControlTells
  <2>2. CASE rect = "pngInTight"
    <3>1. dec.ctl = "png"
      BY <2>1, <2>2 DEF InImage, InTight, Remembers
    <3> QED
      BY <1>1, <1>2, <2>2, <3>1 DEF IllegalFor
  <2> QED
    BY <2>1, <2>2
<1>4. rect \in {"tightJpeg", "tightPng"} /\ s.read \in {2, 3}
  BY <1>3 DEF InImage
<1>5. LenOf(rect) = 4
  BY <1>4, Heads DEF Starts
<1>6. RectPieces(rect)[3].kind = "length" /\ RectPieces(rect)[4].kind = "data"
  <2>1. CASE rect = "tightJpeg"
    BY <2>1, TightJpegHas DEF Later
  <2>2. CASE rect = "tightPng"
    BY <2>2, TightPngHas DEF Later
  <2> QED
    BY <1>4, <2>1, <2>2
<1>7. CASE DataLength
  <2>1. dec.len = FALSE /\ s.read = 2
        /\ \E ctl \in {"jpeg", "png"} :
             ControlOf(rect) = ctl /\ InTight(dec, ctl, "none", 0, FALSE)
    <3>1. ~ dec.len
      BY <1>7 DEF DataLength
    <3> QED
      BY <1>3, <3>1 DEF InImage, InTight, Remembers, ControlOf
  <2>2. PICK ctl \in {"jpeg", "png"} :
          ControlOf(rect) = ctl /\ InTight(dec, ctl, "none", 0, FALSE)
    BY <2>1
  <2> DEFINE memory == [dec EXCEPT !.len = TRUE]
  <2>3. InTight(memory, ctl, "none", 0, TRUE)
    BY <2>2 DEF InTight, Remembers, StreamInv, StreamTypes, DecTypes, DecFields
  <2> HIDE DEF memory
  <2>4. InImage(rect, 3, memory)
    BY <1>4, <2>2, <2>3 DEF InImage, ControlOf
  <2>5. s.read + 1 = 3 /\ s.read < LenOf(rect)
    BY <1>5, <2>1
  <2>6. Doing(rect, s.read + 1, memory) /\ s.read + 1 < LenOf(rect)
    BY <1>2, <1>5, <2>4, <2>5, TightDoing
  <2>7. RectPieces(rect)[s.read + 1].kind = "length"
    BY <1>6, <2>5
  <2> QED
    BY <1>2, <1>7, <2>6, <2>7, LengthKeepsStep DEF memory
<1> DEFINE AtEnd == \/ Waits
                   \/ /\ Reads(<<"data">>)
                      /\ \E items : TightDone(items) /\ DrawsAll(rect, items, s.ink.tables)
<1>8. CASE dec.len /\ AtEnd
  <2>1. s.read = 3
    BY <1>3, <1>8 DEF InImage, InTight, Remembers
  <2>2. s.read + 1 = LenOf(rect) /\ s.read < LenOf(rect)
        /\ RectPieces(rect)[s.read + 1].kind = "data"
    BY <1>5, <1>6, <2>1
  <2> QED
    BY <1>2, <1>8, <2>2, TightLast
<1>9. DataLength \/ (dec.len /\ AtEnd)
  <2>1. ~ Empty
    BY <1>2, <1>4, InPlace, Heads DEF Starts, Empty
  <2>2. \/ DataLength
        \/ /\ dec.len
           /\ \/ Waits
              \/ /\ Reads(<<"data">>)
                 /\ \E state \in {"loading", "loaded"} :
                      TightDone(Image(Draw(dec.ctl, <<>>), state))
    BY <2>1, Zenon DEF TightImage, ImageRect
  <2>3. ASSUME NEW state \in {"loading", "loaded"}
        PROVE  DrawsAll(rect, Image(Draw(dec.ctl, <<>>), state), s.ink.tables)
    <3> DEFINE items == Image(Draw(dec.ctl, <<>>), state)
    <3>1. items = <<[type |-> "img", draws |-> <<Draw(dec.ctl, <<>>)>>, img |-> state]>>
      BY DEF Image
    <3>2. dec.ctl \in {"jpeg", "png"} /\ (rect = "tightJpeg" <=> dec.ctl = "jpeg")
      BY <1>3 DEF InImage, InTight, Remembers
    <3>3. RectDraws(rect, s.ink.tables) = <<Draw(dec.ctl, <<>>)>>
      BY <1>4, <3>2 DEF RectDraws
    <3>4. dec.ctl \in Whats /\ <<>> \in Seq(Nat) /\ rect \in Images
      BY <1>4, <3>2 DEF Whats, Images
    <3> HIDE DEF items
    <3>5. DrawsAll(rect, items, s.ink.tables)
      BY <3>1, <3>3, <3>4, OnePut
    <3> QED
      BY <3>5 DEF items
  <2> QED
    BY <2>2, <2>3, Zenon
<1> QED
  BY <1>7, <1>8, <1>9

LEMMA TightFilterKeepsStep ==
  ASSUME StreamInv, TightFilter
  PROVE  StreamInv'
<1>1. AtTight /\ dec.ctl \in {"basic", "filtered"} /\ dec.filter = "none"
  BY DEF TightFilter, Basic
<1>2. PICK s, e, rect : /\ running /\ Handling(s, e, rect, fbu.enc) /\ rect \in TightRects
                        /\ Doing(rect, s.read, dec)
  BY <1>1, TightHandled
<1>3. DOMAIN dec = DecFields
  BY DEF StreamInv, StreamTypes, DecTypes
<1>4. LenOf(rect) \in {3, 4, 7}
  BY <1>2, TightControls
<1>5. CASE dec.ctl = "basic"
  <2> DEFINE memory == [dec EXCEPT !.filter = "copy"]
  <2>1. RectGoesOn(<<>>, memory, TRUE) /\ UNCHANGED streamVars
    BY <1>5 DEF TightFilter
  <2>2. InBasic(rect, s.read, dec)
    BY <1>2, <1>5, ControlTells
  <2>3. s.read = 2 /\ rect \in {"tightCopy", "tightFew"}
        /\ InTight(dec, "basic", "none", 0, FALSE)
    BY <1>1, <2>2 DEF InBasic, InTight, Remembers
  <2>4. DOMAIN memory = DecFields /\ InTight(memory, "basic", "copy", 0, FALSE)
    BY <1>3, <2>3 DEF InTight, Remembers, DecFields
  <2>b. SameTables(memory)
    BY <1>3 DEF SameTables, DecFields
  <2> HIDE DEF memory
  <2>5. InBasic(rect, 2, memory)
    BY <2>3, <2>4 DEF InBasic
  <2>6. s.read + 0 = 2 /\ s.read + 0 <= LenOf(rect) /\ 0 \in Nat /\ TRUE \in BOOLEAN
    BY <1>4, <2>3
  <2>7. Doing(rect, s.read + 0, memory)
    BY <1>2, <2>5, <2>6, TightDoing
  <2>8. Moves(s, e, 0)
    <3>1. Remaining(s, e)
      BY <1>2, InPlace
    <3> QED
      BY <2>1, <3>1, Stays
  <2>9. Orderly => Brush(s, rect, 0, <<>>, memory)
    <3>1. s.read + 0 < LenOf(rect)
      BY <1>4, <2>3
    <3> QED
      BY <1>2, <2>b, <2>6, <3>1, TightDraws, NotYet
  <2>10. s.read + 0 = LenOf(rect) => TRUE
    OBVIOUS
  <2> QED
    BY <1>2, <2>1, <2>4, <2>6, <2>7, <2>8, <2>9, Continues
<1>6. CASE dec.ctl = "filtered"
  <2> DEFINE memory == [dec EXCEPT !.filter = wire[1].of]
  <2>1. Remember(<<"filter">>, memory)
    BY <1>6 DEF TightFilter
  <2>2. InFiltered(rect, s.read, dec)
    BY <1>2, <1>6, ControlTells
  <2>3. s.read = 2 /\ rect \in {"tightPalette", "tightGradient"}
        /\ InTight(dec, "filtered", "none", 0, FALSE)
    BY <1>1, <2>2 DEF InFiltered, InTight, Remembers
  <2>4. DOMAIN memory = DecFields /\ InTight(memory, "filtered", wire[1].of, 0, FALSE)
    BY <1>3, <2>3 DEF InTight, Remembers, DecFields
  <2>b. SameTables(memory)
    BY <1>3 DEF SameTables, DecFields
  <2> HIDE DEF memory
  <2>5. /\ RectPieces(rect)[3].kind = "filter"
        /\ RectPieces(rect)[3].of = IF rect = "tightPalette" THEN "palette" ELSE "gradient"
    <3>1. CASE rect = "tightPalette"
      BY <3>1, TightPaletteHas DEF Later
    <3>2. CASE rect = "tightGradient"
      BY <3>2, TightGradientHas DEF Later
    <3> QED
      BY <2>3, <3>1, <3>2
  <2>6. s.read + 1 = 3 /\ s.read < LenOf(rect)
    BY <1>4, <2>3
  <2>7. ASSUME ~ Lacks(1)
        PROVE  Doing(rect, s.read + 1, memory)
    <3>1. wire[1] = RectPieces(rect)[3]
      BY <1>2, <2>6, <2>7, Peek
    <3>2. InFiltered(rect, 3, memory)
      BY <2>3, <2>4, <2>5, <3>1 DEF InFiltered
    <3> QED
      BY <1>2, <2>6, <3>2, TightDoing
  <2>8. Orderly => Brush(s, rect, 1, <<>>, memory)
    <3>1. CASE rect = "tightPalette"
      <4>1. s.read + 1 < LenOf(rect) /\ 1 \in Nat
        BY <2>3, <3>1, Heads DEF Starts
      <4> QED
        BY <1>2, <2>b, <4>1, TightDraws, NotYet
    <3>2. CASE rect = "tightGradient"
      <4>1. Remaining(s, e) /\ InRect(s, rect) /\ rect \in Undrawn
        BY <1>2, <3>2, InPlace DEF Undrawn
      <4> QED
        BY <2>b, <4>1, BrushNothing
    <3> QED
      BY <2>3, <3>1, <3>2
  <2> QED
    BY <1>2, <2>1, <2>4, <2>5, <2>6, <2>7, <2>8, Remembering
<1> QED
  BY <1>1, <1>5, <1>6

LEMMA TightPaletteKeepsStep ==
  ASSUME StreamInv, TightPalette
  PROVE  StreamInv'
<1>1. AtTight /\ dec.ctl \in {"basic", "filtered"} /\ dec.filter = "palette" /\ dec.numColors = 0
  BY DEF TightPalette, Basic
<1>2. PICK s, e, rect : /\ running /\ Handling(s, e, rect, fbu.enc) /\ rect \in TightRects
                        /\ Doing(rect, s.read, dec)
  BY <1>1, TightHandled
<1>3. DOMAIN dec = DecFields
  BY DEF StreamInv, StreamTypes, DecTypes
<1>4. rect = "tightPalette" /\ s.read = 3 /\ InTight(dec, "filtered", "palette", 0, FALSE)
  <2>1. InBasic(rect, s.read, dec) \/ InFiltered(rect, s.read, dec)
    BY <1>1, <1>2, ControlTells
  <2>2. ~ InBasic(rect, s.read, dec)
    BY <1>1 DEF InBasic, InTight, Remembers
  <2>3. InFiltered(rect, s.read, dec)
    BY <2>1, <2>2
  <2> QED
    BY <1>1, <2>3 DEF InFiltered, InTight, Remembers
<1>5. LenOf(rect) = 7
  BY <1>4, Heads DEF Starts
<1>6. /\ RectPieces(rect)[4].kind = "numColors" /\ RectPieces(rect)[4].n = 2
      /\ RectPieces(rect)[5].kind = "palette"
  BY <1>4, TightPaletteHas DEF Later
<1>7. s.read < LenOf(rect) /\ s.read + 2 <= LenOf(rect) /\ s.read + 1 = 4 /\ s.read + 2 = 5
  BY <1>4, <1>5
<1>8. CASE Waits
  BY <1>2, <1>7, <1>8, RectWaits
<1>9. CASE ~ Waits
  <2> DEFINE memory == [dec EXCEPT !.numColors = wire[1].n]
  <2>1. ~ Lacks(2) /\ Reads(<<"numColors", "palette">>) /\ RectGoesOn(<<>>, memory, TRUE)
    BY <1>9 DEF TightPalette
  <2>2. wire[1] = RectPieces(rect)[4]
    <3>1. ~ Lacks(1)
      BY <2>1 DEF Lacks, StreamInv, StreamTypes
    <3> QED
      BY <1>2, <1>7, <3>1, Peek
  <2>3. DOMAIN memory = DecFields /\ InTight(memory, "filtered", "palette", 2, FALSE)
    BY <1>3, <1>4, <1>6, <2>2 DEF InTight, Remembers, DecFields
  <2>b. SameTables(memory)
    BY <1>3 DEF SameTables, DecFields
  <2> HIDE DEF memory
  <2>4. Moves(s, e, 2)
    BY <1>2, <1>6, <1>7, <2>1, ReadsTwo
  <2>5. InFiltered(rect, 5, memory)
    BY <1>4, <2>3 DEF InFiltered
  <2>6. Doing(rect, s.read + 2, memory)
    BY <1>2, <1>7, <2>5, TightDoing
  <2>7. 2 \in Nat /\ TRUE \in BOOLEAN
    OBVIOUS
  <2>8. Orderly => Brush(s, rect, 2, <<>>, memory)
    <3>1. s.read + 2 < LenOf(rect)
      BY <1>5, <1>7
    <3> QED
      BY <1>2, <2>b, <2>7, <3>1, TightDraws, NotYet
  <2> QED
    BY <1>2, <1>7, <2>1, <2>3, <2>4, <2>6, <2>7, <2>8, Continues
<1> QED
  BY <1>8, <1>9

LEMMA PixelsDraw ==
  ASSUME NEW rect \in {"tightCopy", "tightFew", "tightPalette"}, NEW tb
  PROVE  DrawsAll(rect, Blit(<<Draw("pixels", <<>>)>>), tb)
<1> DEFINE items == Blit(<<Draw("pixels", <<>>)>>)
<1>1. items = <<[type |-> "blit", draws |-> <<Draw("pixels", <<>>)>>, img |-> "loaded"]>>
  BY DEF Blit
<1>2. RectDraws(rect, tb) = <<Draw("pixels", <<>>)>>
  BY DEF RectDraws
<1>3. "pixels" \in Whats /\ <<>> \in Seq(Nat)
  BY DEF Whats
<1> HIDE DEF items
<1>4. DrawsAll(rect, items, tb)
  BY <1>1, <1>2, <1>3, OnePut
<1> QED
  BY <1>4 DEF items

LEMMA TightPixelsKeepsStep ==
  ASSUME StreamInv, TightPixels
  PROVE  StreamInv'
<1>1. AtTight /\ dec.ctl \in {"basic", "filtered"}
      /\ (dec.filter = "copy" \/ (dec.filter = "palette" /\ dec.numColors > 0))
  BY DEF TightPixels, Basic
<1>2. PICK s, e, rect : /\ running /\ Handling(s, e, rect, fbu.enc) /\ rect \in TightRects
                        /\ Doing(rect, s.read, dec) /\ fbu.size = SizeOf(rect)
  BY <1>1, TightHandled
<1>3. DOMAIN dec = DecFields
  BY DEF StreamInv, StreamTypes, DecTypes
<1>4. ~ Empty
  <2>1. SizeOf(rect) = 1 \/ SizeOf(rect) = 2
    BY <1>2, TightControls
  <2> QED
    BY <1>2, <2>1 DEF Empty
<1>5. \/ /\ s.read = 2 /\ rect \in {"tightCopy", "tightFew"}
         /\ InTight(dec, "basic", "copy", 0, FALSE)
      \/ s.read = 3 /\ rect = "tightCopy" /\ InTight(dec, "basic", "copy", 0, TRUE)
      \/ s.read = 5 /\ rect = "tightPalette" /\ InTight(dec, "filtered", "palette", 2, FALSE)
      \/ s.read = 6 /\ rect = "tightPalette" /\ InTight(dec, "filtered", "palette", 2, TRUE)
  <2>1. CASE InBasic(rect, s.read, dec)
    BY <1>1, <2>1 DEF InBasic, InTight, Remembers
  <2>2. CASE InFiltered(rect, s.read, dec)
    BY <1>1, <2>2 DEF InFiltered, InTight, Remembers
  <2> QED
    BY <1>1, <1>2, <2>1, <2>2, ControlTells
<1> DEFINE EndsWith(kind) ==
             \/ Waits
             \/ /\ Reads(<<kind>>)
                /\ \E items : TightDone(items) /\ DrawsAll(rect, items, s.ink.tables)
<1>b. DrawsAll(rect, Blit(<<Draw("pixels", <<>>)>>), s.ink.tables)
  BY <1>5, PixelsDraw
<1>6. CASE fbu.size = 1
  <2>1. EndsWith("pixels")
    BY <1>4, <1>6, <1>b, Zenon DEF TightPixels
  <2>2. rect = "tightFew"
    <3>1. SizeOf("tightCopy") = 2 /\ SizeOf("tightPalette") = 2
      BY Heads DEF Starts
    <3> QED
      <4>1. rect # "tightCopy" /\ rect # "tightPalette"
        <5>1. SizeOf(rect) = 1
          BY <1>2, <1>6, Zenon
        <5>2. SizeOf(rect) # SizeOf("tightCopy") /\ SizeOf(rect) # SizeOf("tightPalette")
          BY <3>1, <5>1
        <5> QED
          BY <5>2, Zenon
      <4> QED
        BY <1>5, <4>1
  <2>3. s.read = 2
    BY <1>5, <2>2
  <2>4. LenOf(rect) = 3
    BY <2>2, Heads DEF Starts
  <2>5. RectPieces(rect)[3].kind = "pixels"
    BY <2>2, TightFewHas DEF Later
  <2>6. s.read + 1 = LenOf(rect) /\ s.read < LenOf(rect)
        /\ RectPieces(rect)[s.read + 1].kind = "pixels"
    BY <2>3, <2>4, <2>5
  <2> QED
    BY <1>2, <2>1, <2>6, TightLast
<1>7. CASE fbu.size # 1
  <2>1. DataLength \/ (dec.len /\ EndsWith("data"))
    BY <1>4, <1>7, <1>b, Zenon DEF TightPixels
  <2>2. rect \in {"tightCopy", "tightPalette"}
    <3>1. SizeOf("tightFew") = 1
      BY Heads DEF Starts
    <3> QED
      BY <1>2, <1>5, <1>7, <3>1
  <2>3. IF rect = "tightCopy" THEN LenOf(rect) = 4 ELSE LenOf(rect) = 7
    BY <2>2, Heads DEF Starts
  <2>4. IF rect = "tightCopy"
        THEN RectPieces(rect)[3].kind = "length" /\ RectPieces(rect)[4].kind = "data"
        ELSE RectPieces(rect)[6].kind = "length" /\ RectPieces(rect)[7].kind = "data"
    <3>1. CASE rect = "tightCopy"
      BY <3>1, TightCopyHas DEF Later
    <3>2. CASE rect = "tightPalette"
      BY <3>2, TightPaletteHas DEF Later
    <3> QED
      BY <2>2, <3>1, <3>2
  <2>5. CASE DataLength
    <3> DEFINE memory == [dec EXCEPT !.len = TRUE]
    <3>1. ~ dec.len
      BY <2>5 DEF DataLength
    <3>2. CASE rect = "tightCopy"
      <4>1. s.read = 2 /\ InTight(dec, "basic", "copy", 0, FALSE)
        BY <1>5, <3>1, <3>2 DEF InTight, Remembers
      <4>2. InTight(memory, "basic", "copy", 0, TRUE)
        BY <1>3, <4>1 DEF InTight, Remembers, DecFields
      <4> HIDE DEF memory
      <4>3. InBasic(rect, 3, memory) /\ s.read + 1 = 3 /\ s.read + 1 < LenOf(rect)
        <5>1. InBasic(rect, 3, memory)
          BY <3>2, <4>2 DEF InBasic
        <5> QED
          BY <2>3, <3>2, <4>1, <5>1
      <4>4. Doing(rect, s.read + 1, memory)
        BY <1>2, <4>3, TightDoing
      <4>5. RectPieces(rect)[s.read + 1].kind = "length"
        BY <2>4, <3>2, <4>3
      <4> QED
        BY <1>2, <2>5, <4>3, <4>4, <4>5, LengthKeepsStep DEF memory
    <3>3. CASE rect = "tightPalette"
      <4>1. s.read = 5 /\ InTight(dec, "filtered", "palette", 2, FALSE)
        BY <1>5, <3>1, <3>3 DEF InTight, Remembers
      <4>2. InTight(memory, "filtered", "palette", 2, TRUE)
        BY <1>3, <4>1 DEF InTight, Remembers, DecFields
      <4> HIDE DEF memory
      <4>3. InFiltered(rect, 6, memory) /\ s.read + 1 = 6 /\ s.read + 1 < LenOf(rect)
        <5>1. InFiltered(rect, 6, memory)
          BY <3>3, <4>2 DEF InFiltered
        <5> QED
          BY <2>3, <3>3, <4>1, <5>1
      <4>4. Doing(rect, s.read + 1, memory)
        BY <1>2, <4>3, TightDoing
      <4>5. RectPieces(rect)[s.read + 1].kind = "length"
        BY <2>4, <3>3, <4>3
      <4> QED
        BY <1>2, <2>5, <4>3, <4>4, <4>5, LengthKeepsStep DEF memory
    <3> QED
      BY <2>2, <3>2, <3>3
  <2>6. CASE dec.len /\ EndsWith("data")
    <3>1. s.read = IF rect = "tightCopy" THEN 3 ELSE 6
      BY <1>5, <2>2, <2>6 DEF InTight, Remembers
    <3>2. s.read + 1 = LenOf(rect) /\ s.read < LenOf(rect)
          /\ RectPieces(rect)[s.read + 1].kind = "data"
      BY <2>2, <2>3, <2>4, <3>1
    <3> QED
      BY <1>2, <2>6, <3>2, TightLast
  <2> QED
    BY <2>1, <2>5, <2>6
<1> QED
  BY <1>6, <1>7

-----------------------------------------------------------------------------
(* JPEG *)

LEMMA LeastIs ==
  ASSUME NEW S \in SUBSET Int, NEW m \in S, \A x \in S : m <= x
  PROVE  Min(S) = m
<1>1. Min(S) \in S /\ \A x \in S : Min(S) <= x
  BY Zenon DEF Min
<1>2. Min(S) \in Int /\ m \in Int /\ Min(S) <= m /\ m <= Min(S)
  BY <1>1
<1> QED
  BY <1>2

\* The last segment, and no other, ends the file.
LEMMA JpegSegments ==
  ASSUME NEW rect \in {"jpeg", "jpegQuant", "jpegBare"}
  PROVE  /\ LenOf(rect) \in {3, 4, 6}
         /\ \A i \in 1 .. LenOf(rect) - 1 :
              /\ RectPieces(rect)[1 + i].kind = "segment"
              /\ RectPieces(rect)[1 + i].of = "end" <=> i = LenOf(rect) - 1
<1> DEFINE b == RectPieces(rect)
           Spells2(L) == \A i \in 1 .. L : /\ b[1 + i].kind = "segment"
                                           /\ b[1 + i].of = "end" <=> i = L
<1>1. CASE rect = "jpeg"
  <2>1. LenOf(rect) = 6
    BY <1>1, Heads DEF Starts
  <2>2. /\ b[2].kind = "segment" /\ b[3].kind = "segment" /\ b[4].kind = "segment"
        /\ b[5].kind = "segment" /\ b[6].kind = "segment"
        /\ b[2].of = "quant" /\ b[3].of = "quant" /\ b[4].of = "huffman" /\ b[5].of = "frame"
        /\ b[6].of = "end"
    BY <1>1, JpegHas DEF Later
  <2> HIDE DEF b
  <2>3. \A i \in 1 .. 5 : i = 1 \/ i = 2 \/ i = 3 \/ i = 4 \/ i = 5
    OBVIOUS
  <2>4. Spells2(5)
    BY <2>2, <2>3
  <2>5. LenOf(rect) - 1 = 5
    BY <2>1
  <2> QED
    BY <2>1, <2>4, <2>5 DEF b
<1>2. CASE rect = "jpegQuant"
  <2>1. LenOf(rect) = 4
    BY <1>2, Heads DEF Starts
  <2>2. /\ b[2].kind = "segment" /\ b[3].kind = "segment" /\ b[4].kind = "segment"
        /\ b[2].of = "quant" /\ b[3].of = "frame" /\ b[4].of = "end"
    BY <1>2, JpegQuantHas DEF Later
  <2> HIDE DEF b
  <2>3. \A i \in 1 .. 3 : i = 1 \/ i = 2 \/ i = 3
    OBVIOUS
  <2>4. Spells2(3)
    BY <2>2, <2>3
  <2>5. LenOf(rect) - 1 = 3
    BY <2>1
  <2> QED
    BY <2>1, <2>4, <2>5 DEF b
<1>3. CASE rect = "jpegBare"
  <2>1. LenOf(rect) = 3
    BY <1>3, Heads DEF Starts
  <2>2. /\ b[2].kind = "segment" /\ b[3].kind = "segment"
        /\ b[2].of = "frame" /\ b[3].of = "end"
    BY <1>3, JpegBareHas DEF Later
  <2> HIDE DEF b
  <2>3. \A i \in 1 .. 2 : i = 1 \/ i = 2
    OBVIOUS
  <2>4. Spells2(2)
    BY <2>2, <2>3
  <2>5. LenOf(rect) - 1 = 2
    BY <2>1
  <2> QED
    BY <2>1, <2>4, <2>5 DEF b
<1> QED
  BY <1>1, <1>2, <1>3

LEMMA ParsedIs ==
  ASSUME DOMAIN dec = DecFields, Idle(dec)
  PROVE  /\ DOMAIN Parsed = DecFields /\ Idle(Parsed)
         /\ Parsed.quant = TablesIn(Segments(FileEnd), "quant")
         /\ Parsed.huffman = TablesIn(Segments(FileEnd), "huffman")
         /\ Parsed.cachedQuant = Kept(dec.quant, dec.cachedQuant)
         /\ Parsed.cachedHuffman = Kept(dec.huffman, dec.cachedHuffman)
<1> DEFINE cachedQuant == Kept(dec.quant, dec.cachedQuant)
           cachedHuffman == Kept(dec.huffman, dec.cachedHuffman)
           quant == TablesIn(Segments(FileEnd), "quant")
           huffman == TablesIn(Segments(FileEnd), "huffman")
<1>1. Parsed = [dec EXCEPT !.cachedQuant = cachedQuant, !.cachedHuffman = cachedHuffman,
                           !.quant = quant, !.huffman = huffman]
  BY DEF Parsed
<1> HIDE DEF cachedQuant, cachedHuffman, quant, huffman
<1>2. DOMAIN Parsed = DecFields /\ Idle(Parsed)
  BY <1>1 DEF Idle, Remembers, DecFields
<1>3. /\ Parsed.quant = quant /\ Parsed.huffman = huffman
      /\ Parsed.cachedQuant = cachedQuant /\ Parsed.cachedHuffman = cachedHuffman
  BY <1>1 DEF DecFields
<1> QED
  BY <1>2, <1>3 DEF cachedQuant, cachedHuffman, quant, huffman

\* What a parse finds in the first n segments of the file.
JpegRects == {"jpeg", "jpegQuant", "jpegBare"}
Finds(rect, quant, huffman, whole) ==
  /\ rect # "jpeg" => huffman = <<>>
  /\ rect = "jpegBare" => quant = <<>>
  /\ whole /\ rect = "jpeg" => quant = <<1, 2>> /\ huffman = <<3>>
  /\ whole /\ rect = "jpegQuant" => quant = <<4>>

LEMMA ParseFinds ==
  ASSUME NEW rect \in JpegRects, NEW n \in Nat, n <= LenOf(rect) - 1,
         wire \in Seq(AllPieces), n <= Len(wire),
         \A i \in 1 .. n : wire[i] = RectPieces(rect)[1 + i]
  PROVE  Finds(rect, TablesIn(Segments(n), "quant"), TablesIn(Segments(n), "huffman"),
               n = LenOf(rect) - 1)
<1> DEFINE segments == SubSeq(wire, 1, n)
           b == RectPieces(rect)
<1>1. segments \in Seq(AllPieces) /\ Len(segments) = n /\ \A i \in 1 .. n : segments[i] = b[1 + i]
  <2>1. \A i \in 1 .. n : wire[i] \in AllPieces
    BY LenProperties, ElementOfSeq
  <2>2. Len(wire) \in Nat
    BY LenProperties
  <2> QED
    BY <2>1, <2>2, SubSeqProperties
<1> HIDE DEF segments, b
<1>2. ASSUME rect = "jpeg", n = LenOf(rect) - 1
      PROVE  TablesIn(segments, "quant") = <<1, 2>> /\ TablesIn(segments, "huffman") = <<3>>
  <2>1. n = 5
    BY <1>2, Heads DEF Starts
  <2>2. Len(segments) = 5 /\ \A i \in 1 .. 5 : segments[i] = RectPieces("jpeg")[i + 1]
    <3>1. b = RectPieces("jpeg")
      BY <1>2 DEF b
    <3>2. Len(segments) = 5 /\ \A i \in 1 .. 5 : segments[i] = b[1 + i]
      BY <1>1, <2>1
    <3>3. \A i \in 1 .. 5 : 1 + i = i + 1
      OBVIOUS
    <3> QED
      BY <3>1, <3>2, <3>3
  <2> QED
    BY <1>1, <2>2, JpegTables
<1>3. ASSUME rect = "jpegQuant", n = LenOf(rect) - 1
      PROVE  TablesIn(segments, "quant") = <<4>>
  <2>1. n = 3
    BY <1>3, Heads DEF Starts
  <2>2. Len(segments) = 3 /\ \A i \in 1 .. 3 : segments[i] = RectPieces("jpegQuant")[i + 1]
    <3>1. b = RectPieces("jpegQuant")
      BY <1>3 DEF b
    <3>2. Len(segments) = 3 /\ \A i \in 1 .. 3 : segments[i] = b[1 + i]
      BY <1>1, <2>1
    <3>3. \A i \in 1 .. 3 : 1 + i = i + 1
      OBVIOUS
    <3> QED
      BY <3>1, <3>2, <3>3
  <2> QED
    BY <1>1, <2>2, QuantTables
<1>4. ASSUME rect = "jpegQuant"
      PROVE  TablesIn(segments, "huffman") = <<>>
  <2>1. b[2].of = "quant" /\ b[3].of = "frame" /\ b[4].of = "end"
    BY <1>4, JpegQuantHas DEF Later, b
  <2>2. n <= 3
    BY <1>4, Heads DEF Starts
  <2>3. \A i \in 1 .. n : 1 + i = 2 \/ 1 + i = 3 \/ 1 + i = 4
    BY <2>2
  <2>4. \A i \in 1 .. n : b[1 + i].of # "huffman"
    BY <2>1, <2>3
  <2> QED
    BY <1>1, <2>4, NoTablesIn
<1>5. ASSUME rect = "jpegBare", NEW of \in {"quant", "huffman"}
      PROVE  TablesIn(segments, of) = <<>>
  <2>1. b[2].of = "frame" /\ b[3].of = "end"
    BY <1>5, JpegBareHas DEF Later, b
  <2>2. n <= 2
    BY <1>5, Heads DEF Starts
  <2>3. \A i \in 1 .. n : 1 + i = 2 \/ 1 + i = 3
    BY <2>2
  <2>4. \A i \in 1 .. n : b[1 + i].of # of
    BY <1>5, <2>1, <2>3
  <2> QED
    BY <1>1, <2>4, NoTablesIn
<1> QED
  BY <1>2, <1>3, <1>4, <1>5, Zenon DEF Finds, Segments, segments, JpegRects

\* The tables are kept for the files that have none.
LEMMA ParseMatches ==
  ASSUME NEW s, NEW e, Painted(s, e), NEW rect \in JpegRects, s.ink.rect = rect, NEW whole,
         NEW memory, Finds(rect, memory.quant, memory.huffman, whole),
         memory.cachedQuant = Kept(dec.quant, dec.cachedQuant),
         memory.cachedHuffman = Kept(dec.huffman, dec.cachedHuffman)
  PROVE  TablesMatch(s.ink, whole, memory)
<1>1. /\ FileTables(s.ink)
      /\ rect # "jpeg" => Kept(dec.huffman, dec.cachedHuffman) = s.ink.tables.huffman
      /\ rect \notin {"jpeg", "jpegQuant"} =>
           Kept(dec.quant, dec.cachedQuant) = s.ink.tables.quant
  BY Zenon DEF Painted, TablesMatch
<1>2. /\ <<1, 2>> # <<>> /\ <<3>> # <<>> /\ <<4>> # <<>>
  OBVIOUS
<1>3. /\ \A old : Kept(<<>>, old) = old
      /\ \A old, new : new # <<>> => Kept(new, old) = new
  BY DEF Kept
<1>4. rect = "jpeg" /\ whole =>
        /\ Kept(memory.huffman, memory.cachedHuffman) = s.ink.tables.huffman
        /\ Kept(memory.quant, memory.cachedQuant) = s.ink.tables.quant
  BY <1>1, <1>2, <1>3, Zenon DEF FileTables, Finds
<1>5. rect # "jpeg" => Kept(memory.huffman, memory.cachedHuffman) = s.ink.tables.huffman
  BY <1>1, <1>3, Zenon DEF Finds
<1>6. rect = "jpegQuant" /\ whole => Kept(memory.quant, memory.cachedQuant) = s.ink.tables.quant
  BY <1>1, <1>2, <1>3, Zenon DEF FileTables, Finds
<1>7. rect = "jpegBare" => Kept(memory.quant, memory.cachedQuant) = s.ink.tables.quant
  <2>1. "jpegBare" \notin {"jpeg", "jpegQuant"}
    OBVIOUS
  <2> QED
    BY <1>1, <1>3, <2>1, Zenon DEF Finds
<1> QED
  BY <1>1, <1>4, <1>5, <1>6, <1>7, Zenon DEF TablesMatch, JpegRects

LEMMA JpegBrush ==
  ASSUME NEW s, NEW e, NEW rect \in JpegRects, NEW enc, Handling(s, e, rect, enc),
         s.read = 1, LenOf(rect) # 1, NEW n \in Nat, NEW memory,
         TablesMatch(s.ink, 1 + n = LenOf(rect), memory), NEW items,
         \/ n = 0 /\ items = <<>>
         \/ 1 + n = LenOf(rect) /\ DrawsAll(rect, items, s.ink.tables)
  PROVE  Brush(s, rect, n, items, memory)
<1> DEFINE ds == RectDraws(rect, s.ink.tables)
<1>1. s.ink.tables \in Tables
  BY DEF Handling, Place, Inks
<1>2. ds \in Seq(AllDraws)
  BY <1>1, RectDrawsAre
<1>3. rect \in Images /\ rect # "hextile"
  BY DEF JpegRects, Images
<1>4. ToPaint(rect, 1, s.ink.tables) = ds /\ ToPaint(rect, LenOf(rect), s.ink.tables) = <<>>
  <2>1. 1 <= 1
    OBVIOUS
  <2> QED
    BY <2>1, Zenon DEF ToPaint
<1> HIDE DEF ds
<1>5. LastTile(rect, s.read + n, memory)
  BY <1>3 DEF LastTile
<1>6. CASE n = 0 /\ items = <<>>
  <2>1. s.read + n = 1 /\ s.read + n = 1 + n
    BY <1>6
  <2>2. ds = Draws(<<>>) \o ds
    BY <1>2, NoItems
  <2> QED
    BY <1>3, <1>4, <1>5, <1>6, <2>1, <2>2, NoItems, Zenon DEF Brush
<1>7. CASE 1 + n = LenOf(rect) /\ DrawsAll(rect, items, s.ink.tables)
  <2>1. s.read + n = LenOf(rect)
    BY <1>7
  <2>2. items \in Seq(Items) /\ Draws(items) = ds
    BY <1>7 DEF DrawsAll, ds
  <2>3. ds = Draws(items) \o <<>>
    BY <1>2, <2>2, NoItems
  <2>4. TablesMatch(s.ink, s.read + n = LenOf(rect), memory)
    BY <1>7, <2>1
  <2> QED
    BY <1>3, <1>4, <1>5, <2>1, <2>2, <2>3, <2>4, Zenon DEF Brush
<1> QED
  BY <1>6, <1>7

LEMMA JpegKeepsStep ==
  ASSUME StreamInv, Jpeg
  PROVE  StreamInv'
<1>1. At("jpeg")
  BY DEF Jpeg
<1>2. PICK s, e, rect : running /\ Handling(s, e, rect, "jpeg")
  BY <1>1, Handled
<1>3. rect \in {"jpeg", "jpegQuant", "jpegBare"} /\ rect \notin DOMAIN NewSize
      /\ rect # "lastRect" /\ rect \in Simple
  BY <1>2, Encodings, ResizesAre DEF Handling, Simple
<1>4. s.read = 1 /\ Idle(dec) /\ s.block = RectPieces(rect) /\ Len(s.block) = LenOf(rect)
  BY <1>2, <1>3, SimplePlace
<1>5. DOMAIN dec = DecFields
  BY DEF StreamInv, StreamTypes, DecTypes
<1>6. DOMAIN Parsed = DecFields /\ Idle(Parsed)
  BY <1>4, <1>5, ParsedIs
<1>7. LenOf(rect) \in {3, 4, 6} /\ Remaining(s, e) /\ rect \in JpegRects
  BY <1>2, <1>3, JpegSegments, InPlace DEF JpegRects
<1> DEFINE L == LenOf(rect) - 1
           ends == {i \in 1 .. avail : wire[i].of = "end"}
           kinds == [i \in 1 .. L |-> "segment"]
<1>8. L \in {2, 3, 5} /\ L \in Nat /\ s.read + L = LenOf(rect) /\ 1 + L = Len(s.block)
  BY <1>4, <1>7
<1>9. \A i \in 1 .. L : /\ RectPieces(rect)[1 + i].kind = "segment"
                        /\ RectPieces(rect)[1 + i].of = "end" <=> i = L
  BY <1>3, JpegSegments
<1>10. avail \in Nat /\ avail <= Len(wire) /\ Len(wire) \in Nat /\ wire \in Seq(AllPieces)
  BY LenProperties DEF StreamInv, StreamTypes
<1>l. L = LenOf(rect) - 1
  OBVIOUS
<1> HIDE DEF L
<1>11. \A n \in Nat : n <= avail /\ n <= L => \A i \in 1 .. n : wire[i] = RectPieces(rect)[1 + i]
  <2>1. SUFFICES ASSUME NEW n \in Nat, n <= avail, n <= L
                 PROVE  \A i \in 1 .. n : wire[i] = s.block[s.read + i]
    BY <1>4, Zenon
  <2>2. s.read = 1 /\ Len(s.block) = 1 + L /\ L \in Nat
    BY <1>4, <1>8
  <2>3. s.read + n <= Len(s.block)
    BY <2>1, <2>2
  <2> QED
    BY <1>7, <2>1, <2>3, Ahead
<1>12. FileComplete => L <= avail
  <2>1. CASE avail < L
    <3>1. \A i \in 1 .. avail : wire[i].of # "end"
      BY <1>8, <1>9, <1>10, <1>11, <2>1
    <3> QED
      BY <3>1 DEF FileComplete
  <2> QED
    BY <1>8, <1>10, <2>1
<1>13. L <= avail => FileComplete /\ FileEnd = L
  <2> SUFFICES ASSUME L <= avail
               PROVE  FileComplete /\ FileEnd = L
    OBVIOUS
  <2>1. \A i \in 1 .. L : wire[i] = RectPieces(rect)[1 + i]
    BY <1>8, <1>11
  <2>2. L \in 1 .. L /\ L \in 1 .. avail
    BY <1>8, <1>10
  <2>3. wire[L].of = "end"
    BY <1>9, <2>1, <2>2
  <2>4. \A x \in 1 .. avail : x < L => wire[x].of # "end"
    <3>1. SUFFICES ASSUME NEW x \in 1 .. avail, x < L
                   PROVE  wire[x].of # "end"
      OBVIOUS
    <3>2. x \in 1 .. L /\ x # L
      BY <1>8, <1>10, <3>1
    <3> QED
      BY <1>9, <2>1, <3>2
  <2>5. L \in ends /\ ends \in SUBSET Int /\ \A x \in ends : L <= x
    BY <1>8, <1>10, <2>2, <2>3, <2>4
  <2>6. Min(ends) = L /\ ends # {}
    BY <2>5, LeastIs
  <2> QED
    BY <2>2, <2>3, <2>6 DEF FileEnd, FileComplete
<1>14. FileEnd = (IF FileComplete THEN L ELSE avail) /\ FileEnd \in Nat /\ FileEnd <= L
       /\ FileEnd <= avail /\ (FileEnd = L <=> FileComplete)
  <2>1. CASE FileComplete
    BY <1>8, <1>10, <1>12, <1>13, <2>1
  <2>2. CASE ~ FileComplete
    <3>1. ends = {}
      BY <2>2 DEF FileComplete
    <3>2. FileEnd = avail
      BY <3>1 DEF FileEnd
    <3> QED
      BY <1>8, <1>10, <1>13, <2>2, <3>2
  <2> QED
    BY <2>1, <2>2
<1>15. Finds(rect, Parsed.quant, Parsed.huffman, FileEnd = L)
  <2> DEFINE n == FileEnd
  <2>1. n \in Nat /\ n <= LenOf(rect) - 1 /\ n <= Len(wire)
        /\ \A i \in 1 .. n : wire[i] = RectPieces(rect)[1 + i]
    BY <1>7, <1>10, <1>11, <1>14, <1>l
  <2>2. /\ Parsed.quant = TablesIn(Segments(n), "quant")
        /\ Parsed.huffman = TablesIn(Segments(n), "huffman")
    BY <1>4, <1>5, ParsedIs
  <2> HIDE DEF n
  <2>3. Finds(rect, TablesIn(Segments(n), "quant"), TablesIn(Segments(n), "huffman"),
              n = LenOf(rect) - 1)
    BY <1>7, <1>10, <2>1, ParseFinds
  <2> QED
    BY <1>l, <2>2, <2>3 DEF n
<1>16. PICK memory : memory = Parsed
  OBVIOUS
<1>17. Orderly => TablesMatch(s.ink, FileEnd = L, memory)
  <2> SUFFICES ASSUME Orderly
               PROVE  TablesMatch(s.ink, FileEnd = L, memory)
    OBVIOUS
  <2>1. Painted(s, e) /\ s.ink.rect = rect
    BY <1>2 DEF Handling, Remaining, InRect
  <2>2. /\ memory.cachedQuant = Kept(dec.quant, dec.cachedQuant)
        /\ memory.cachedHuffman = Kept(dec.huffman, dec.cachedHuffman)
    BY <1>4, <1>5, <1>16, ParsedIs
  <2>3. Finds(rect, memory.quant, memory.huffman, FileEnd = L)
    BY <1>15, <1>16
  <2> QED
    BY <1>7, <2>1, <2>2, <2>3, ParseMatches
<1>18. LenOf(rect) # 1
  BY <1>7
<1>19. CASE ~ FileComplete
  <2>1. RectGoesOn(<<>>, Parsed, FALSE) /\ UNCHANGED streamVars
    BY <1>19, Zenon DEF Jpeg
  <2>2. Moves(s, e, 0)
    BY <1>7, <2>1, Stays
  <2>3. s.read + 0 = 1 /\ s.read + 0 <= LenOf(rect) /\ s.read + 0 # LenOf(rect)
        /\ 0 \in Nat /\ FALSE \in BOOLEAN
    BY <1>4, <1>7
  <2>4. Doing(rect, s.read + 0, Parsed)
    BY <1>6, <2>3 DEF Doing
  <2>5. Orderly => Brush(s, rect, 0, <<>>, Parsed)
    <3>1. (1 + 0 = LenOf(rect)) = (FileEnd = L)
      BY <1>14, <1>18, <1>19
    <3>2. Orderly => TablesMatch(s.ink, 1 + 0 = LenOf(rect), memory)
      BY <1>17, <3>1
    <3>3. Orderly => Brush(s, rect, 0, <<>>, memory)
      BY <1>2, <1>4, <1>7, <1>18, <3>2, JpegBrush
    <3> QED
      BY <1>16, <3>3
  <2> QED
    BY <1>2, <1>6, <2>1, <2>2, <2>3, <2>4, <2>5, Continues
<1>20. CASE FileComplete
  <2>1. PICK state \in {"loading", "loaded"} :
          /\ Reads([i \in 1 .. FileEnd |-> "segment"]) /\ dec' = Parsed
          /\ RectDone(Image(Draw("image", Assembled(Parsed)), state))
    BY <1>20, Zenon DEF Jpeg, ImageRect
  <2> DEFINE items == Image(Draw("image", Assembled(Parsed)), state)
  <2>2. FileEnd = L /\ RectDone(items) /\ Reads(kinds)
    <3>1. FileEnd = L
      BY <1>14, <1>20
    <3> QED
      BY <2>1, <3>1
  <2>3. Orderly => DrawsAll(rect, items, s.ink.tables)
    <3> SUFFICES ASSUME Orderly
                 PROVE  DrawsAll(rect, items, s.ink.tables)
      OBVIOUS
    <3> DEFINE parts == s.ink.tables.quant \o s.ink.tables.huffman
    <3>1. TablesMatch(s.ink, TRUE, memory)
      BY <1>17, <2>2
    <3>2. Assembled(Parsed) = parts
      BY <1>16, <3>1, Zenon DEF Assembled, TablesMatch
    <3>3. parts \in Seq(Nat)
      <4>1. s.ink.tables \in Tables
        BY <1>2 DEF Handling, Place, Inks
      <4> QED
        BY <4>1, ConcatProperties DEF Tables
    <3>4. RectDraws(rect, s.ink.tables) = <<Draw("image", parts)>>
      BY <1>7 DEF RectDraws, JpegRects
    <3>5. items = <<[type |-> "img", draws |-> <<Draw("image", parts)>>, img |-> state]>>
      BY <3>2 DEF Image
    <3>6. "image" \in Whats /\ rect \in Images
      BY <1>7 DEF Whats, Images, JpegRects
    <3> HIDE DEF items, parts
    <3> QED
      BY <3>3, <3>4, <3>5, <3>6, OnePut
  <2> HIDE DEF items
  <2>4. Orderly => Brush(s, rect, L, items, memory)
    <3>1. 1 + L = LenOf(rect)
      BY <1>4, <1>8
    <3>2. Orderly => TablesMatch(s.ink, 1 + L = LenOf(rect), memory)
      <4>1. (1 + L = LenOf(rect)) = (FileEnd = L)
        BY <2>2, <3>1
      <4> QED
        BY <1>17, <4>1
    <3> QED
      BY <1>2, <1>4, <1>7, <1>8, <1>18, <2>3, <3>1, <3>2, JpegBrush
  <2>5. Orderly => Brush(s, rect, L, items, dec')
    BY <1>16, <2>1, <2>4
  <2>6. Len(kinds) = L /\ \A i \in 1 .. L : kinds[i] = "segment"
    BY <1>8
  <2> HIDE DEF kinds
  <2>7. Moves(s, e, L)
    <3>1. \A i \in 1 .. L : s.block[s.read + i].kind = kinds[i]
      BY <1>4, <1>9, <2>6
    <3>2. s.read + L <= Len(s.block)
      BY <1>4, <1>8
    <3> QED
      BY <1>7, <1>8, <2>2, <2>6, <3>1, <3>2, Reading
  <2>8. Idle(dec') /\ DOMAIN dec' = DecFields
    BY <1>6, <2>1
  <2> QED
    BY <1>2, <1>3, <1>8, <2>2, <2>5, <2>7, <2>8, Ends
<1> QED
  BY <1>19, <1>20

-----------------------------------------------------------------------------
(* Every step *)

LEMMA HandlersKeepStep ==
  ASSUME StreamInv, Handle
  PROVE  StreamInv'
<1>1. CASE BeginUpdate \/ RectHeader
  BY <1>1, BeginKeepsStep, HeaderKeepsStep
<1>2. CASE \/ Bell \/ ServerCutText \/ ServerFence \/ Xvp \/ EndOfContinuousUpdates
           \/ SetColourMap \/ UnexpectedMessage
  BY <1>2, MessagesKeepStep
<1>3. CASE LastRect \/ QemuExtendedKeyEvent \/ Cursor \/ VMwareCursor \/ DesktopName
  BY <1>3, LastRectKeepsStep, QemuKeyKeepsStep, CursorKeepsStep, VMwareKeepsStep, NameKeepsStep
<1>4. CASE DesktopSize \/ ExtendedDesktopSize
  BY <1>4, SizeKeepsStep, ExtendedKeepsStep
<1>5. CASE UnknownEncoding \/ TightIllegal \/ TightIllegalFilter
  BY <1>5, FailsIs DEF UnknownEncoding, TightIllegal, TightIllegalFilter
<1>6. CASE Raw \/ CopyRect \/ Rre \/ Hextile \/ Zrle \/ Jpeg
  BY <1>6, RawKeepsStep, CopyKeepsStep, RreKeepsStep, HextileKeepsStep, ZrleKeepsStep,
     JpegKeepsStep
<1>7. CASE TightControl \/ TightFill \/ TightImage \/ TightFilter \/ TightPalette \/ TightPixels
  BY <1>7, TightControlKeepsStep, TightFillKeepsStep, TightImageKeepsStep,
     TightFilterKeepsStep, TightPaletteKeepsStep, TightPixelsKeepsStep
<1> QED
  BY <1>1, <1>2, <1>3, <1>4, <1>5, <1>6, <1>7 DEF Handle

\* Between two calls of the handler nothing is read.
LEMMA ElsewhereKeepsStep ==
  ASSUME StreamInv, ~running, UNCHANGED <<wire, confused, failed, fbu, dec, fbSize, serverVars>>,
         avail' \in 0 .. Len(wire), running' \in BOOLEAN, running' => ~failed,
         Orderly => Canvas',
         \A s, e \in Place : Orderly /\ Painted(s, e) => Painted(s, e)'
  PROVE  StreamInv'
<1>1. StreamTypes'
  BY DEF StreamInv, StreamTypes, FbuTypes, DecTypes, serverVars
<1>2. ASSUME ~failed
      PROVE  OnTrack'
  <2>1. PICK s, e \in Place : Remaining(s, e) /\ Agrees(s)
    BY <1>2 DEF StreamInv, OnTrack
  <2>2. Remaining(s, e)'
    <3>1. Orderly => Painted(s, e)'
      BY <2>1 DEF Remaining
    <3> QED
      BY <2>1, <3>1 DEF Remaining, serverVars
  <2>3. CASE Between(s)
    <3>1. Between(s)'
      BY <2>3 DEF Between
    <3> QED
      BY <2>2, <3>1 DEF OnTrack, Agrees
  <2>4. ASSUME NEW rect \in Readable, InRect(s, rect)
        PROVE  OnTrack'
    <3>1. InRect(s, rect)'
      BY <2>4 DEF InRect
    <3> QED
      BY <2>2, <3>1 DEF OnTrack, Agrees
  <2> QED
    BY <2>1, <2>3, <2>4 DEF Agrees
<1> QED
  BY <1>1, <1>2 DEF StreamInv

LEMMA ArriveKeepsStep ==
  ASSUME StreamInv, NEW n \in 1 .. Len(wire), Arrive(n)
  PROVE  StreamInv'
<1>1. ~running /\ ~failed /\ avail + n <= Len(wire) /\ avail' = avail + n
      /\ (running' = ~flushing)
      /\ UNCHANGED <<wire, confused, failed, fbu, dec, drawVars, flushing, fbSize, serverVars>>
  BY DEF Arrive, askVars
<1>2. avail' \in 0 .. Len(wire)
  <2>1. Len(wire) \in Nat /\ avail \in Nat
    BY LenProperties DEF StreamInv, StreamTypes
  <2> QED
    BY <1>1, <2>1
<1>3. running' \in BOOLEAN
  <2>1. (~flushing) \in BOOLEAN
    OBVIOUS
  <2> QED
    BY <1>1, <2>1, Zenon
<1>4. Orderly => Canvas'
  <2>1. Orderly => Canvas
    BY DEF StreamInv
  <2>2. UNCHANGED <<drawVars, flushing>> /\ (flushing => ~ running')
    BY <1>1
  <2> QED
    BY <2>1, <2>2, CanvasStays
<1>5. ASSUME NEW s \in Place, NEW e \in Place, Painted(s, e)
      PROVE  Painted(s, e)'
  BY <1>1, <1>5, PaintedStays DEF drawVars
<1> QED
  BY <1>1, <1>2, <1>3, <1>4, <1>5, ElsewhereKeepsStep

\* What is known of an image in the queue changes nothing in what is to be drawn.
LEMMA ImageDraws ==
  ASSUME NEW items \in Seq(Items), NEW i \in 1 .. Len(items), NEW state \in {"loaded", "broken"}
  PROVE  LET now == [items EXCEPT ![i].img = state] IN
         now \in Seq(Items) /\ Draws(now) = Draws(items)
<1> DEFINE n == Len(items)
           now == [items EXCEPT ![i].img = state]
           x == [items[i] EXCEPT !.img = state]
<1>1. n \in Nat /\ \A j \in 1 .. n : items[j] \in Items
  BY LenProperties, ElementOfSeq
<1>2. items \in [1 .. n -> Items] /\ DOMAIN items = 1 .. n
  BY <1>1, LenProperties
<1>3. x \in Items /\ x.draws = items[i].draws
  BY <1>1 DEF Items
<1>4. now = [items EXCEPT ![i] = x]
  OBVIOUS
<1> HIDE DEF x, now
<1>5. now \in [1 .. n -> Items] /\ \A j \in 1 .. n : now[j].draws = items[j].draws
  BY <1>1, <1>2, <1>3, <1>4
<1>6. now \in Seq(Items) /\ Len(now) = n
  BY <1>1, <1>5
<1>7. Draws(now) = Draws(items)
  <2> DEFINE a == [j \in 1 .. Len(now) |-> now[j].draws]
             b == [j \in 1 .. Len(items) |-> items[j].draws]
  <2>1. a = b
    BY <1>5, <1>6
  <2>2. Draws(now) = FlattenSeq(a) /\ Draws(items) = FlattenSeq(b)
    BY DEF Draws
  <2> HIDE DEF a, b
  <2> QED
    BY <2>1, <2>2
<1> QED
  BY <1>6, <1>7 DEF now

LEMMA ImagesPaint ==
  ASSUME Canvas, NEW i \in 1 .. Len(queue), ImageLoads(i) \/ ImageBreaks(i)
  PROVE  /\ queue' \in Seq(Items) /\ wrong' = FALSE
         /\ \A g \in Seq(AllDraws) : due = Draws(queue) \o g => due' = Draws(queue') \o g
<1>1. queue \in Seq(Items) /\ wrong = FALSE
  BY DEF Canvas
<1> DEFINE now == [queue EXCEPT ![i].img = "loaded"]
           broken == [queue EXCEPT ![i].img = "broken"]
<1>2. now \in Seq(Items) /\ Draws(now) = Draws(queue)
  BY <1>1, ImageDraws
<1>3. broken \in Seq(Items) /\ Draws(broken) = Draws(queue)
  BY <1>1, ImageDraws
<1>4. \/ i = 1 /\ Scan(now)
      \/ queue' = now /\ UNCHANGED <<due, wrong>>
      \/ queue' = broken /\ UNCHANGED <<due, wrong>>
  BY DEF ImageLoads, ImageBreaks
<1> HIDE DEF now, broken
<1>5. CASE Scan(now)
  <2>1. ASSUME NEW g \in Seq(AllDraws), due = Draws(queue) \o g
        PROVE  queue' \in Seq(Items) /\ wrong' = FALSE /\ due' = Draws(queue') \o g
    <3>1. due = Draws(now) \o g
      BY <1>2, <2>1
    <3> QED
      BY <1>1, <1>2, <1>5, <3>1, ScanPaints
  <2>2. \E g \in Seq(AllDraws) : due = Draws(queue) \o g
    BY DEF Canvas
  <2> QED
    BY <2>1, <2>2
<1>6. CASE \/ queue' = now /\ UNCHANGED <<due, wrong>>
           \/ queue' = broken /\ UNCHANGED <<due, wrong>>
  BY <1>1, <1>2, <1>3, <1>6
<1> QED
  BY <1>4, <1>5, <1>6

LEMMA ImagesKeepStep ==
  ASSUME StreamInv, NEW i \in 1 .. Len(queue), ImageLoads(i) \/ ImageBreaks(i)
  PROVE  StreamInv'
<1>1. avail \in 0 .. Len(wire) /\ running \in BOOLEAN
  BY DEF StreamInv, StreamTypes
<1>2. /\ ~running /\ UNCHANGED <<wire, confused, failed, fbu, dec, fbSize, serverVars>>
      /\ avail' = avail
  BY DEF ImageLoads, ImageBreaks, askVars, streamVars
<1>3. running' \in BOOLEAN /\ (running' => ~failed) /\ (flushing' => ~ running')
      /\ (flushing \in BOOLEAN => flushing' \in BOOLEAN)
  <2>1. CASE ImageLoads(i)
    <3>1. (running' = (flushing /\ ~flushing' /\ avail > 0 /\ ~failed))
          /\ flushing' = (flushing /\ queue' # <<>>)
      BY <2>1 DEF ImageLoads, StillFlushing
    <3>2. (flushing /\ ~flushing' /\ avail > 0 /\ ~failed) \in BOOLEAN
          /\ (flushing /\ queue' # <<>>) \in BOOLEAN
      OBVIOUS
    <3> QED
      BY <3>1, <3>2, Zenon
  <2>2. CASE ImageBreaks(i)
    <3>1. UNCHANGED <<running, flushing>>
      BY <2>2 DEF ImageBreaks
    <3> QED
      BY <1>1, <1>2, <3>1
  <2> QED
    BY <2>1, <2>2
<1>4. Orderly => Canvas'
  <2> SUFFICES ASSUME Orderly
               PROVE  Canvas'
    OBVIOUS
  <2>1. Canvas
    BY DEF StreamInv
  <2>2. PICK g \in Seq(AllDraws) : due = Draws(queue) \o g
    BY <2>1 DEF Canvas
  <2>3. queue' \in Seq(Items) /\ wrong' = FALSE /\ due' = Draws(queue') \o g
    BY <2>1, <2>2, ImagesPaint
  <2>4. due' \in Seq(AllDraws)
    <3>1. Draws(queue') \in Seq(AllDraws)
      BY <2>3, DrawsIs
    <3> QED
      BY <2>3, <3>1, ConcatProperties
  <2>5. flushing \in BOOLEAN
    BY <2>1 DEF Canvas
  <2> QED
    BY <1>3, <2>3, <2>4, <2>5 DEF Canvas
<1>5. ASSUME NEW s \in Place, NEW e \in Place, Orderly, Painted(s, e)
      PROVE  Painted(s, e)'
  <2>1. PICK f \in Seq(AllDraws) : Owes(f, s, e)
    BY <1>5 DEF Painted
  <2>2. ToPaintAt(s) \o f \in Seq(AllDraws)
    BY ToPaintAtIs, ConcatProperties
  <2>3. Owes(f, s, e)'
    <3>1. Canvas
      BY <1>5 DEF StreamInv
    <3>2. due' = Draws(queue') \o (ToPaintAt(s) \o f)
      BY <2>1, <2>2, <3>1, ImagesPaint DEF Owes
    <3> QED
      BY <2>1, <3>2 DEF Owes
  <2>4. fbu'.rects > 0 /\ queue' # <<>> => flushing' \/ s.ink.imaged
    <3>1. queue # <<>>
      BY EmptySeq
    <3>2. fbu.rects > 0 => flushing \/ s.ink.imaged
      BY <1>5, <3>1 DEF Painted
    <3>3. flushing /\ queue' # <<>> => flushing'
      BY DEF ImageLoads, ImageBreaks, StillFlushing
    <3> QED
      BY <1>2, <3>2, <3>3
  <2> QED
    BY <1>2, <1>5, <2>3, <2>4 DEF Painted
<1>6. \A s, e \in Place : Orderly /\ Painted(s, e) => Painted(s, e)'
  BY <1>5
<1>7. avail' \in 0 .. Len(wire)
  BY <1>1, <1>2
<1> QED
  BY <1>2, <1>3, <1>4, <1>6, <1>7, ElsewhereKeepsStep

\* A change of the view draws nothing: it shows what has been drawn.
LEMMA ViewKeepsStep ==
  ASSUME StreamInv, ViewChanges
  PROVE  StreamInv'
<1>1. /\ ~running /\ Put(ViewFlip)
      /\ UNCHANGED <<wire, avail, confused, running, failed, fbu, dec, flushing, fbSize, serverVars>>
  BY DEF ViewChanges, streamVars, askVars
<1>2. ViewFlip \in Seq(Items) /\ Draws(ViewFlip) = <<>>
      /\ \A i \in 1 .. Len(ViewFlip) : Ready(ViewFlip[i])
  BY ViewsDraw
<1>3. ASSUME Canvas, NEW h \in Seq(AllDraws), due = Draws(queue) \o h
      PROVE  /\ queue' \in Seq(Items) /\ wrong' = FALSE /\ due' \in Seq(AllDraws)
             /\ due' = Draws(queue') \o h /\ (queue = <<>> => queue' = <<>>)
  <2>1. <<>> \o h = h
    BY DrawsRegroup
  <2>2. due = Draws(queue) \o (Draws(ViewFlip) \o h)
    BY <1>2, <1>3, <2>1
  <2> QED
    BY <1>1, <1>2, <1>3, <2>2, PutPaints
<1>4. Orderly => Canvas'
  <2> SUFFICES ASSUME Canvas
               PROVE  Canvas'
    BY DEF StreamInv
  <2>1. PICK g \in Seq(AllDraws) : due = Draws(queue) \o g
    BY DEF Canvas
  <2> QED
    BY <1>1, <1>3, <2>1 DEF Canvas
<1>5. ASSUME NEW s \in Place, NEW e \in Place, Orderly, Painted(s, e)
      PROVE  Painted(s, e)'
  <2>1. PICK f \in Seq(AllDraws) : Owes(f, s, e)
    BY <1>5 DEF Painted
  <2>2. ToPaintAt(s) \o f \in Seq(AllDraws) /\ Canvas
    BY <1>5, ToPaintAtIs, ConcatProperties DEF StreamInv
  <2>3. Owes(f, s, e)' /\ (queue = <<>> => queue' = <<>>)
    BY <1>3, <2>1, <2>2 DEF Owes
  <2>4. fbu'.rects > 0 /\ queue' # <<>> => flushing' \/ s.ink.imaged
    BY <1>1, <1>5, <2>3 DEF Painted
  <2> QED
    BY <1>1, <1>5, <2>3, <2>4 DEF Painted
<1>6. \A s, e \in Place : Orderly /\ Painted(s, e) => Painted(s, e)'
  BY <1>5
<1>7. avail' \in 0 .. Len(wire) /\ running' \in BOOLEAN /\ ~running'
  BY <1>1 DEF StreamInv, StreamTypes
<1> QED
  BY <1>1, <1>4, <1>6, <1>7, ElsewhereKeepsStep

\* The rectangles the theorems are about: see Readable.
SendsReadable == \A server \in Pictures : \A picture \in server : picture \in Seq(Readable)

LEMMA MoreAtEnd ==
  ASSUME NEW a \in Seq(AllDraws), NEW t \in Seq(AllDraws), NEW g \in Seq(AllDraws),
         NEW u \in Seq(AllDraws)
  PROVE  (a \o (t \o g)) \o u = a \o (t \o (g \o u))
<1>2. (t \o g) \o u = t \o (g \o u)
  BY DrawsRegroup
<1> DEFINE b == t \o g
<1>3. b \in Seq(AllDraws)
  BY ConcatProperties
<1> HIDE DEF b
<1>4. (a \o b) \o u = a \o (b \o u)
  BY <1>3, DrawsRegroup
<1> QED
  BY <1>2, <1>4 DEF b

\* More is on its way, and the reader stays where it is.
LEMMA MoreIsSent ==
  ASSUME StreamInv, MaySend, NEW more \in Seq(AllPieces), wire' = wire \o more,
         NEW u \in Seq(AllDraws), Orderly => due' = due \o u,
         \A e \in Place : AtRest(e) /\ e.size = serverSize /\ e.ink.tables = tables =>
           \E f \in Place : /\ AtRest(f) /\ f.size = serverSize' /\ f.ink.tables = tables'
                            /\ f.ink.drawn = e.ink.drawn \o u /\ Run(more, e, f),
         UNCHANGED <<avail, confused, running, failed, fbu, dec, queue, wrong, flushing, fbSize,
                     pictures>>
  PROVE  StreamInv'
<1>1. PICK s, e \in Place : Remaining(s, e) /\ Agrees(s)
  BY DEF MaySend, StreamInv, OnTrack
<1>2. PICK f \in Place : /\ AtRest(f) /\ f.size = serverSize' /\ f.ink.tables = tables'
                        /\ f.ink.drawn = e.ink.drawn \o u /\ Run(more, e, f)
  BY <1>1 DEF Remaining
<1>3. wire \in Seq(AllPieces) /\ avail \in 0 .. Len(wire)
  BY DEF StreamInv, StreamTypes
<1>4. wire' \in Seq(AllPieces) /\ Len(wire') = Len(wire) + Len(more)
  BY <1>3, Joined
<1>5. Run(wire', s, f)
  BY <1>1, <1>2, <1>3, RunAppend DEF Remaining
<1>6. avail' \in 0 .. Len(wire')
  <2>1. Len(wire) \in Nat /\ Len(more) \in Nat
    BY <1>3, LenProperties
  <2> QED
    BY <1>3, <1>4, <2>1
<1>7. serverSize' \in Sizes
  BY <1>2 DEF Place
<1>8. StreamTypes'
  BY <1>4, <1>6, <1>7 DEF StreamInv, StreamTypes, FbuTypes, DecTypes
<1>c. Orderly => Canvas'
  <2> SUFFICES ASSUME Orderly
               PROVE  Canvas'
    OBVIOUS
  <2>1. Canvas
    BY DEF StreamInv
  <2>2. PICK g \in Seq(AllDraws) : due = Draws(queue) \o g
    BY <2>1 DEF Canvas
  <2>3. Draws(queue) \in Seq(AllDraws) /\ due \in Seq(AllDraws)
    BY <2>1, DrawsIs DEF Canvas
  <2>4. due' = Draws(queue) \o (g \o u)
    <3> DEFINE d == Draws(queue)
    <3>1. d \in Seq(AllDraws)
      BY <2>3
    <3> HIDE DEF d
    <3>2. (d \o g) \o u = d \o (g \o u)
      BY <3>1, DrawsRegroup
    <3> QED
      BY <2>2, <3>2 DEF d
  <2>5. g \o u \in Seq(AllDraws) /\ due' \in Seq(AllDraws)
    BY <2>3, ConcatProperties
  <2> QED
    BY <2>1, <2>4, <2>5 DEF Canvas
<1>m. \A x, y, z \in Seq(AllDraws) : (x \o y) \o z = x \o (y \o z)
  BY DrawsRegroup
<1>n. \A v, x, y, z \in Seq(AllDraws) : (v \o (x \o y)) \o z = v \o (x \o (y \o z))
  BY MoreAtEnd, Zenon
<1>p. Orderly => Painted(s, f)'
  <2> SUFFICES ASSUME Orderly
               PROVE  Painted(s, f)'
    OBVIOUS
  <2>1. Canvas /\ Painted(s, e)
    BY <1>1 DEF StreamInv, Remaining
  <2>2. PICK g \in Seq(AllDraws) : Owes(g, s, e)
    BY <2>1 DEF Painted
  <2> DEFINE d == Draws(queue)
             t == ToPaintAt(s)
             a == s.ink.drawn
  <2>3. d \in Seq(AllDraws) /\ t \in Seq(AllDraws) /\ a \in Seq(AllDraws)
    BY <2>1, DrawsIs, ToPaintAtIs DEF Canvas, Place, Inks
  <2>4. due = d \o (t \o g) /\ e.ink.drawn = a \o g
    BY <2>2 DEF Owes
  <2>5. due' = due \o u
    OBVIOUS
  <2> HIDE DEF d, t, a
  <2>6. f.ink.drawn = a \o (g \o u)
    <3>1. (a \o g) \o u = a \o (g \o u)
      BY <1>m, <2>3
    <3> QED
      BY <1>2, <2>4, <3>1
  <2>7. due' = d \o (t \o (g \o u))
    <3>2. d \in Seq(AllDraws) /\ t \in Seq(AllDraws)
      BY <2>3
    <3>3. \A x, y, z \in Seq(AllDraws) : (d \o (x \o y)) \o z = d \o (x \o (y \o z))
      BY <1>n, <3>2
    <3>4. \A y, z \in Seq(AllDraws) : (d \o (t \o y)) \o z = d \o (t \o (y \o z))
      BY <3>2, <3>3
    <3>1. (d \o (t \o g)) \o u = d \o (t \o (g \o u))
      BY <3>4
    <3> QED
      BY <2>4, <2>5, <3>1
  <2>8. g \o u \in Seq(AllDraws)
    BY ConcatProperties
  <2>9. Owes(g \o u, s, f)'
    BY <2>6, <2>7 DEF Owes, d, t, a
  <2> QED
    BY <2>1, <2>8, <2>9 DEF Painted
<1>9. Remaining(s, f)'
  BY <1>1, <1>2, <1>5, <1>p DEF Remaining
<1>10. Agrees(s)'
  <2>1. CASE Between(s)
    <3>1. Between(s)'
      BY <2>1 DEF Between
    <3> QED
      BY <3>1 DEF Agrees
  <2>2. ASSUME NEW rect \in Readable, InRect(s, rect)
        PROVE  Agrees(s)'
    <3>1. InRect(s, rect)'
      BY <2>2 DEF InRect
    <3> QED
      BY <3>1 DEF Agrees
  <2> QED
    BY <1>1, <2>1, <2>2 DEF Agrees
<1> QED
  BY <1>8, <1>9, <1>10, <1>c DEF StreamInv, OnTrack

LEMMA UpdateKeepsStep ==
  ASSUME SendsReadable, StreamInv, NEW picture \in pictures, SendUpdate(picture)
  PROVE  StreamInv'
<1>1. IsReadable(picture)
  <2>1. pictures \in Pictures
    BY DEF StreamInv, StreamTypes
  <2> QED
    BY <2>1, UpdatesAssumption DEF SendsReadable, IsReadable, Orderly
<1>2. MaySend /\ wire' = wire \o UpdatePieces(picture)
      /\ due' = due \o UpdateDraws(picture, tables)
      /\ serverSize' = SizeAfter(picture, serverSize) /\ tables' = TablesAfter(picture, tables)
      /\ UNCHANGED <<avail, confused, running, failed, fbu, dec, queue, wrong, flushing, fbSize,
                     pictures>>
  BY DEF SendUpdate
<1> DEFINE more == UpdatePieces(picture)
           u == UpdateDraws(picture, tables)
<1>3. ASSUME NEW e \in Place, AtRest(e), e.size = serverSize, e.ink.tables = tables
      PROVE  \E f \in Place : /\ AtRest(f) /\ f.size = serverSize' /\ f.ink.tables = tables'
                              /\ f.ink.drawn = e.ink.drawn \o u /\ Run(more, e, f)
  BY <1>1, <1>2, <1>3, RunUpdate
<1>4. more \in Seq(AllPieces) /\ u \in Seq(AllDraws)
  <2>1. PICK s, e \in Place : Remaining(s, e)
    BY <1>2 DEF MaySend, StreamInv, OnTrack
  <2>2. e \in Place /\ AtRest(e) /\ e.ink.tables = tables
    BY <2>1 DEF Remaining
  <2> QED
    BY <1>1, <2>2, RunUpdate
<1>5. wire' = wire \o more /\ due' = due \o u
  BY <1>2
<1> HIDE DEF more, u
<1> QED
  BY <1>2, <1>3, <1>4, <1>5, MoreIsSent

LEMMA OtherKeepsStep ==
  ASSUME StreamInv, NEW message \in OtherMessages, SendOther(message)
  PROVE  StreamInv'
<1>1. MaySend /\ wire' = wire \o message
      /\ UNCHANGED <<avail, confused, running, failed, fbu, dec, queue, due, wrong, flushing,
                     fbSize, serverSize, tables, pictures>>
  BY DEF SendOther, askVars, drawVars, serverVars
<1>2. message \in Messages /\ message \in Seq(AllPieces) /\ Len(message) \in Nat
      /\ Len(message) # 0
  BY UpdatesAssumption, MessagesAre, LenProperties
<1>3. ASSUME NEW e \in Place, AtRest(e), e.size = serverSize, e.ink.tables = tables
      PROVE  \E f \in Place : /\ AtRest(f) /\ f.size = serverSize' /\ f.ink.tables = tables'
                              /\ f.ink.drawn = e.ink.drawn \o <<>> /\ Run(message, e, f)
  <2> DEFINE ink == NoInk(e.ink, e.ink.imaged)
             f == [rects |-> 0, block |-> message, read |-> Len(message), size |-> e.size,
                   ink |-> ink]
  <2>1. /\ ink \in Inks /\ ink.tables = e.ink.tables /\ ink.drawn = e.ink.drawn
        /\ ink.drawn = e.ink.drawn \o <<>>
    <3>1. e.ink \in Inks
      BY DEF Place
    <3>2. e.ink.imaged \in BOOLEAN /\ e.ink.drawn \in Seq(AllDraws)
      BY <3>1 DEF Inks
    <3>3. ink \in Inks /\ ink.tables = e.ink.tables /\ ink.drawn = e.ink.drawn
      BY <3>1, <3>2 DEF NoInk, Inks
    <3>4. e.ink.drawn \o <<>> = e.ink.drawn
      BY <3>2, NoItems
    <3> QED
      BY <3>3, <3>4
  <2>2. ink = NoInk(e.ink, e.ink.imaged)
    OBVIOUS
  <2> HIDE DEF ink
  <2>3. f \in Place /\ f.block = message /\ AtRest(f) /\ AtEndOfBlock(f) /\ f.rects = 0
        /\ f.size = e.size /\ f.ink = ink
    BY <1>2, <2>1 DEF Place, AtRest, AtEndOfBlock
  <2> HIDE DEF f
  <2>4. Follows(e, f) /\ AtEndOfBlock(e)
    BY <1>2, <1>3, <2>2, <2>3 DEF Follows, MessageFollows, AtRest
  <2>5. Run(message, e, f)
    BY <1>2, <2>3, <2>4, RunBlock
  <2> QED
    BY <1>1, <1>3, <2>1, <2>3, <2>5
<1>4. Orderly => due' = due \o <<>>
  <2>1. Orderly => due \in Seq(AllDraws)
    BY DEF StreamInv, Canvas
  <2> QED
    BY <1>1, <2>1, NoItems
<1>5. <<>> \in Seq(AllDraws)
  BY EmptySeq
<1>6. PICK u \in Seq(AllDraws) : u = <<>>
  BY <1>5
<1> QED
  BY <1>1, <1>2, <1>3, <1>4, <1>6, MoreIsSent

LEMMA StutterKeepsStep == ASSUME StreamInv, UNCHANGED vars PROVE StreamInv'
<1>1. UNCHANGED <<wire, avail, confused, running, failed, fbu, dec, queue, due, wrong, flushing,
                 fbSize, serverSize, tables, pictures>>
  BY DEF vars, streamVars, drawVars, askVars, serverVars
<1>2. StreamTypes'
  BY <1>1 DEF StreamInv, StreamTypes, FbuTypes, DecTypes
<1>3. ASSUME OnTrack
      PROVE  OnTrack'
  <2>1. PICK s, e \in Place : Remaining(s, e) /\ Agrees(s)
    BY <1>3 DEF OnTrack
  <2>2. Remaining(s, e)'
    <3>1. Orderly => Painted(s, e)'
      BY <1>1, <2>1, PaintedStays DEF Remaining
    <3> QED
      BY <1>1, <2>1, <3>1 DEF Remaining
  <2>3. Agrees(s)'
    BY <1>1, <2>1 DEF Agrees, Between, InRect
  <2> QED
    BY <2>2, <2>3 DEF OnTrack
<1>4. Orderly => Canvas'
  BY <1>1 DEF StreamInv, Canvas
<1> QED
  BY <1>1, <1>2, <1>3, <1>4 DEF StreamInv

LEMMA StreamInit == Init => StreamInv
<1> SUFFICES ASSUME Init PROVE StreamInv
  OBVIOUS
<1> DEFINE ink == [rect |-> "none", tables |-> [quant |-> <<>>, huffman |-> <<>>],
                   drawn |-> <<>>, imaged |-> FALSE]
           s == [rects |-> 0, block |-> <<>>, read |-> 0, size |-> 1, ink |-> ink]
<1>0. ink \in Inks /\ ink.rect = "none" /\ ink.tables = [quant |-> <<>>, huffman |-> <<>>]
      /\ ink.drawn = <<>> /\ ink.imaged = FALSE
  <2>1. <<>> \in Seq(AllDraws) /\ <<>> \in Seq(Nat)
    BY EmptySeq
  <2> QED
    BY <2>1 DEF Inks, Tables
<1> HIDE DEF ink
<1>1. s \in Place /\ AtRest(s) /\ s.size = 1 /\ s.rects = 0 /\ AtEndOfBlock(s) /\ s.ink = ink
  <2>1. <<>> \in Seq(AllPieces) /\ Len(<<>>) = 0
    OBVIOUS
  <2> QED
    BY <1>0, <2>1, UpdatesAssumption DEF Place, AtRest, AtEndOfBlock
<1> HIDE DEF s
<1>2. wire = <<>> /\ avail = 0 /\ confused = FALSE /\ running = FALSE /\ failed = FALSE
      /\ fbu = NoRect
      /\ dec = FreshDecoders /\ fbSize = 1 /\ serverSize = 1 /\ pictures \in Pictures
      /\ queue = <<>> /\ flushing = FALSE /\ due = <<>> /\ wrong = FALSE
      /\ tables = [quant |-> <<>>, huffman |-> <<>>]
  BY DEF Init
<1>3. DOMAIN dec = DecFields /\ Idle(dec)
  BY <1>2 DEF FreshDecoders, DecFields, Idle, Remembers
<1>4. StreamTypes
  <2>1. wire \in Seq(AllPieces) /\ avail \in 0 .. Len(wire)
    BY <1>2
  <2>2. FbuTypes
    BY <1>2 DEF FbuTypes, NoRect
  <2>3. DecTypes
    BY <1>3 DEF DecTypes, Idle, Remembers
  <2> QED
    BY <1>2, <2>1, <2>2, <2>3, UpdatesAssumption DEF StreamTypes
<1>p. Painted(s, s) /\ Canvas
  <2>1. /\ <<>> \in Seq(AllDraws) /\ <<>> \in Seq(Items) /\ Draws(<<>>) = <<>>
        /\ <<>> \o <<>> = <<>>
    BY EmptySeq, NoItems
  <2>2. ToPaintAt(s) = <<>>
    BY <1>1, Zenon DEF ToPaintAt
  <2>3. s.ink.drawn = s.ink.drawn \o <<>>
    BY <1>0, <1>1, <2>1
  <2>4. due = Draws(queue) \o (ToPaintAt(s) \o <<>>)
    BY <1>2, <2>1, <2>2
  <2>5. Owes(<<>>, s, s)
    BY <2>3, <2>4 DEF Owes
  <2>6. TablesMatch(s.ink, AtEndOfBlock(s), dec)
    <3>1. /\ dec.quant = <<>> /\ dec.huffman = <<>> /\ dec.cachedQuant = <<>>
          /\ dec.cachedHuffman = <<>>
      BY <1>2 DEF FreshDecoders
    <3> QED
      BY <1>0, <1>1, <3>1 DEF TablesMatch, FileTables, Kept
  <2>7. s.ink.rect \notin Direct /\ s.ink.rect \notin Images /\ s.ink.rect # "hextile"
    BY <1>0, <1>1 DEF Direct, Images
  <2>8. Painted(s, s)
    BY <1>2, <2>1, <2>5, <2>6, <2>7 DEF Painted, LastTile
  <2>9. due = Draws(queue) \o <<>>
    BY <1>2, <2>1
  <2>10. Canvas
    BY <1>2, <2>1, <2>9 DEF Canvas
  <2> QED
    BY <2>8, <2>10
<1>5. Remaining(s, s)
  BY <1>0, <1>1, <1>2, <1>p, RunStarts DEF Remaining
<1>6. Between(s)
  BY <1>1, <1>2, <1>3 DEF Between, NoRect
<1> QED
  BY <1>1, <1>4, <1>p, <1>5, <1>6 DEF StreamInv, OnTrack, Agrees

LEMMA StreamNext == ASSUME SendsReadable, StreamInv, [Next]_vars PROVE StreamInv'
<1>1. CASE Handle
  BY <1>1, HandlersKeepStep
<1>2. ASSUME NEW n \in 1 .. Len(wire), Arrive(n)
      PROVE  StreamInv'
  BY <1>2, ArriveKeepsStep
<1>3. ASSUME NEW i \in 1 .. Len(queue), ImageLoads(i) \/ ImageBreaks(i)
      PROVE  StreamInv'
  BY <1>3, ImagesKeepStep
<1>4. ASSUME NEW p \in pictures, SendUpdate(p)
      PROVE  StreamInv'
  BY <1>4, UpdateKeepsStep
<1>5. ASSUME NEW o \in OtherMessages, SendOther(o)
      PROVE  StreamInv'
  BY <1>5, OtherKeepsStep
<1>6. CASE ViewChanges
  BY <1>6, ViewKeepsStep
<1>7. CASE UNCHANGED vars
  BY <1>7, StutterKeepsStep
<1> QED
  BY <1>1, <1>2, <1>3, <1>4, <1>5, <1>6, <1>7 DEF Next

-----------------------------------------------------------------------------
(* What a handler puts into the queue, and what it asks for *)

\* Actions of the render queue, and those of which none ends an update.
IsAction(item) ==
  /\ DOMAIN item = {"type", "draws", "img"}
  /\ item.type \in {"fill", "copy", "blit", "img"} \union Flips
IsDraw(item) == IsAction(item) /\ item.type # "flip"
AreActions(items) == \E S : items \in Seq(S) /\ \A x \in S : IsAction(x)
AreDraws(items) == \E S : items \in Seq(S) /\ \A x \in S : IsDraw(x)

LEMMA DrawsAreActions == ASSUME NEW items, AreDraws(items) PROVE AreActions(items)
BY DEF AreDraws, AreActions, IsDraw

LEMMA NoDraws == AreDraws(<<>>)
<1> DEFINE S == {}
<1>1. <<>> \in Seq(S) /\ \A x \in S : IsDraw(x)
  OBVIOUS
<1> HIDE DEF S
<1> QED
  BY <1>1 DEF AreDraws

LEMMA OneDraw == ASSUME NEW x, IsDraw(x) PROVE AreDraws(<<x>>)
<1> DEFINE S == {x}
<1>1. <<x>> \in Seq(S)
  OBVIOUS
<1>2. \A y \in S : IsDraw(y)
  BY Zenon
<1> HIDE DEF S
<1> QED
  BY <1>1, <1>2 DEF AreDraws

LEMMA JoinedDraws ==
  ASSUME NEW a, NEW b, AreDraws(a), AreDraws(b)
  PROVE  AreDraws(a \o b)
<1>1. PICK S : a \in Seq(S) /\ \A x \in S : IsDraw(x)
  BY DEF AreDraws
<1>2. PICK T : b \in Seq(T) /\ \A x \in T : IsDraw(x)
  BY DEF AreDraws
<1>3. a \in Seq(S \cup T) /\ b \in Seq(S \cup T)
  BY <1>1, <1>2, Zenon, SeqMonotonic
<1>4. a \o b \in Seq(S \cup T)
  BY <1>3
<1>5. \A x \in S \cup T : IsDraw(x)
  BY <1>1, <1>2
<1> QED
  BY <1>4, <1>5 DEF AreDraws

LEMMA OneOfType ==
  ASSUME NEW type \in {"fill", "copy", "blit", "img", "viewFlip"}, NEW draws, NEW img
  PROVE  AreDraws(<<[type |-> type, draws |-> draws, img |-> img]>>)
<1> DEFINE x == [type |-> type, draws |-> draws, img |-> img]
<1>1. IsDraw(x)
  BY DEF IsDraw, IsAction, Flips
<1> HIDE DEF x
<1>2. AreDraws(<<x>>)
  BY <1>1, OneDraw
<1> QED
  BY <1>2 DEF x

LEMMA ActionsAreDraws ==
  /\ \A draws : AreDraws(Fill(draws)) /\ AreDraws(Blit(draws))
  /\ \A draw : AreDraws(CopyImage(draw))
  /\ \A draw, state : AreDraws(Image(draw, state))
  /\ \A views \in {<<>>, ViewFlip} : AreDraws(views)
<1>1. \A draws : AreDraws(Fill(draws))
  BY OneOfType DEF Fill
<1>2. \A draws : AreDraws(Blit(draws))
  BY OneOfType DEF Blit
<1>3. \A draw : AreDraws(CopyImage(draw))
  BY OneOfType DEF CopyImage
<1>4. \A draw, state : AreDraws(Image(draw, state))
  BY OneOfType DEF Image
<1>5. \A views \in {<<>>, ViewFlip} : AreDraws(views)
  BY OneOfType, NoDraws DEF ViewFlip
<1> QED
  BY <1>1, <1>2, <1>3, <1>4, <1>5

LEMMA ReceivedDraws ==
  ASSUME NEW items, AreDraws(items)
  PROVE  AreDraws(FromReceiveQueue(items))
<1>1. CASE queue = <<>>
  BY <1>1 DEF FromReceiveQueue
<1>2. CASE queue # <<>>
  <2>1. PICK S : items \in Seq(S) /\ \A x \in S : IsDraw(x)
    BY DEF AreDraws
  <2> DEFINE n == Len(items)
             Of2(x) == [x EXCEPT !.draws = Stale(@)]
             T == {Of2(x) : x \in S}
             late == [i \in 1 .. n |-> Of2(items[i])]
  <2>2. n \in Nat /\ \A i \in 1 .. n : items[i] \in S
    BY <2>1, LenProperties, ElementOfSeq
  <2>3. late \in [1 .. n -> T]
    BY <2>2
  <2>4. late \in Seq(T)
    BY <2>2, <2>3
  <2>5. \A x \in S : IsDraw(Of2(x))
    BY <2>1 DEF IsDraw, IsAction
  <2>6. \A y \in T : IsDraw(y)
    BY <2>5
  <2>7. FromReceiveQueue(items) = late
    BY <1>2 DEF FromReceiveQueue
  <2> QED
    BY <2>4, <2>6, <2>7, Zenon DEF AreDraws
<1> QED
  BY <1>1, <1>2

LEMMA TilesAreDraws == ASSUME NEW sub, NEW n PROVE AreDraws(TileItems(sub, n))
<1>1. CASE sub = "blank"
  BY <1>1, ActionsAreDraws, NoDraws DEF TileItems
<1>2. CASE sub = "raw"
  BY <1>2, ActionsAreDraws, ReceivedDraws DEF TileItems
<1>3. CASE sub # "blank" /\ sub # "raw"
  BY <1>3, ActionsAreDraws DEF TileItems
<1> QED
  BY <1>1, <1>2, <1>3
\* What a call of the handler does to the queue and to what has been asked for.
Quietly == UNCHANGED <<drawVars, flushing, askVars>> /\ fbu'.rects = fbu.rects
GoesOnDrawing ==
  /\ fbu.rects > 0
  /\ \E items : AreDraws(items) /\ Put(items) /\ UNCHANGED <<fbu, flushing, askVars>>
EndsDrawing == fbu.rects > 0 /\ \E items : AreDraws(items) /\ RectDone(items)
Outcome ==
  \/ Quietly \/ GoesOnDrawing \/ EndsDrawing
  \/ fbu.rects > 0 /\ \E size : ResizeDone(size)
  \/ LastRect \/ EndOfContinuousUpdates \/ BeginUpdate

LEMMA QuietlyIs ==
  ASSUME Waits \/ Fails
  PROVE  Outcome
BY DEF Outcome, Quietly, Waits, Fails

LEMMA GoesOnIs ==
  ASSUME fbu.rects > 0, NEW items, AreDraws(items), NEW memory, NEW stays,
         RectGoesOn(items, memory, stays)
  PROVE  Outcome
BY DEF Outcome, GoesOnDrawing, RectGoesOn

LEMMA RemembersIs ==
  ASSUME fbu.rects > 0, NEW kinds, NEW memory, Remember(kinds, memory)
  PROVE  Outcome
BY QuietlyIs, GoesOnIs, NoDraws DEF Remember

LEMMA DoneIs ==
  ASSUME fbu.rects > 0, NEW items, AreDraws(items), RectDone(items)
  PROVE  Outcome
BY DEF Outcome, EndsDrawing

LEMMA TightDoneIs ==
  ASSUME fbu.rects > 0, NEW items, AreDraws(items), TightDone(items)
  PROVE  Outcome
BY DoneIs DEF TightDone

LEMMA MessagesLeave ==
  ASSUME StreamInv,
         \/ Bell \/ ServerCutText \/ ServerFence \/ Xvp \/ SetColourMap \/ UnexpectedMessage
         \/ RectHeader
  PROVE  Outcome
<1>1. ASSUME NEW kinds, Skip(kinds)
      PROVE  Outcome
  BY <1>1, QuietlyIs DEF Skip, Outcome, Quietly
<1>2. CASE Bell \/ ServerCutText
  BY <1>1, <1>2 DEF Bell, ServerCutText
<1>3. CASE SetColourMap \/ UnexpectedMessage
  BY <1>3 DEF SetColourMap, UnexpectedMessage, Outcome, Quietly
<1>4. CASE RectHeader
  <2>1. "rects" \in DOMAIN fbu
    BY DEF StreamInv, StreamTypes, FbuTypes
  <2> QED
    BY <1>4, <2>1, QuietlyIs DEF RectHeader, Outcome, Quietly
<1>5. CASE ServerFence \/ Xvp
  <2>1. Waits \/ UNCHANGED <<fbu, drawVars, flushing, askVars>>
    BY <1>5 DEF ServerFence, Xvp
  <2> QED
    BY <2>1, QuietlyIs DEF Outcome, Quietly
<1> QED
  BY <1>2, <1>3, <1>4, <1>5

LEMMA PseudosLeave ==
  ASSUME \/ QemuExtendedKeyEvent \/ Cursor \/ VMwareCursor \/ DesktopName \/ DesktopSize
         \/ ExtendedDesktopSize \/ UnknownEncoding
  PROVE  Outcome
<1>1. ASSUME NEW enc, NEW kinds, WholeRect(enc, kinds)
      PROVE  Outcome
  BY <1>1, QuietlyIs, DoneIs, NoDraws DEF WholeRect, At
<1>2. CASE Cursor \/ DesktopName
  BY <1>1, <1>2 DEF Cursor, DesktopName
<1>3. CASE QemuExtendedKeyEvent
  BY <1>3, DoneIs, NoDraws DEF QemuExtendedKeyEvent, At
<1>4. CASE VMwareCursor
  <2>1. CASE Waits
    BY <2>1, QuietlyIs
  <2>2. CASE UNCHANGED <<failed, fbu, dec, drawVars, flushing, askVars, serverVars>>
    BY <2>2 DEF Outcome, Quietly
  <2>3. CASE RectDone(<<>>)
    BY <1>4, <2>3, DoneIs, NoDraws DEF VMwareCursor, At
  <2> QED
    BY <1>4, <2>1, <2>2, <2>3, Zenon DEF VMwareCursor
<1>5. CASE DesktopSize
  BY <1>5 DEF DesktopSize, At, Outcome
<1>6. CASE ExtendedDesktopSize
  <2>1. fbu.rects > 0
    BY <1>6 DEF ExtendedDesktopSize, At
  <2>2. CASE ResizeDone(fbu.size)
    BY <2>1, <2>2 DEF Outcome
  <2> QED
    BY <1>6, <2>1, <2>2, QuietlyIs, DoneIs, NoDraws DEF ExtendedDesktopSize
<1>7. CASE UnknownEncoding
  BY <1>7, QuietlyIs DEF UnknownEncoding
<1> QED
  BY <1>2, <1>3, <1>4, <1>5, <1>6, <1>7

LEMMA DecodersLeave ==
  ASSUME Raw \/ CopyRect \/ Rre \/ Hextile \/ Zrle \/ Jpeg
  PROVE  Outcome
<1>1. fbu.rects > 0
  BY DEF Raw, CopyRect, Rre, Hextile, Zrle, Jpeg, At
<1>2. ASSUME NEW items, AreDraws(items), NEW memory, NEW stays,
             RectDone(items) \/ RectGoesOn(items, memory, stays)
      PROVE  Outcome
  BY <1>1, <1>2, DoneIs, GoesOnIs
<1>3. CASE Waits \/ Fails
  BY <1>3, QuietlyIs
<1>4. CASE Raw
  <2> DEFINE left == IF dec.lines = 0 THEN fbu.size ELSE dec.lines
             n == Min({left, avail})
             items == FromReceiveQueue(Blit(Lines(left, n)))
             memory == [dec EXCEPT !.lines = left - n]
  <2>1. AreDraws(items)
    BY ActionsAreDraws, ReceivedDraws
  <2>2. RectDone(<<>>) \/ Waits \/ RectDone(items) \/ RectGoesOn(items, memory, FALSE)
    BY <1>4, Zenon DEF Raw
  <2> HIDE DEF items, memory
  <2> QED
    BY <1>2, <1>3, <2>1, <2>2, NoDraws, Zenon
<1>5. CASE CopyRect
  <2> DEFINE items == IF Empty THEN <<>> ELSE CopyImage(Draw("copy", <<>>))
  <2>1. AreDraws(items)
    BY ActionsAreDraws, NoDraws
  <2>2. Waits \/ RectDone(items)
    BY <1>5 DEF CopyRect
  <2> HIDE DEF items
  <2> QED
    BY <1>2, <1>3, <2>1, <2>2, Zenon
<1>6. CASE Rre
  <2> DEFINE start == dec.subrects = 0
             left == IF start THEN wire[1].n ELSE dec.subrects - 1
             items == RreFill(IF start THEN 0 ELSE wire[1].n)
             memory == [dec EXCEPT !.subrects = left]
  <2>1. AreDraws(items)
    BY ActionsAreDraws, ReceivedDraws DEF RreFill
  <2>2. Waits \/ RectDone(items) \/ RectGoesOn(items, memory, TRUE)
    BY <1>6, Zenon DEF Rre
  <2> HIDE DEF items, memory
  <2> QED
    BY <1>2, <1>3, <2>1, <2>2, Zenon
<1>7. CASE Hextile
  <2> DEFINE left == IF dec.tiles = 0 THEN fbu.size ELSE dec.tiles
             sub == wire[1].of
             items == TileItems(sub, wire[1].n)
             memory == [dec EXCEPT !.tiles = left - 1, !.lastRaw = (sub = "raw")]
             waiting == [dec EXCEPT !.tiles = left]
  <2>1. AreDraws(items)
    BY TilesAreDraws
  <2>2. \/ RectDone(<<>>) \/ Waits \/ Fails \/ RectGoesOn(<<>>, waiting, FALSE)
        \/ RectDone(items) \/ RectGoesOn(items, memory, TRUE)
    BY <1>7, Zenon DEF Hextile
  <2> HIDE DEF items, memory, waiting
  <2> QED
    BY <1>2, <1>3, <2>1, <2>2, NoDraws, Zenon
<1>8. CASE Zrle
  <2>1. AreDraws(ZrleItems)
    BY ActionsAreDraws, JoinedDraws DEF ZrleItems
  <2>2. Remember(<<"length">>, [dec EXCEPT !.zLength = TRUE]) \/ Waits \/ RectDone(ZrleItems)
    BY <1>8 DEF Zrle
  <2> QED
    BY <1>1, <1>2, <1>3, <2>1, <2>2, RemembersIs
<1>9. CASE Jpeg
  <2>1. \/ RectGoesOn(<<>>, Parsed, FALSE)
        \/ \E state \in {"loading", "loaded"} :
             RectDone(Image(Draw("image", Assembled(Parsed)), state))
    BY <1>9, Zenon DEF Jpeg, ImageRect
  <2> QED
    BY <1>2, <2>1, NoDraws, ActionsAreDraws
<1> QED
  BY <1>4, <1>5, <1>6, <1>7, <1>8, <1>9

LEMMA TightLeaves ==
  ASSUME AtTight,
         \/ TightControl \/ TightFill \/ TightIllegal \/ TightImage \/ TightFilter
         \/ TightIllegalFilter \/ TightPalette \/ TightPixels
  PROVE  Outcome
<1>1. fbu.rects > 0
  BY DEF AtTight, At
<1>2. ASSUME NEW items, AreDraws(items), TightDone(items)
      PROVE  Outcome
  BY <1>1, <1>2, TightDoneIs
<1>3. CASE TightControl
  BY <1>1, <1>3, RemembersIs DEF TightControl
<1>4. CASE TightFill
  <2>1. Waits \/ TightDone(Fill(<<Draw("fill", <<>>)>>))
    BY <1>4 DEF TightFill
  <2> QED
    BY <1>2, <2>1, QuietlyIs, ActionsAreDraws
<1>5. CASE TightIllegal \/ TightIllegalFilter
  BY <1>5, QuietlyIs DEF TightIllegal, TightIllegalFilter
<1>6. CASE DataLength
  BY <1>1, <1>6, RemembersIs DEF DataLength
<1>7. CASE TightImage
  <2>1. \/ DataLength \/ Waits \/ TightDone(<<>>)
        \/ \E state \in {"loading", "loaded"} : TightDone(Image(Draw(dec.ctl, <<>>), state))
    BY <1>7, Zenon DEF TightImage, ImageRect
  <2> QED
    BY <1>2, <1>6, <2>1, QuietlyIs, NoDraws, ActionsAreDraws
<1>8. CASE TightFilter
  <2>1. \/ RectGoesOn(<<>>, [dec EXCEPT !.filter = "copy"], TRUE)
        \/ Remember(<<"filter">>, [dec EXCEPT !.filter = wire[1].of])
    BY <1>8 DEF TightFilter
  <2> QED
    BY <1>1, <2>1, GoesOnIs, RemembersIs, NoDraws
<1>9. CASE TightPalette
  <2>1. Waits \/ RectGoesOn(<<>>, [dec EXCEPT !.numColors = wire[1].n], TRUE)
    BY <1>9 DEF TightPalette
  <2> QED
    BY <1>1, <2>1, QuietlyIs, GoesOnIs, NoDraws
<1>10. CASE TightPixels
  <2> DEFINE items == Blit(<<Draw("pixels", <<>>)>>)
  <2>1. DataLength \/ Waits \/ RectDone(<<>>) \/ TightDone(items)
    BY <1>10, Zenon DEF TightPixels
  <2>2. AreDraws(items)
    BY ActionsAreDraws
  <2> HIDE DEF items
  <2> QED
    BY <1>1, <1>2, <1>6, <2>1, <2>2, QuietlyIs, DoneIs, NoDraws
<1> QED
  BY <1>3, <1>4, <1>5, <1>7, <1>8, <1>9, <1>10

LEMMA HandlersLeave == ASSUME StreamInv, Handle PROVE Outcome
<1>1. CASE BeginUpdate \/ LastRect \/ EndOfContinuousUpdates
  BY <1>1 DEF Outcome
<1>2. CASE \/ Bell \/ ServerCutText \/ ServerFence \/ Xvp \/ SetColourMap \/ UnexpectedMessage
           \/ RectHeader
  BY <1>2, MessagesLeave
<1>3. CASE \/ QemuExtendedKeyEvent \/ Cursor \/ VMwareCursor \/ DesktopName \/ DesktopSize
           \/ ExtendedDesktopSize \/ UnknownEncoding
  BY <1>3, PseudosLeave
<1>4. CASE Raw \/ CopyRect \/ Rre \/ Hextile \/ Zrle \/ Jpeg
  BY <1>4, DecodersLeave
<1>5. CASE \/ TightControl \/ TightFill \/ TightIllegal \/ TightImage \/ TightFilter
           \/ TightIllegalFilter \/ TightPalette \/ TightPixels
  <2>1. AtTight
    BY <1>5 DEF TightControl, TightFill, TightIllegal, TightImage, TightFilter,
       TightIllegalFilter, TightPalette, TightPixels, Basic
  <2> QED
    BY <1>5, <2>1, TightLeaves
<1> QED
  BY <1>1, <1>2, <1>3, <1>4, <1>5 DEF Handle

-----------------------------------------------------------------------------
(* The render queue *)

\* Its first action waits for an image; after the flip of an update only changes
\* of the view wait, and then no rectangle is read before it is empty.
OneFlip(q) ==
  \A i, j \in 1 .. Len(q) : q[i].type = "flip" /\ i < j => q[j].type = "viewFlip"
NoFlip(q) == \A i \in 1 .. Len(q) : q[i].type # "flip"
DrawInv ==
  /\ AreActions(queue) /\ (queue # <<>> => ~Ready(queue[1]))
  /\ damaged \in BOOLEAN /\ wrong \in BOOLEAN /\ flushing \in BOOLEAN
  /\ flushing => ~running /\ queue # <<>>
  /\ OneFlip(queue) /\ (NoFlip(queue) \/ fbu.rects = 0 \/ flushing)

LEMMA JoinedActions ==
  ASSUME NEW a, NEW b, AreActions(a), AreActions(b)
  PROVE  AreActions(a \o b)
<1>1. PICK S : a \in Seq(S) /\ \A x \in S : IsAction(x)
  BY DEF AreActions
<1>2. PICK T : b \in Seq(T) /\ \A x \in T : IsAction(x)
  BY DEF AreActions
<1>3. a \in Seq(S \cup T) /\ b \in Seq(S \cup T)
  BY <1>1, <1>2, Zenon, SeqMonotonic
<1>4. a \o b \in Seq(S \cup T)
  BY <1>3
<1>5. \A x \in S \cup T : IsAction(x)
  BY <1>1, <1>2
<1> QED
  BY <1>4, <1>5 DEF AreActions

LEMMA ActionsAre ==
  ASSUME NEW a, AreActions(a)
  PROVE  /\ Len(a) \in Nat /\ (Len(a) = 0 <=> a = <<>>)
         /\ \A i \in 1 .. Len(a) : IsAction(a[i])
<1>1. PICK S : a \in Seq(S) /\ \A x \in S : IsAction(x)
  BY DEF AreActions
<1>2. Len(a) \in Nat /\ (Len(a) = 0 <=> a = <<>>) /\ \A i \in 1 .. Len(a) : a[i] \in S
  BY <1>1, LenProperties, EmptySeq, ElementOfSeq
<1> QED
  BY <1>1, <1>2

LEMMA JoinedItems ==
  ASSUME NEW a, NEW b, AreActions(a), AreActions(b)
  PROVE  /\ Len(a \o b) = Len(a) + Len(b)
         /\ \A i \in 1 .. Len(a) : (a \o b)[i] = a[i]
         /\ \A i \in 1 .. Len(b) : (a \o b)[Len(a) + i] = b[i]
<1>1. PICK S : a \in Seq(S) /\ \A x \in S : IsAction(x)
  BY DEF AreActions
<1>2. PICK T : b \in Seq(T) /\ \A x \in T : IsAction(x)
  BY DEF AreActions
<1>3. a \in Seq(S \cup T) /\ b \in Seq(S \cup T)
  BY <1>1, <1>2, Zenon, SeqMonotonic
<1> QED
  BY <1>3, Joined

\* What is left of the queue.
Left(q, n, left) ==
  /\ AreActions(left) /\ n \in 0 .. Len(q) /\ Len(left) = Len(q) - n
  /\ \A i \in 1 .. Len(left) : left[i] = q[n + i]

LEMMA SuffixIs ==
  ASSUME NEW q, AreActions(q), NEW n \in 0 .. Len(q)
  PROVE  Left(q, n, SubSeq(q, n + 1, Len(q)))
<1>1. PICK S : q \in Seq(S) /\ \A x \in S : IsAction(x)
  BY DEF AreActions
<1> DEFINE left == SubSeq(q, n + 1, Len(q))
<1>2. left \in Seq(S) /\ Len(left) = Len(q) - n
      /\ \A i \in 1 .. Len(q) - n : left[i] = q[n + i]
  BY <1>1, Dropped
<1> HIDE DEF left
<1>3. AreActions(left)
  BY <1>1, <1>2 DEF AreActions
<1>4. Left(q, n, left)
  BY <1>2, <1>3 DEF Left
<1> QED
  BY <1>4 DEF left

\* _scanRenderQ.
LEMMA ScanLeaves ==
  ASSUME NEW q, AreActions(q), Scan(q), damaged \in BOOLEAN, wrong \in BOOLEAN
  PROVE  /\ damaged' \in BOOLEAN /\ wrong' \in BOOLEAN
         /\ \E n : Left(q, n, queue')
         /\ queue' # <<>> => ~Ready(queue'[1])
         /\ (\E i \in 1 .. Len(q) : ~Ready(q[i])) => queue' # <<>>
<1> DEFINE n == ReadyCount(q)
           late == {i \in 1 .. Len(q) : ~Ready(q[i])}
           items == SubSeq(q, 1, n)
<1>1. Execute(items) /\ queue' = SubSeq(q, n + 1, Len(q))
  BY DEF Scan
<1>2. Len(q) \in Nat /\ late \in SUBSET Nat
  BY ActionsAre
<1>3. CASE late = {}
  <2>1. n = Len(q)
    BY <1>3 DEF ReadyCount
  <2>2. n \in 0 .. Len(q)
    BY <1>2, <2>1
  <2> HIDE DEF n
  <2>3. Left(q, n, queue')
    BY <1>1, <2>2, SuffixIs
  <2>4. Len(queue') = 0 /\ AreActions(queue')
    BY <1>2, <2>1, <2>3 DEF Left
  <2>5. queue' = <<>>
    BY <2>4, ActionsAre
  <2>6. damaged' \in BOOLEAN /\ wrong' \in BOOLEAN
    <3>1. \A i : (items[i].type \notin Flips) \in BOOLEAN
      OBVIOUS
    <3>2. (damaged' = damaged \/ \E i : damaged' = (items[i].type \notin Flips))
          /\ (wrong' = wrong \/ wrong' = TRUE)
      BY <1>1, Zenon DEF Execute
    <3> QED
      BY <3>1, <3>2, Zenon
  <2> QED
    BY <1>3, <2>3, <2>5, <2>6
<1>4. CASE late # {}
  <2>1. n = Min(late) - 1
    BY <1>4 DEF ReadyCount
  <2>2. Min(late) \in late
    BY <1>2, <1>4, LeastIsInIt
  <2>3. n \in 0 .. Len(q) /\ n + 1 \in 1 .. Len(q) /\ ~Ready(q[n + 1])
    <3>1. Min(late) \in 1 .. Len(q) /\ ~Ready(q[Min(late)])
      BY <2>2
    <3>2. (Min(late) - 1) + 1 = Min(late) /\ Min(late) - 1 \in 0 .. Len(q)
      BY <1>2, <3>1
    <3> QED
      BY <2>1, <3>1, <3>2
  <2> HIDE DEF n
  <2>4. Left(q, n, queue')
    BY <1>1, <2>3, SuffixIs
  <2>5. 1 \in 1 .. Len(queue') /\ queue'[1] = q[n + 1]
    BY <1>2, <2>3, <2>4 DEF Left
  <2>6. damaged' \in BOOLEAN /\ wrong' \in BOOLEAN
    <3>1. \A i : (items[i].type \notin Flips) \in BOOLEAN
      OBVIOUS
    <3>2. (damaged' = damaged \/ \E i : damaged' = (items[i].type \notin Flips))
          /\ (wrong' = wrong \/ wrong' = TRUE)
      BY <1>1, Zenon DEF Execute
    <3> QED
      BY <3>1, <3>2, Zenon
  <2>7. queue' # <<>>
    BY <2>5
  <2> QED
    BY <2>3, <2>4, <2>5, <2>6, <2>7
<1> QED
  BY <1>3, <1>4

LEMMA LeftFlips ==
  ASSUME NEW q, NEW n, NEW left, AreActions(q), Left(q, n, left)
  PROVE  /\ OneFlip(q) => OneFlip(left)
         /\ NoFlip(q) => NoFlip(left)
<1>1. Len(q) \in Nat /\ n \in 0 .. Len(q) /\ Len(left) = Len(q) - n
      /\ \A i \in 1 .. Len(left) : left[i] = q[n + i]
  BY ActionsAre DEF Left
<1>2. \A i, j \in 1 .. Len(left) : n + i \in 1 .. Len(q) /\ (i < j => n + i < n + j)
  BY <1>1
<1> QED
  BY <1>1, <1>2 DEF OneFlip, NoFlip

LEMMA DrawsHaveNoFlip ==
  ASSUME NEW q, AreActions(q), NoFlip(q), NEW items, AreDraws(items)
  PROVE  AreActions(q \o items) /\ NoFlip(q \o items)
<1>1. AreActions(items)
  BY DrawsAreActions
<1>2. \A i \in 1 .. Len(items) : items[i].type # "flip"
  <2>1. PICK S : items \in Seq(S) /\ \A x \in S : IsDraw(x)
    BY DEF AreDraws
  <2>2. \A i \in 1 .. Len(items) : items[i] \in S
    BY <2>1, ElementOfSeq
  <2> QED
    BY <2>1, <2>2 DEF IsDraw
<1>3. Len(q) \in Nat /\ Len(items) \in Nat
  BY <1>1, ActionsAre
<1>4. /\ Len(q \o items) = Len(q) + Len(items)
      /\ \A i \in 1 .. Len(q) : (q \o items)[i] = q[i]
      /\ \A i \in 1 .. Len(items) : (q \o items)[Len(q) + i] = items[i]
  BY <1>1, JoinedItems
<1>5. ASSUME NEW i \in 1 .. Len(q \o items)
      PROVE  (q \o items)[i].type # "flip"
  <2>1. CASE i \in 1 .. Len(q)
    BY <1>4, <2>1 DEF NoFlip
  <2>2. CASE i \notin 1 .. Len(q)
    <3>1. i - Len(q) \in 1 .. Len(items) /\ Len(q) + (i - Len(q)) = i
      BY <1>3, <1>4, <2>2
    <3> QED
      BY <1>2, <1>4, <3>1
  <2> QED
    BY <2>1, <2>2
<1>6. AreActions(q \o items)
  BY <1>1, JoinedActions
<1> QED
  BY <1>5, <1>6 DEF NoFlip

LEMMA FlipIs ==
  ASSUME NEW type \in Flips, NEW flip,
         flip = <<[type |-> type, draws |-> <<>>, img |-> "loaded"]>>
  PROVE  AreActions(flip) /\ Len(flip) = 1 /\ flip[1].type = type
<1> DEFINE x == [type |-> type, draws |-> <<>>, img |-> "loaded"]
           S == {x}
<1>1. IsAction(x) /\ x.type = type
  BY DEF IsAction
<1> HIDE DEF x
<1>2. <<x>> \in Seq(S) /\ Len(<<x>>) = 1 /\ <<x>>[1] = x
  OBVIOUS
<1>3. \A y \in S : IsAction(y)
  BY <1>1
<1> HIDE DEF S
<1>4. AreActions(<<x>>)
  BY <1>2, <1>3 DEF AreActions
<1> QED
  BY <1>1, <1>2, <1>4 DEF x

LEMMA FlipIsLast ==
  ASSUME NEW q, AreActions(q), NoFlip(q)
  PROVE  AreActions(q \o Flip) /\ OneFlip(q \o Flip)
<1>1. AreActions(Flip) /\ Len(Flip) = 1
  BY FlipIs DEF Flip, Flips
<1>2. Len(q) \in Nat
  BY ActionsAre
<1>3. Len(q \o Flip) = Len(q) + 1 /\ \A i \in 1 .. Len(q) : (q \o Flip)[i] = q[i]
  <2>1. /\ Len(q \o Flip) = Len(q) + Len(Flip)
        /\ \A i \in 1 .. Len(q) : (q \o Flip)[i] = q[i]
    BY <1>1, JoinedItems, Zenon
  <2> QED
    BY <1>1, <2>1
<1>4. \A i \in 1 .. Len(q \o Flip) : i \in 1 .. Len(q) \/ i = Len(q \o Flip)
  BY <1>2, <1>3
<1>5. AreActions(q \o Flip)
  BY <1>1, JoinedActions
<1> QED
  BY <1>3, <1>4, <1>5 DEF OneFlip, NoFlip

LEMMA FlipJoins ==
  ASSUME NEW q, NEW items, AreActions(q), AreActions(items)
  PROVE  q \o (items \o Flip) = (q \o items) \o Flip
<1>1. PICK S : q \in Seq(S)
  BY DEF AreActions
<1>2. PICK T : items \in Seq(T)
  BY DEF AreActions
<1>3. \E U : Flip \in Seq(U)
  <2> DEFINE x == [type |-> "flip", draws |-> <<>>, img |-> "loaded"]
             V == {x}
  <2>1. Flip \in Seq(V)
    BY DEF Flip
  <2> HIDE DEF V
  <2> QED
    BY <2>1
<1>4. PICK U : Flip \in Seq(U)
  BY <1>3
<1> DEFINE W == S \cup T \cup U
<1>5. q \in Seq(W) /\ items \in Seq(W) /\ Flip \in Seq(W)
  BY <1>1, <1>2, <1>4, Zenon, SeqMonotonic
<1> HIDE DEF W
<1> QED
  BY <1>5, ConcatAssociative

-----------------------------------------------------------------------------
(* Every step, again *)

\* What remains, once the queue has been run.
LEMMA PutKeepsDraws ==
  ASSUME DrawInv, NEW items, AreActions(queue \o items), Put(items), OneFlip(queue \o items),
         flushing' = flushing, ~flushing,
         NoFlip(queue \o items) \/ fbu'.rects = 0
  PROVE  DrawInv'
<1> DEFINE q == queue \o items
<1>1. AreActions(q) /\ Scan(q) /\ OneFlip(q) /\ (NoFlip(q) \/ fbu'.rects = 0)
      /\ damaged \in BOOLEAN /\ wrong \in BOOLEAN
  BY DEF Put, DrawInv
<1> HIDE DEF q
<1>2. /\ damaged' \in BOOLEAN /\ wrong' \in BOOLEAN
      /\ \E n : Left(q, n, queue')
      /\ queue' # <<>> => ~Ready(queue'[1])
  BY <1>1, ScanLeaves
<1>3. PICK n : Left(q, n, queue')
  BY <1>2
<1>4. AreActions(queue') /\ OneFlip(queue') /\ (NoFlip(queue') \/ fbu'.rects = 0)
  BY <1>1, <1>3, LeftFlips DEF Left
<1>5. flushing' \in BOOLEAN /\ ~flushing'
  BY DEF DrawInv
<1>6. Ready(queue[1])' = Ready(queue'[1])
  BY DEF Ready
<1> QED
  BY <1>2, <1>4, <1>5 DEF DrawInv, Ready

LEMMA AloneKeepsDraws ==
  ASSUME DrawInv, ~flushing, UNCHANGED <<drawVars, flushing>>,
         fbu'.rects = fbu.rects \/ queue = <<>>
  PROVE  DrawInv'
<1>1. NoFlip(<<>>)
  BY DEF NoFlip
<1> QED
  BY <1>1 DEF DrawInv, drawVars, Ready, NoFlip, OneFlip

LEMMA DrawsKeepDraws ==
  ASSUME DrawInv, ~flushing, fbu.rects # 0, NEW items, AreDraws(items), flushing' = flushing,
         \/ Put(items)
         \/ Put(items \o Flip) /\ fbu'.rects = 0
  PROVE  DrawInv'
<1>1. NoFlip(queue) /\ AreActions(queue)
  BY DEF DrawInv
<1>2. AreActions(queue \o items) /\ NoFlip(queue \o items)
  BY <1>1, DrawsHaveNoFlip
<1>3. CASE Put(items)
  <2>1. OneFlip(queue \o items)
    BY <1>2 DEF OneFlip, NoFlip
  <2> QED
    BY <1>2, <1>3, <2>1, PutKeepsDraws
<1>4. CASE Put(items \o Flip) /\ fbu'.rects = 0
  <2>1. AreActions((queue \o items) \o Flip) /\ OneFlip((queue \o items) \o Flip)
    BY <1>2, FlipIsLast
  <2>2. queue \o (items \o Flip) = (queue \o items) \o Flip
    BY <1>1, DrawsAreActions, FlipJoins
  <2>3. AreActions(queue \o (items \o Flip)) /\ OneFlip(queue \o (items \o Flip))
    BY <2>1, <2>2
  <2> QED
    BY <1>4, <2>3, PutKeepsDraws
<1> QED
  BY <1>3, <1>4

LEMMA HandlersRun == ASSUME Handle PROVE running
BY DEF Handle, BeginUpdate, Bell, ServerCutText, ServerFence, Xvp, EndOfContinuousUpdates,
   SetColourMap, UnexpectedMessage, RectHeader, LastRect, QemuExtendedKeyEvent, Cursor,
   VMwareCursor, DesktopName, WholeRect, DesktopSize, ExtendedDesktopSize, UnknownEncoding, Raw,
   CopyRect, Rre, Hextile, TightControl, TightFill, TightIllegal, TightImage, TightFilter,
   TightIllegalFilter, TightPalette, TightPixels, Basic, AtTight, Zrle, Jpeg, At, Skip, NextIs,
   BetweenMessages

\* The handlers keep the queue as it should be.
LEMMA HandlersKeepDraws == ASSUME StreamInv, DrawInv, Handle PROVE DrawInv'
<1>1. running /\ ~flushing /\ Outcome
  BY HandlersRun, HandlersLeave DEF DrawInv
<1>2. fbu.rects \in Nat
  BY DEF StreamInv, StreamTypes, FbuTypes
<1>3. CASE Quietly
  BY <1>1, <1>3, AloneKeepsDraws DEF Quietly
<1>4. CASE GoesOnDrawing
  <2>1. PICK items : AreDraws(items) /\ Put(items) /\ UNCHANGED <<fbu, flushing, askVars>>
    BY <1>4 DEF GoesOnDrawing
  <2> QED
    BY <1>1, <1>2, <1>4, <2>1, DrawsKeepDraws DEF GoesOnDrawing
<1>5. ASSUME fbu.rects > 0, NEW items, AreDraws(items), flushing' = flushing,
             fbu' = IF RectsLeft = 0 THEN NoRect ELSE [NoRect EXCEPT !.rects = RectsLeft],
             IF RectsLeft = 0 THEN Put(items \o Flip) ELSE Put(items)
      PROVE  DrawInv'
  <2>1. fbu.rects # 0 /\ (RectsLeft = 0 => fbu'.rects = 0)
    BY <1>2, <1>5 DEF NoRect
  <2> QED
    BY <1>1, <1>5, <2>1, DrawsKeepDraws
<1>6. CASE EndsDrawing
  <2>1. PICK items : AreDraws(items) /\ RectDone(items)
    BY <1>6 DEF EndsDrawing
  <2> QED
    BY <1>5, <1>6, <2>1 DEF EndsDrawing, RectDone, EndUpdate
<1>7. ASSUME fbu.rects > 0, NEW size, ResizeDone(size)
      PROVE  DrawInv'
  <2>1. flushing' = flushing
        /\ fbu' = IF RectsLeft = 0 THEN NoRect ELSE [NoRect EXCEPT !.rects = RectsLeft]
    BY <1>7 DEF ResizeDone
  <2>2. PICK views \in {<<>>, ViewFlip} :
          IF RectsLeft = 0 THEN Put(views \o Flip) ELSE Put(views)
    BY <1>7 DEF ResizeDone
  <2>3. AreDraws(views)
    BY ActionsAreDraws
  <2> QED
    BY <1>5, <1>7, <2>1, <2>2, <2>3
<1>8. CASE LastRect
  <2>1. fbu.rects # 0 /\ fbu'.rects = 0 /\ Put(<<>> \o Flip) /\ flushing' = flushing
    BY <1>2, <1>8 DEF LastRect, At, EndUpdate, NoRect
  <2> QED
    BY <1>1, <2>1, NoDraws, DrawsKeepDraws
<1>9. CASE EndOfContinuousUpdates
  BY <1>1, <1>9, AloneKeepsDraws DEF EndOfContinuousUpdates
<1>10. CASE BeginUpdate
  <2>1. CASE Waits
    BY <1>1, <2>1, AloneKeepsDraws DEF Waits
  <2>2. CASE ~Waits /\ Pending
    <3>1. flushing' = TRUE /\ running' = FALSE /\ UNCHANGED drawVars /\ queue # <<>>
      BY <1>10, <2>2 DEF BeginUpdate, Pending
    <3> QED
      BY <3>1 DEF DrawInv, drawVars, Ready, NoFlip, OneFlip
  <2>3. CASE ~Waits /\ ~Pending
    <3>1. queue = <<>> /\ UNCHANGED flushing
          /\ fbu' = [NoRect EXCEPT !.rects = wire[2].n]
          /\ IF wire[2].n = 0 THEN EndUpdate(<<>>, fbSize)
             ELSE UNCHANGED <<drawVars, running, area, asked>>
      BY <1>10, <2>3, Zenon DEF BeginUpdate, Pending
    <3>2. CASE wire[2].n # 0
      <4>1. UNCHANGED drawVars
        BY <3>1, <3>2
      <4> QED
        BY <1>1, <3>1, <4>1, AloneKeepsDraws
    <3>3. CASE wire[2].n = 0
      <4>1. fbu'.rects = 0 /\ Put(<<>> \o Flip)
        BY <3>1, <3>3 DEF NoRect, EndUpdate
      <4>2. <<>> \o Flip = Flip /\ queue \o Flip = <<>> \o Flip
        BY <3>1 DEF Flip
      <4>3. AreActions(<<>> \o Flip) /\ OneFlip(<<>> \o Flip)
        <5>1. AreActions(<<>>) /\ NoFlip(<<>>)
          BY NoDraws, DrawsAreActions DEF NoFlip
        <5> QED
          BY <5>1, FlipIsLast
      <4> QED
        BY <1>1, <3>1, <4>1, <4>2, <4>3, PutKeepsDraws
    <3> QED
      BY <3>2, <3>3
  <2> QED
    BY <2>1, <2>2, <2>3
<1> QED
  BY <1>1, <1>3, <1>4, <1>6, <1>7, <1>8, <1>9, <1>10 DEF Outcome

LEMMA ViewsKeepDraws == ASSUME DrawInv, ViewChanges PROVE DrawInv'
<1> DEFINE q == queue \o ViewFlip
<1>1. /\ Scan(q) /\ UNCHANGED <<running, flushing, fbu>>
      /\ AreActions(queue) /\ damaged \in BOOLEAN /\ wrong \in BOOLEAN
  BY DEF ViewChanges, Put, DrawInv
<1>2. AreActions(ViewFlip) /\ Len(ViewFlip) = 1 /\ ViewFlip[1].type = "viewFlip"
  BY FlipIs DEF ViewFlip, Flips
<1>3. Len(queue) \in Nat /\ (Len(queue) = 0 <=> queue = <<>>)
  BY <1>1, ActionsAre
<1>4. /\ Len(q) = Len(queue) + 1 /\ (\A i \in 1 .. Len(queue) : q[i] = queue[i])
      /\ q[Len(queue) + 1].type = "viewFlip"
  <2>1. /\ Len(q) = Len(queue) + Len(ViewFlip)
        /\ \A i \in 1 .. Len(queue) : q[i] = queue[i]
        /\ \A i \in 1 .. Len(ViewFlip) : q[Len(queue) + i] = ViewFlip[i]
    BY <1>1, <1>2, JoinedItems
  <2> HIDE DEF q
  <2>2. 1 \in 1 .. Len(ViewFlip)
    BY <1>2
  <2> QED
    BY <1>2, <2>1, <2>2
<1>5. AreActions(q)
  BY <1>1, <1>2, JoinedActions
<1> HIDE DEF q
<1>6. \A i \in 1 .. Len(q) : i \in 1 .. Len(queue) \/ i = Len(queue) + 1
  BY <1>3, <1>4
<1>7. OneFlip(q)
  <2> SUFFICES ASSUME NEW i \in 1 .. Len(q), NEW j \in 1 .. Len(q), q[i].type = "flip", i < j
               PROVE  q[j].type = "viewFlip"
    BY DEF OneFlip
  <2>1. i \in 1 .. Len(queue)
    BY <1>3, <1>4
  <2>2. queue[i].type = "flip"
    BY <1>4, <2>1
  <2> QED
    BY <1>4, <1>6, <2>1, <2>2 DEF DrawInv, OneFlip
<1>8. NoFlip(queue) => NoFlip(q)
  BY <1>4, <1>6 DEF NoFlip
<1>9. /\ damaged' \in BOOLEAN /\ wrong' \in BOOLEAN
      /\ \E n : Left(q, n, queue')
      /\ queue' # <<>> => ~Ready(queue'[1])
      /\ (\E i \in 1 .. Len(q) : ~Ready(q[i])) => queue' # <<>>
  BY <1>1, <1>5, ScanLeaves
<1>10. PICK n : Left(q, n, queue')
  BY <1>9
<1>11. AreActions(queue') /\ OneFlip(queue') /\ (NoFlip(queue) => NoFlip(queue'))
  BY <1>5, <1>7, <1>8, <1>10, LeftFlips DEF Left
<1>12. queue # <<>> => queue' # <<>>
  <2> SUFFICES ASSUME queue # <<>> PROVE queue' # <<>>
    OBVIOUS
  <2>1. ~Ready(queue[1]) /\ 1 \in 1 .. Len(queue) /\ 1 \in 1 .. Len(q)
    BY <1>3, <1>4 DEF DrawInv
  <2>2. ~Ready(q[1])
    BY <1>4, <2>1
  <2> QED
    BY <1>9, <2>1, <2>2
<1> QED
  BY <1>1, <1>9, <1>11, <1>12 DEF DrawInv, Ready

LEMMA ImagesKeepDraws ==
  ASSUME StreamInv, DrawInv, NEW i \in 1 .. Len(queue), ImageLoads(i) \/ ImageBreaks(i)
  PROVE  DrawInv'
<1>1. /\ AreActions(queue) /\ Len(queue) \in Nat /\ IsAction(queue[i]) /\ OneFlip(queue)
      /\ NoFlip(queue) \/ fbu.rects = 0 \/ flushing
  BY ActionsAre DEF DrawInv
<1>2. UNCHANGED fbu /\ running = FALSE
  BY DEF ImageLoads, ImageBreaks, StreamInv, StreamTypes
\* An image that has become loaded, or broken, is the action it was.
<1>3. ASSUME NEW state
      PROVE  LET now == [queue EXCEPT ![i].img = state] IN
             /\ AreActions(now) /\ Len(now) = Len(queue) /\ now[i].img = state
             /\ \A j \in 1 .. Len(queue) : j # i => now[j] = queue[j]
             /\ OneFlip(now) /\ (NoFlip(now) \/ fbu.rects = 0 \/ flushing)
  <2> DEFINE x == [queue[i] EXCEPT !.img = state]
             now == [queue EXCEPT ![i].img = state]
  <2>1. IsAction(x) /\ x.type = queue[i].type /\ x.img = state
    BY <1>1 DEF IsAction
  <2>2. now = [queue EXCEPT ![i] = x]
    OBVIOUS
  <2>3. PICK S : queue \in Seq(S) /\ \A y \in S : IsAction(y)
    BY <1>1 DEF AreActions
  <2> HIDE DEF x, now
  <2> DEFINE T == S \cup {x}
  <2>4. queue \in Seq(T) /\ x \in T /\ \A y \in T : IsAction(y)
    BY <2>1, <2>3, Zenon, SeqMonotonic
  <2> HIDE DEF T
  <2>5. now \in Seq(T) /\ Len(now) = Len(queue) /\ now[i] = x
        /\ \A j \in 1 .. Len(queue) : j # i => now[j] = queue[j]
    BY <2>2, <2>4, ExceptSeq
  <2>6. AreActions(now)
    BY <2>4, <2>5 DEF AreActions
  <2>7. \A j \in 1 .. Len(queue) : now[j].type = queue[j].type
    BY <2>1, <2>5
  <2>8. OneFlip(now) /\ (NoFlip(queue) => NoFlip(now))
    BY <1>1, <2>5, <2>7 DEF OneFlip, NoFlip
  <2> QED
    BY <1>1, <2>1, <2>5, <2>6, <2>8 DEF now
<1>4. CASE ImageLoads(i)
  <2> DEFINE now == [queue EXCEPT ![i].img = "loaded"]
  <2>1. /\ IF i = 1 THEN Scan(now) ELSE queue' = now /\ UNCHANGED <<damaged, due, wrong>>
        /\ flushing' = StillFlushing
        /\ running' = (flushing /\ ~flushing' /\ avail > 0 /\ ~failed)
    BY <1>4 DEF ImageLoads
  <2>2. /\ AreActions(now) /\ Len(now) = Len(queue)
        /\ \A j \in 1 .. Len(queue) : j # i => now[j] = queue[j]
        /\ OneFlip(now) /\ (NoFlip(now) \/ fbu.rects = 0 \/ flushing)
    BY <1>3
  <2> HIDE DEF now
  <2>3. /\ AreActions(queue') /\ (queue' # <<>> => ~Ready(queue'[1]))
        /\ damaged' \in BOOLEAN /\ wrong' \in BOOLEAN
        /\ OneFlip(queue') /\ (NoFlip(queue') \/ fbu.rects = 0 \/ flushing)
    <3>1. CASE i = 1
      <4>1. Scan(now)
        BY <2>1, <3>1
      <4>2. /\ damaged' \in BOOLEAN /\ wrong' \in BOOLEAN
            /\ \E n : Left(now, n, queue')
            /\ queue' # <<>> => ~Ready(queue'[1])
        BY <2>2, <4>1, ScanLeaves DEF DrawInv
      <4>3. PICK n : Left(now, n, queue')
        BY <4>2
      <4> QED
        BY <2>2, <4>2, <4>3, LeftFlips DEF Left
    <3>2. CASE i # 1
      <4>1. queue' = now /\ UNCHANGED <<damaged, wrong>>
        BY <2>1, <3>2
      <4>2. 1 \in 1 .. Len(queue) /\ 1 # i
        BY <1>1, <3>2
      <4>3. queue'[1] = queue[1] /\ queue # <<>>
        BY <2>2, <4>1, <4>2
      <4> QED
        BY <2>2, <4>1, <4>3 DEF DrawInv
    <3> QED
      BY <3>1, <3>2
  <2>4. flushing' = (flushing /\ queue' # <<>>)
    BY <2>1 DEF StillFlushing
  <2>5. flushing' \in BOOLEAN /\ (flushing' => ~running' /\ queue' # <<>>)
    <3>1. (flushing /\ queue' # <<>>) \in BOOLEAN
      OBVIOUS
    <3>2. flushing' \in BOOLEAN
      BY <2>4, <3>1, Zenon
    <3>3. ASSUME flushing' PROVE ~running' /\ queue' # <<>>
      <4>1. queue' # <<>>
        BY <2>4, <3>3, Zenon
      <4>2. ~(flushing /\ ~flushing' /\ avail > 0 /\ ~failed)
        BY <3>3, Zenon
      <4>3. ~running'
        BY <2>1, <4>2, Zenon
      <4> QED
        BY <4>1, <4>3
    <3> QED
      BY <3>2, <3>3
  <2>6. NoFlip(queue') \/ fbu'.rects = 0 \/ flushing'
    <3>1. CASE queue' = <<>>
      BY <3>1 DEF NoFlip
    <3>2. CASE queue' # <<>>
      BY <1>2, <2>3, <2>4, <3>2
    <3> QED
      BY <3>1, <3>2
  <2> QED
    BY <2>3, <2>5, <2>6 DEF DrawInv, Ready
<1>5. CASE ImageBreaks(i)
  <2> DEFINE now == [queue EXCEPT ![i].img = "broken"]
  <2>1. queue' = now /\ UNCHANGED <<running, flushing, damaged, wrong>>
    BY <1>5 DEF ImageBreaks
  <2>2. /\ AreActions(now) /\ Len(now) = Len(queue) /\ now[i].img = "broken"
        /\ \A j \in 1 .. Len(queue) : j # i => now[j] = queue[j]
        /\ OneFlip(now) /\ (NoFlip(now) \/ fbu.rects = 0 \/ flushing)
    BY <1>3
  <2> HIDE DEF now
  <2>3. 1 \in 1 .. Len(queue) /\ queue # <<>>
    BY <1>1
  <2>4. ~Ready(queue'[1])
    <3>1. CASE i = 1
      BY <2>1, <2>2, <3>1 DEF Ready
    <3>2. CASE i # 1
      <4>1. queue'[1] = queue[1]
        BY <2>1, <2>2, <2>3, <3>2
      <4> QED
        BY <2>3, <4>1 DEF DrawInv
    <3> QED
      BY <3>1, <3>2
  <2>5. queue' # <<>>
    <3>1. Len(queue') # 0
      BY <2>1, <2>2, <2>3
    <3> QED
      BY <3>1
  <2> QED
    BY <1>2, <2>1, <2>2, <2>4, <2>5 DEF DrawInv, Ready
<1> QED
  BY <1>4, <1>5

LEMMA DrawsNext == ASSUME StreamInv, DrawInv, [Next]_vars PROVE DrawInv'
<1>1. CASE Handle
  BY <1>1, HandlersKeepDraws
<1>2. ASSUME NEW n \in 1 .. Len(wire), Arrive(n)
      PROVE  DrawInv'
  <2>1. UNCHANGED <<queue, damaged, wrong, flushing, fbu>> /\ running' = ~flushing /\ ~running
    BY <1>2 DEF Arrive, drawVars
  <2> QED
    BY <2>1 DEF DrawInv, Ready
<1>3. ASSUME NEW i \in 1 .. Len(queue), ImageLoads(i) \/ ImageBreaks(i)
      PROVE  DrawInv'
  BY <1>3, ImagesKeepDraws
<1>4. ASSUME UNCHANGED <<queue, damaged, wrong, flushing, fbu, running>>
      PROVE  DrawInv'
  BY <1>4 DEF DrawInv, Ready
<1>5. CASE \E p \in pictures : SendUpdate(p)
  BY <1>4, <1>5 DEF SendUpdate
<1>6. CASE \E o \in OtherMessages : SendOther(o)
  BY <1>4, <1>6 DEF SendOther, drawVars
<1>7. CASE UNCHANGED vars
  BY <1>4, <1>7 DEF vars, drawVars
<1>8. CASE ViewChanges
  BY <1>8, ViewsKeepDraws
<1> QED
  BY <1>1, <1>2, <1>3, <1>5, <1>6, <1>7, <1>8 DEF Next

LEMMA DrawsInit == Init => DrawInv
<1>1. AreActions(<<>>) /\ NoFlip(<<>>) /\ OneFlip(<<>>)
  BY NoDraws, DrawsAreActions DEF NoFlip, OneFlip
<1> QED
  BY <1>1 DEF Init, DrawInv

-----------------------------------------------------------------------------
(* What has been asked for *)

\* The viewer asks for the whole framebuffer, except between a resizing and the
\* end of the update in which it came.
AskInv ==
  /\ area \in Sizes /\ asked \in BOOLEAN /\ continuous \in BOOLEAN /\ supportsCU \in BOOLEAN
  /\ area = fbSize \/ (fbu.rects > 0 /\ ~continuous)

LEMMA EndAsks ==
  ASSUME AskInv, NEW items, EndUpdate(items, fbSize),
         UNCHANGED <<fbSize, continuous, supportsCU>>, fbSize \in Sizes
  PROVE  /\ area' \in Sizes /\ asked' \in BOOLEAN /\ area' = fbSize'
         /\ continuous' \in BOOLEAN /\ supportsCU' \in BOOLEAN
<1>1. CASE continuous
  <2>1. UNCHANGED <<area, asked>>
    BY <1>1 DEF EndUpdate
  <2> QED
    BY <1>1, <2>1 DEF AskInv
<1>2. CASE ~continuous
  <2>1. area' = fbSize /\ asked' = TRUE
    BY <1>2 DEF EndUpdate, Request
  <2> QED
    BY <2>1 DEF AskInv
<1> QED
  BY <1>1, <1>2

LEMMA HandlersKeepAsking == ASSUME StreamInv, StreamInv', AskInv, Handle PROVE AskInv'
<1>1. Outcome
  BY HandlersLeave
<1>2. fbu.rects \in Nat /\ fbSize \in Sizes /\ fbSize' \in Sizes /\ fbu'.rects \in Nat
  BY DEF StreamInv, StreamTypes, FbuTypes
<1>3. ASSUME UNCHANGED askVars, fbu'.rects = fbu.rects
      PROVE  AskInv'
  BY <1>3 DEF AskInv, askVars
<1>4. CASE Quietly \/ GoesOnDrawing
  BY <1>3, <1>4 DEF Quietly, GoesOnDrawing
<1>5. CASE EndsDrawing
  <2>1. PICK items : fbu.rects > 0 /\ RectDone(items)
    BY <1>5 DEF EndsDrawing
  <2>2. UNCHANGED <<fbSize, continuous, supportsCU>>
    BY <2>1 DEF RectDone
  <2>3. CASE RectsLeft = 0
    <3>1. EndUpdate(items, fbSize)
      BY <2>1, <2>3 DEF RectDone
    <3> QED
      BY <1>2, <2>2, <3>1, EndAsks DEF AskInv
  <2>4. CASE RectsLeft # 0
    <3>1. UNCHANGED <<area, asked>> /\ fbu' = [NoRect EXCEPT !.rects = RectsLeft]
      BY <2>1, <2>4 DEF RectDone
    <3>2. fbu'.rects > 0
      BY <1>2, <2>1, <2>4, <3>1 DEF NoRect, RectsLeft
    <3> QED
      BY <2>2, <3>1, <3>2 DEF AskInv
  <2> QED
    BY <2>3, <2>4
<1>6. ASSUME fbu.rects > 0, NEW size, ResizeDone(size)
      PROVE  AskInv'
  <2>1. fbSize' = size /\ UNCHANGED <<continuous, supportsCU>>
    BY <1>6 DEF ResizeDone
  <2>2. CASE continuous
    <3>1. area' = size /\ UNCHANGED asked
      BY <1>6, <2>2, Zenon DEF ResizeDone
    <3> QED
      BY <1>2, <2>1, <3>1 DEF AskInv
  <2>3. CASE ~continuous /\ RectsLeft = 0
    <3>1. Request(size)
      BY <1>6, <2>3, Zenon DEF ResizeDone
    <3>2. area' = size /\ asked' = TRUE
      BY <3>1 DEF Request
    <3> QED
      BY <1>2, <2>1, <3>2 DEF AskInv
  <2>4. CASE ~continuous /\ RectsLeft # 0
    <3>1. UNCHANGED <<area, asked>>
      BY <1>6, <2>4, Zenon DEF ResizeDone
    <3>2. fbu' = [NoRect EXCEPT !.rects = RectsLeft]
      BY <1>6, <2>4, Zenon DEF ResizeDone
    <3>3. fbu'.rects > 0
      BY <1>2, <1>6, <2>4, <3>2 DEF NoRect, RectsLeft
    <3>4. area' \in Sizes /\ asked' \in BOOLEAN /\ fbu'.rects > 0 /\ ~continuous'
      BY <2>1, <2>4, <3>1, <3>3 DEF AskInv
    <3>5. continuous' \in BOOLEAN /\ supportsCU' \in BOOLEAN
      BY <2>1 DEF AskInv
    <3> QED
      BY <3>4, <3>5 DEF AskInv
  <2> QED
    BY <2>2, <2>3, <2>4
<1>7. CASE LastRect
  <2>1. EndUpdate(<<>>, fbSize) /\ UNCHANGED <<fbSize, continuous, supportsCU>>
    BY <1>7 DEF LastRect
  <2> QED
    BY <1>2, <2>1, EndAsks DEF AskInv
<1>8. CASE EndOfContinuousUpdates
  <2>1. fbu.rects = 0 /\ supportsCU' = TRUE /\ continuous' = ~supportsCU
        /\ area' = (IF supportsCU THEN area ELSE fbSize) /\ UNCHANGED <<fbu, fbSize, asked>>
    BY <1>8 DEF EndOfContinuousUpdates, NextIs, BetweenMessages
  <2>2. area = fbSize /\ area' = fbSize'
    BY <2>1 DEF AskInv
  <2>3. continuous' \in BOOLEAN
    <3>1. (~supportsCU) \in BOOLEAN
      OBVIOUS
    <3> QED
      BY <2>1, <3>1, Zenon
  <2> QED
    BY <1>2, <2>1, <2>2, <2>3 DEF AskInv
<1>9. CASE BeginUpdate
  <2>1. fbu.rects = 0
    BY <1>9 DEF BeginUpdate, NextIs, BetweenMessages
  <2>2. area = fbSize
    BY <2>1 DEF AskInv
  <2>3. CASE Waits
    BY <1>3, <2>3 DEF Waits
  <2>4. CASE ~Waits
    <3>1. UNCHANGED <<fbSize, continuous, supportsCU>>
          /\ (UNCHANGED <<area, asked>> \/ EndUpdate(<<>>, fbSize))
      BY <1>9, <2>4 DEF BeginUpdate
    <3>2. CASE UNCHANGED <<area, asked>>
      BY <2>2, <3>1, <3>2 DEF AskInv
    <3>3. CASE EndUpdate(<<>>, fbSize)
      BY <1>2, <3>1, <3>3, EndAsks DEF AskInv
    <3> QED
      BY <3>1, <3>2, <3>3
  <2> QED
    BY <2>3, <2>4
<1> QED
  BY <1>1, <1>4, <1>5, <1>6, <1>7, <1>8, <1>9 DEF Outcome

LEMMA AsksNext == ASSUME StreamInv, StreamInv', AskInv, [Next]_vars PROVE AskInv'
<1>1. CASE Handle
  BY <1>1, HandlersKeepAsking
<1>2. ASSUME UNCHANGED <<area, continuous, supportsCU, fbSize, fbu>>,
             asked' = asked \/ asked' = FALSE
      PROVE  AskInv'
  BY <1>2 DEF AskInv
<1>3. CASE \E n \in 1 .. Len(wire) : Arrive(n)
  BY <1>2, <1>3 DEF Arrive, askVars
<1>4. CASE \E i \in 1 .. Len(queue) : ImageLoads(i) \/ ImageBreaks(i)
  BY <1>2, <1>4 DEF ImageLoads, ImageBreaks, askVars
<1>5. CASE \E p \in pictures : SendUpdate(p)
  BY <1>2, <1>5 DEF SendUpdate
<1>6. CASE \E o \in OtherMessages : SendOther(o)
  BY <1>2, <1>6 DEF SendOther, askVars
<1>7. CASE UNCHANGED vars
  BY <1>2, <1>7 DEF vars, askVars
<1>8. CASE ViewChanges
  BY <1>2, <1>8 DEF ViewChanges, askVars
<1> QED
  BY <1>1, <1>3, <1>4, <1>5, <1>6, <1>7, <1>8 DEF Next

-----------------------------------------------------------------------------
(* What is shown *)

\* Between two updates all that has been drawn is on the canvas, or will be when
\* the queue has been run.
EndsWithFlip(q) == q # <<>> /\ q[Len(q)].type \in Flips
Shown == fbu.rects = 0 => IF queue = <<>> THEN damaged = FALSE ELSE EndsWithFlip(queue)

LEMMA FlipEnds ==
  ASSUME NEW q, AreActions(q), NEW flip \in {Flip, ViewFlip}
  PROVE  AreActions(q \o flip) /\ EndsWithFlip(q \o flip)
<1>1. AreActions(flip) /\ Len(flip) = 1 /\ flip[1].type \in Flips
  BY FlipIs DEF Flip, ViewFlip, Flips
<1>2. Len(q) \in Nat
  BY ActionsAre
<1>3. /\ Len(q \o flip) = Len(q) + 1 /\ (q \o flip)[Len(q) + 1] = flip[1]
      /\ AreActions(q \o flip)
  BY <1>1, JoinedItems, JoinedActions
<1>4. q \o flip # <<>>
  BY <1>2, <1>3, ActionsAre
<1> QED
  BY <1>1, <1>3, <1>4 DEF EndsWithFlip

\* _scanRenderQ carries out the flip, or leaves it the last.
LEMMA ScanShows ==
  ASSUME NEW q, AreActions(q), Scan(q), EndsWithFlip(q)
  PROVE  IF queue' = <<>> THEN damaged' = FALSE ELSE EndsWithFlip(queue')
<1> DEFINE n == ReadyCount(q)
           late == {i \in 1 .. Len(q) : ~Ready(q[i])}
           items == SubSeq(q, 1, n)
           left == SubSeq(q, n + 1, Len(q))
<1>1. damaged' = (IF items = <<>> THEN damaged ELSE items[Len(items)].type \notin Flips)
      /\ queue' = left
  BY Zenon DEF Scan, Execute
<1>2. Len(q) \in Nat /\ late \in SUBSET Nat /\ Len(q) # 0
  BY ActionsAre DEF EndsWithFlip
<1>3. n \in 0 .. Len(q)
  <2>1. CASE late = {}
    BY <1>2, <2>1 DEF ReadyCount
  <2>2. CASE late # {}
    <3>1. n = Min(late) - 1 /\ Min(late) \in late
      BY <1>2, <2>2, LeastIsInIt DEF ReadyCount
    <3> QED
      BY <1>2, <3>1
  <2> QED
    BY <2>1, <2>2
<1> HIDE DEF n, late
<1>4. Left(q, n, left)
  BY <1>3, SuffixIs
<1>5. CASE n = Len(q)
  <2>1. Len(left) = 0 /\ AreActions(left)
    BY <1>2, <1>4, <1>5 DEF Left
  <2>2. left = <<>>
    BY <2>1, ActionsAre
  <2>3. items # <<>> /\ items[Len(items)] = q[Len(q)]
    <3>1. PICK S : q \in Seq(S)
      BY DEF AreActions
    <3>2. items = q
      BY <1>5, <3>1
    <3> QED
      BY <3>2 DEF EndsWithFlip
  <2>4. (items[Len(items)].type \notin Flips) = FALSE
    BY <2>3 DEF EndsWithFlip
  <2> QED
    BY <1>1, <2>2, <2>3, <2>4, Zenon
<1>6. CASE n # Len(q)
  <2>1. Len(left) \in 1 .. Len(q) /\ n + Len(left) = Len(q) /\ AreActions(left)
    <3>1. Len(left) = Len(q) - n /\ AreActions(left)
      BY <1>4, Zenon DEF Left
    <3> HIDE DEF left
    <3>2. n \in Nat /\ n <= Len(q)
      BY <1>2, <1>3
    <3>3. Len(left) \in 1 .. Len(q) /\ n + Len(left) = Len(q)
      BY <1>2, <1>6, <3>1, <3>2
    <3> QED
      BY <3>1, <3>3
  <2>2. left[Len(left)] = q[Len(q)] /\ Len(left) # 0
    <3>1. \A i \in 1 .. Len(left) : left[i] = q[n + i]
      BY <1>4 DEF Left
    <3> HIDE DEF left
    <3>2. Len(left) \in 1 .. Len(left) /\ Len(left) # 0
      BY <1>2, <2>1
    <3>3. left[Len(left)] = q[n + Len(left)]
      BY <3>1, <3>2
    <3> QED
      BY <2>1, <3>2, <3>3
  <2>3. left # <<>>
    BY <2>1, <2>2, ActionsAre
  <2> QED
    BY <1>1, <2>2, <2>3 DEF EndsWithFlip
<1> QED
  BY <1>5, <1>6

LEMMA EndShows ==
  ASSUME AreActions(queue), NEW items, AreActions(items), Put(items \o Flip)
  PROVE  Shown'
<1>1. AreActions(queue \o items)
  BY JoinedActions
<1>2. AreActions((queue \o items) \o Flip) /\ EndsWithFlip((queue \o items) \o Flip)
  BY <1>1, FlipEnds
<1>3. queue \o (items \o Flip) = (queue \o items) \o Flip
  BY FlipJoins
<1>4. AreActions(queue \o (items \o Flip)) /\ EndsWithFlip(queue \o (items \o Flip))
      /\ Scan(queue \o (items \o Flip))
  BY <1>2, <1>3 DEF Put
<1>5. IF queue' = <<>> THEN damaged' = FALSE ELSE EndsWithFlip(queue')
  BY <1>4, ScanShows
<1> QED
  BY <1>5 DEF Shown, EndsWithFlip

LEMMA HandlersShow == ASSUME StreamInv, DrawInv, Shown, Handle PROVE Shown'
<1>1. Outcome /\ AreActions(queue) /\ AreActions(<<>>)
  BY HandlersLeave, NoDraws, DrawsAreActions DEF DrawInv
<1>2. fbu.rects \in Nat
  BY DEF StreamInv, StreamTypes, FbuTypes
<1>3. ASSUME UNCHANGED drawVars, fbu'.rects = fbu.rects
      PROVE  Shown'
  BY <1>3 DEF Shown, drawVars, EndsWithFlip
<1>4. ASSUME fbu'.rects # 0
      PROVE  Shown'
  BY <1>4 DEF Shown
<1>5. CASE Quietly
  BY <1>3, <1>5 DEF Quietly
<1>6. CASE GoesOnDrawing
  BY <1>2, <1>4, <1>6 DEF GoesOnDrawing
<1>7. CASE EndsDrawing
  <2>1. PICK items : AreDraws(items) /\ RectDone(items)
    BY <1>7 DEF EndsDrawing
  <2>2. CASE RectsLeft = 0
    <3>1. Put(items \o Flip) /\ AreActions(items)
      BY <2>1, <2>2, DrawsAreActions DEF RectDone, EndUpdate
    <3> QED
      BY <1>1, <3>1, EndShows
  <2>3. CASE RectsLeft # 0
    <3>1. fbu' = [NoRect EXCEPT !.rects = RectsLeft]
      BY <2>1, <2>3 DEF RectDone
    <3>2. fbu'.rects # 0
      BY <2>3, <3>1 DEF NoRect
    <3> QED
      BY <1>4, <3>2
  <2> QED
    BY <2>2, <2>3
<1>8. ASSUME fbu.rects > 0, NEW size, ResizeDone(size)
      PROVE  Shown'
  <2>1. CASE RectsLeft = 0
    <3>1. PICK views \in {<<>>, ViewFlip} : Put(views \o Flip)
      BY <1>8, <2>1 DEF ResizeDone
    <3>2. AreActions(views)
      BY ActionsAreDraws, DrawsAreActions
    <3> QED
      BY <1>1, <3>1, <3>2, EndShows
  <2>2. CASE RectsLeft # 0
    <3>1. fbu' = [NoRect EXCEPT !.rects = RectsLeft]
      BY <1>8, <2>2, Zenon DEF ResizeDone
    <3>2. fbu'.rects # 0
      BY <2>2, <3>1 DEF NoRect
    <3> QED
      BY <1>4, <3>2
  <2> QED
    BY <2>1, <2>2
<1>9. CASE LastRect
  <2>1. Put(<<>> \o Flip)
    BY <1>9 DEF LastRect, EndUpdate
  <2> QED
    BY <1>1, <2>1, EndShows
<1>10. CASE EndOfContinuousUpdates
  BY <1>3, <1>10 DEF EndOfContinuousUpdates
<1>11. CASE BeginUpdate
  <2>1. fbu.rects = 0
    BY <1>11 DEF BeginUpdate, NextIs, BetweenMessages
  <2>2. CASE Waits
    BY <1>3, <2>2 DEF Waits
  <2>3. CASE ~Waits
    <3>1. fbu' = [NoRect EXCEPT !.rects = wire[2].n]
          /\ (UNCHANGED drawVars \/ EndUpdate(<<>>, fbSize))
      BY <1>11, <2>3 DEF BeginUpdate
    <3>2. CASE UNCHANGED drawVars
      BY <2>1, <3>2 DEF Shown, drawVars, EndsWithFlip
    <3>3. CASE EndUpdate(<<>>, fbSize)
      BY <1>1, <3>3, EndShows DEF EndUpdate
    <3> QED
      BY <3>1, <3>2, <3>3
  <2> QED
    BY <2>2, <2>3
<1> QED
  BY <1>1, <1>5, <1>6, <1>7, <1>8, <1>9, <1>10, <1>11 DEF Outcome

LEMMA ViewsShow == ASSUME DrawInv, ViewChanges PROVE Shown'
<1>1. AreActions(queue \o ViewFlip) /\ EndsWithFlip(queue \o ViewFlip)
      /\ Scan(queue \o ViewFlip)
  BY FlipEnds DEF DrawInv, ViewChanges, Put
<1>2. IF queue' = <<>> THEN damaged' = FALSE ELSE EndsWithFlip(queue')
  BY <1>1, ScanShows
<1> QED
  BY <1>2 DEF Shown, EndsWithFlip

LEMMA ImagesShow ==
  ASSUME DrawInv, Shown, NEW i \in 1 .. Len(queue), ImageLoads(i) \/ ImageBreaks(i)
  PROVE  Shown'
<1>1. AreActions(queue) /\ Len(queue) \in Nat /\ IsAction(queue[i]) /\ queue # <<>>
  BY ActionsAre DEF DrawInv
<1>2. UNCHANGED fbu
  BY DEF ImageLoads, ImageBreaks
<1>3. CASE fbu.rects = 0
  <2>1. EndsWithFlip(queue)
    BY <1>1, <1>3 DEF Shown
  <2>2. ASSUME NEW state
        PROVE  LET now == [queue EXCEPT ![i].img = state] IN AreActions(now) /\ EndsWithFlip(now)
    <3> DEFINE x == [queue[i] EXCEPT !.img = state]
               now == [queue EXCEPT ![i].img = state]
    <3>1. IsAction(x) /\ x.type = queue[i].type
      BY <1>1 DEF IsAction
    <3>2. now = [queue EXCEPT ![i] = x]
      OBVIOUS
    <3>3. PICK S : queue \in Seq(S) /\ \A y \in S : IsAction(y)
      BY <1>1 DEF AreActions
    <3> HIDE DEF x, now
    <3> DEFINE T == S \cup {x}
    <3>4. queue \in Seq(T) /\ x \in T /\ \A y \in T : IsAction(y)
      BY <3>1, <3>3, Zenon, SeqMonotonic
    <3> HIDE DEF T
    <3>5. now \in Seq(T) /\ Len(now) = Len(queue) /\ now[i] = x
          /\ \A j \in 1 .. Len(queue) : j # i => now[j] = queue[j]
      BY <3>2, <3>4, ExceptSeq
    <3>6. AreActions(now)
      BY <3>4, <3>5 DEF AreActions
    <3>7. Len(queue) \in 1 .. Len(queue) /\ Len(now) # 0
      BY <1>1, <3>5
    <3>8. now[Len(now)].type \in Flips
      BY <2>1, <3>1, <3>5, <3>7 DEF EndsWithFlip
    <3>9. now # <<>>
      BY <3>6, <3>7, ActionsAre
    <3> QED
      BY <3>6, <3>8, <3>9 DEF EndsWithFlip, now
  <2>3. ASSUME NEW q, AreActions(q), EndsWithFlip(q), Scan(q) \/ queue' = q
        PROVE  Shown'
    <3>1. IF queue' = <<>> THEN damaged' = FALSE ELSE EndsWithFlip(queue')
      BY <2>3, ScanShows DEF EndsWithFlip
    <3> QED
      BY <3>1 DEF Shown, EndsWithFlip
  <2>4. CASE ImageLoads(i)
    <3> DEFINE now == [queue EXCEPT ![i].img = "loaded"]
    <3>1. Scan(now) \/ queue' = now
      BY <2>4 DEF ImageLoads
    <3>2. AreActions(now) /\ EndsWithFlip(now)
      BY <2>2
    <3> HIDE DEF now
    <3> QED
      BY <2>3, <3>1, <3>2
  <2>5. CASE ImageBreaks(i)
    <3> DEFINE now == [queue EXCEPT ![i].img = "broken"]
    <3>1. queue' = now
      BY <2>5 DEF ImageBreaks
    <3>2. AreActions(now) /\ EndsWithFlip(now)
      BY <2>2
    <3> HIDE DEF now
    <3> QED
      BY <2>3, <3>1, <3>2
  <2> QED
    BY <2>4, <2>5
<1>4. CASE fbu.rects # 0
  BY <1>2, <1>4 DEF Shown
<1> QED
  BY <1>3, <1>4

LEMMA ShowsNext == ASSUME StreamInv, DrawInv, Shown, [Next]_vars PROVE Shown'
<1>1. CASE Handle
  BY <1>1, HandlersShow
<1>2. ASSUME UNCHANGED <<queue, damaged, fbu>>
      PROVE  Shown'
  BY <1>2 DEF Shown, EndsWithFlip
<1>3. CASE \E n \in 1 .. Len(wire) : Arrive(n)
  BY <1>2, <1>3 DEF Arrive, drawVars
<1>4. CASE \E i \in 1 .. Len(queue) : ImageLoads(i) \/ ImageBreaks(i)
  BY <1>4, ImagesShow
<1>5. CASE \E p \in pictures : SendUpdate(p)
  BY <1>2, <1>5 DEF SendUpdate
<1>6. CASE \E o \in OtherMessages : SendOther(o)
  BY <1>2, <1>6 DEF SendOther, drawVars
<1>7. CASE UNCHANGED vars
  BY <1>2, <1>7 DEF vars, drawVars
<1>8. CASE ViewChanges
  BY <1>8, ViewsShow
<1> QED
  BY <1>1, <1>3, <1>4, <1>5, <1>6, <1>7, <1>8 DEF Next

-----------------------------------------------------------------------------
(* The theorems *)

UpdatesInv == StreamInv /\ DrawInv /\ AskInv /\ Shown

LEMMA UpdatesInit == Init => UpdatesInv
<1>1. Init => AskInv
  BY UpdatesAssumption DEF Init, AskInv
<1>2. Init => Shown
  BY DEF Init, Shown
<1> QED
  BY <1>1, <1>2, StreamInit, DrawsInit DEF UpdatesInv

LEMMA UpdatesNext == ASSUME SendsReadable, UpdatesInv, [Next]_vars PROVE UpdatesInv'
BY StreamNext, DrawsNext, AsksNext, ShowsNext DEF UpdatesInv

\* A handler that has read its message does not stop in a rectangle.
LEMMA RestIsBetween ==
  ASSUME NEW s \in Place, Agrees(s), AtRest(s), ~running
  PROVE  Between(s)
<1>1. ASSUME NEW rect \in Readable, InRect(s, rect)
      PROVE  FALSE
  BY <1>1 DEF InRect, AtRest, AtEndOfBlock, LenOf
<1> QED
  BY <1>1 DEF Agrees

LEMMA NothingAdded ==
  ASSUME NEW S, NEW a \in Seq(S), NEW b \in Seq(S), a = a \o b
  PROVE  b = <<>>
<1>1. <<>> \in Seq(S) /\ a \o b = a \o <<>>
  BY DrawsRegroup, EmptySeq
<1> QED
  BY <1>1, Cancelled

\* Each variable has its type, and the queue never waits on an item that is
\* ready (rfb.js, decoders/*.js, display.js).
THEOREM TypeCorrect == ASSUME SendsReadable PROVE Spec => []TypeOK
<1>1. UpdatesInv => TypeOK
  <2> SUFFICES ASSUME UpdatesInv PROVE TypeOK
    OBVIOUS
  <2>1. \A i \in 1 .. Len(queue) : queue[i].type \in {"fill", "copy", "blit", "img"} \union Flips
    BY ActionsAre DEF UpdatesInv, DrawInv, IsAction
  <2>2. /\ avail \in 0 .. Len(wire) /\ running \in BOOLEAN /\ failed \in BOOLEAN
        /\ confused \in BOOLEAN
        /\ fbu.rects \in Nat /\ (fbu.rects = 0 => fbu = NoRect)
        /\ dec.lines \in Nat /\ dec.subrects \in Nat /\ dec.tiles \in Nat
        /\ fbSize \in Sizes /\ serverSize \in Sizes
    BY DEF UpdatesInv, StreamInv, StreamTypes, FbuTypes, DecTypes
  <2>3. /\ queue # <<>> => ~Ready(queue[1])
        /\ flushing \in BOOLEAN /\ damaged \in BOOLEAN /\ wrong \in BOOLEAN
    BY DEF UpdatesInv, DrawInv
  <2>4. area \in Sizes /\ asked \in BOOLEAN /\ continuous \in BOOLEAN /\ supportsCU \in BOOLEAN
    BY DEF UpdatesInv, AskInv
  <2> QED
    BY <2>1, <2>2, <2>3, <2>4 DEF TypeOK
<1>2. UpdatesInv /\ [Next]_vars => UpdatesInv'
  BY UpdatesNext
<1> QED
  BY <1>1, <1>2, UpdatesInit, PTL DEF Spec

\* No piece of the stream is read as another kind, wherever the bytes end and a
\* handler has to be called again: _normalMsg, _framebufferUpdate and the decoders
\* keep in _FBU and in their fields what they need to go on.
THEOREM ReadsInStep == ASSUME SendsReadable PROVE Spec => []InStep
<1>1. UpdatesInv => InStep
  BY DEF UpdatesInv, StreamInv, StreamTypes, InStep
<1>2. UpdatesInv /\ [Next]_vars => UpdatesInv'
  BY UpdatesNext
<1> QED
  BY <1>1, <1>2, UpdatesInit, PTL DEF Spec

\* When all has been read the viewer has the server's framebuffer size, and what it
\* last asked updates of is the whole of it: _resize, _framebufferUpdate and the
\* requests after an update agree, whatever the order of resizings and updates.
THEOREM AsksForWholeScreen == ASSUME SendsReadable PROVE Spec => []AsksForAll
<1>1. UpdatesInv => AsksForAll
  <2> SUFFICES ASSUME UpdatesInv, Quiet PROVE fbSize = serverSize /\ area = serverSize
    BY DEF AsksForAll
  <2>1. wire = <<>> /\ ~running /\ ~failed
    BY DEF Quiet
  <2>2. PICK s, e \in Place : Remaining(s, e) /\ Agrees(s)
    BY <2>1 DEF UpdatesInv, StreamInv, OnTrack
  <2>3. s = e /\ AtRest(s) /\ s.size = serverSize
    BY <2>1, <2>2, RunEnds DEF Remaining, UpdatesInv, StreamInv, StreamTypes
  <2>4. Between(s)
    BY <2>1, <2>2, <2>3, RestIsBetween
  <2>5. fbu.rects = 0 /\ fbSize = serverSize
    BY <2>3, <2>4 DEF Between, AtRest
  <2> QED
    BY <2>5 DEF UpdatesInv, AskInv
<1>2. UpdatesInv /\ [Next]_vars => UpdatesInv'
  BY UpdatesNext
<1> QED
  BY <1>1, <1>2, UpdatesInit, PTL DEF Spec

\* After the end of an update nothing waits in the render queue but changes of the
\* view, so never a rectangle or the end of another update: _framebufferUpdate begins
\* none before the queue has been flushed, whatever is resized meanwhile.
THEOREM OneUpdateWaits == ASSUME SendsReadable PROVE Spec => []OneUpdateQueued
<1>1. UpdatesInv => OneUpdateQueued
  BY DEF UpdatesInv, DrawInv, OneFlip, OneUpdateQueued
<1>2. UpdatesInv /\ [Next]_vars => UpdatesInv'
  BY UpdatesNext
<1> QED
  BY <1>1, <1>2, UpdatesInit, PTL DEF Spec

\* When nothing is on its way and the queue is empty, all the server sent is drawn,
\* in the order in which it came, and shown; nothing else ever was, and one update
\* waits at most.  So it is as long as no draw refers to bytes that the receive queue
\* may have lost when the action runs (blitImage, fillRect: Orderly).
THEOREM CanvasFollows == ASSUME SendsReadable, Orderly PROVE Spec => []PaintsInOrder
<1>1. UpdatesInv => PaintsInOrder
  <2> SUFFICES ASSUME UpdatesInv PROVE PaintsInOrder
    OBVIOUS
  <2>1. Canvas /\ wrong = FALSE
    BY DEF UpdatesInv, StreamInv, Canvas
  <2>2. OneUpdateQueued
    BY DEF UpdatesInv, DrawInv, OneFlip, OneUpdateQueued
  <2>3. ASSUME Quiet
        PROVE  due = <<>> /\ damaged = FALSE
    <3>1. wire = <<>> /\ queue = <<>> /\ ~running /\ ~failed
      BY <2>3 DEF Quiet
    <3>2. PICK s, e \in Place : Remaining(s, e) /\ Agrees(s)
      BY <3>1 DEF UpdatesInv, StreamInv, OnTrack
    <3>3. s = e /\ AtRest(s) /\ Painted(s, e)
      BY <3>1, <3>2, RunEnds DEF Remaining, UpdatesInv, StreamInv, StreamTypes
    <3>4. Between(s)
      BY <3>1, <3>2, <3>3, RestIsBetween
    <3>5. fbu.rects = 0 /\ AtEndOfBlock(s)
      BY <3>3, <3>4 DEF Between, AtRest
    <3>6. PICK f \in Seq(AllDraws) : Owes(f, s, e)
      BY <3>3 DEF Painted
    <3>7. s.ink.drawn \in Seq(AllDraws)
      BY <3>2 DEF Place, Inks
    <3>8. s.ink.drawn = s.ink.drawn \o f
      BY <3>3, <3>6 DEF Owes
    <3>9. f = <<>>
      BY <3>6, <3>7, <3>8, NothingAdded
    <3>10. ToPaintAt(s) = <<>>
      BY <3>5 DEF ToPaintAt
    <3>11. due = Draws(<<>>) \o (<<>> \o <<>>)
      BY <3>1, <3>6, <3>9, <3>10 DEF Owes
    <3>12. due = <<>>
      BY <3>11, NoItems, EmptySeq
    <3> QED
      BY <3>1, <3>5, <3>12 DEF UpdatesInv, Shown
  <2> QED
    BY <2>1, <2>2, <2>3 DEF PaintsInOrder, DrawsInOrder
<1>2. UpdatesInv /\ [Next]_vars => UpdatesInv'
  BY UpdatesNext
<1> QED
  BY <1>1, <1>2, UpdatesInit, PTL DEF Spec
=============================================================================
