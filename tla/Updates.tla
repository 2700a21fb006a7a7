------------------------------ MODULE Updates ------------------------------
(***************************************************************************)
(* How the viewer draws what the server sends: the messages of a running    *)
(* session (noVNC core/rfb.js: _normalMsg, _framebufferUpdate, _handleRect  *)
(* and the handlers of pseudo rectangles), the decoders of core/decoders,   *)
(* each of which may stop wherever the bytes end and is called again, and   *)
(* the queue of core/display.js, in which drawing waits for images to load. *)
(*                                                                         *)
(* The stream is a sequence of pieces: a piece is what one rQwait waits     *)
(* for.  Reading a piece as something it is not sets "confused".            *)
(***************************************************************************)
EXTENDS Wire

CONSTANTS
  Pictures,          \* for each kind of server, the updates it may send, which are
                     \* sequences of rectangles
  OtherMessages,     \* the other messages it may send, as pieces
  Sizes,             \* sizes of the framebuffer
  MaxBacklog         \* bound: pieces on their way when the server sends

ASSUME UpdatesAssumption ==
  /\ {1, 2} \subseteq Sizes /\ Sizes \subseteq Nat \ {0}
  /\ OtherMessages \subseteq Messages
  /\ MaxBacklog \in Nat
  \* An update has a rectangle, and the last rectangle is its last.
  /\ \A server \in Pictures : \A picture \in server :
       /\ picture \in Seq(Rects) /\ picture # <<>>
       /\ \A i \in 1 .. Len(picture) : picture[i] = "lastRect" => i = Len(picture)

VARIABLES
  wire,              \* the stream from the next piece to read on
  avail,             \* how many of its pieces have arrived
  confused,          \* history: a piece was read as another kind
  running,           \* _handleMessage is at work
  failed,            \* _fail has been called: the socket is closed
  fbu,               \* _FBU: rectangles left, the one at hand, its size
  dec,               \* what the decoders remember between two calls
  queue,             \* _renderQ
  flushing,          \* _flushing, of the RFB object and of its display
  damaged,           \* something was drawn on the hidden canvas since it was shown
  due,               \* history: what is still to be drawn, in order
  wrong,             \* history: something else was drawn
  fbSize,            \* _fbWidth, _fbHeight
  area,              \* of the latest request for updates
  asked,             \* a request has been sent and not been answered
  continuous,        \* _enabledContinuousUpdates
  supportsCU,        \* _supportsContinuousUpdates
  pictures,          \* the updates this server may send
  serverSize,        \* the server's framebuffer
  tables             \* tables of the latest JPEG files the server sent

streamVars == <<wire, avail, confused>>
drawVars == <<queue, damaged, due, wrong>>
askVars == <<fbSize, area, asked, continuous, supportsCU>>
serverVars == <<pictures, serverSize, tables>>
vars == <<streamVars, running, failed, fbu, dec, drawVars, flushing, askVars, serverVars>>

NoRect == [rects |-> 0, enc |-> "none", size |-> 0]
FreshDecoders ==
  [lines |-> 0, subrects |-> 0, tiles |-> 0, lastRaw |-> FALSE, ctl |-> "none",
   filter |-> "none", numColors |-> 0, len |-> FALSE, zLength |-> FALSE,
   quant |-> <<>>, huffman |-> <<>>, cachedQuant |-> <<>>, cachedHuffman |-> <<>>]

\* After ServerInitialisation, which asks for the whole screen.
Init ==
  /\ wire = <<>> /\ avail = 0 /\ confused = FALSE
  /\ running = FALSE /\ failed = FALSE
  /\ fbu = NoRect /\ dec = FreshDecoders
  /\ queue = <<>> /\ flushing = FALSE /\ damaged = FALSE
  /\ due = <<>> /\ wrong = FALSE
  /\ fbSize = 1 /\ area = 1 /\ asked = TRUE
  /\ continuous = FALSE /\ supportsCU = FALSE
  /\ pictures \in Pictures
  /\ serverSize = 1 /\ tables = [quant |-> <<>>, huffman |-> <<>>]

-----------------------------------------------------------------------------
(* The display. *)

\* An update ends with a flip; a change of the view puts one too, or several
\* that are as good as one.
Flips == {"flip", "viewFlip"}
Flip == <<[type |-> "flip", draws |-> <<>>, img |-> "loaded"]>>
ViewFlip == <<[type |-> "viewFlip", draws |-> <<>>, img |-> "loaded"]>>

Draws(items) == FlattenSeq([i \in 1 .. Len(items) |-> items[i].draws])

\* What the items draw, in order, on the hidden canvas; a flip shows it.
Execute(items) ==
  LET drawn == Draws(items) IN
  /\ IF IsPrefix(drawn, due)
     THEN due' = SubSeq(due, Len(drawn) + 1, Len(due)) /\ UNCHANGED wrong
     ELSE wrong' = TRUE /\ UNCHANGED due
  /\ damaged' = IF items = <<>> THEN damaged ELSE items[Len(items)].type \notin Flips

\* _scanRenderQ runs the queue up to the first image that has not loaded, or
\* that is not the image it should be.
Ready(item) == item.img = "loaded"
ReadyCount(items) ==
  LET late == {i \in 1 .. Len(items) : ~Ready(items[i])} IN
  IF late = {} THEN Len(items) ELSE Min(late) - 1
Scan(items) ==
  LET n == ReadyCount(items) IN
  /\ Execute(SubSeq(items, 1, n))
  /\ queue' = SubSeq(items, n + 1, Len(items))

\* An action is carried out at once unless others wait; an image always goes
\* through the queue.
PutAtOnce(items) ==
  IF \E i \in 1 .. Len(items) : items[i].type = "img" THEN Scan(queue \o items)
  ELSE Execute(items) /\ UNCHANGED queue
PutUnseen(items) == queue' = queue \o items /\ UNCHANGED <<damaged, due, wrong>>
Put(items) == Scan(queue \o items)

Fill(draws) == <<[type |-> "fill", draws |-> draws, img |-> "loaded"]>>
CopyImage(draw) == <<[type |-> "copy", draws |-> <<draw>>, img |-> "loaded"]>>

\* blitImage copies the pixels when it has to queue them, from the start of
\* their buffer.  Pixels that lie elsewhere in the receive queue are then not
\* the ones that are drawn; nor is the colour of a fill that was kept as a view
\* of that queue.
Blit(draws) == <<[type |-> "blit", draws |-> draws, img |-> "loaded"]>>
Stale(draws) == [i \in 1 .. Len(draws) |-> Draw("stale", <<>>)]
FromReceiveQueue(items) ==
  IF queue = <<>> THEN items
  ELSE [i \in 1 .. Len(items) |-> [items[i] EXCEPT !.draws = Stale(@)]]

Image(draw, state) == <<[type |-> "img", draws |-> <<draw>>, img |-> state]>>
\* The browser may have decoded the image before it is looked at.
ImageRect(draw, then(_)) ==
  \E state \in {"loading", "loaded"} : then(Image(draw, state))

-----------------------------------------------------------------------------
(* The stream, and the end of a rectangle. *)

Lacks(n) == avail < n

Reads(kinds) ==
  /\ avail >= Len(kinds)
  /\ wire' = SubSeq(wire, Len(kinds) + 1, Len(wire))
  /\ avail' = avail - Len(kinds)
  /\ confused' = (confused \/ \E i \in 1 .. Len(kinds) : wire[i].kind # kinds[i])

\* The handler returns FALSE: it is called again when more has arrived.
Waits ==
  /\ running' = FALSE
  /\ UNCHANGED <<streamVars, failed, fbu, dec, drawVars, flushing, askVars, serverVars>>

Fails ==
  /\ failed' = TRUE
  /\ running' = FALSE
  /\ UNCHANGED <<streamVars, fbu, dec, drawVars, flushing, askVars, serverVars>>

\* _normalMsg returned TRUE: the loop goes on while there is something to read.
Returns == running' = (avail' > 0)

RequestOldSize(size) == area' = fbSize /\ asked' = TRUE
Request(size) == area' = size /\ asked' = TRUE

\* The end of an update: show it, and ask for the next one.
EndUpdate(items, size) ==
  /\ Put(items \o Flip)
  /\ Returns
  /\ IF continuous THEN UNCHANGED <<area, asked>> ELSE Request(size)

\* A rectangle is finished, after it has put the last items.
RectsLeft == fbu.rects - 1
RectDone(items) ==
  /\ fbu' = IF RectsLeft = 0 THEN NoRect ELSE [NoRect EXCEPT !.rects = RectsLeft]
  /\ IF RectsLeft = 0 THEN EndUpdate(items, fbSize)
     ELSE Put(items) /\ UNCHANGED <<running, area, asked>>
  /\ UNCHANGED <<failed, flushing, fbSize, continuous, supportsCU, serverVars>>

\* It goes on after the items, with what the decoder remembers now; "stays"
\* tells whether the handler does too, or waits for more.
RectGoesOn(items, memory, stays) ==
  /\ Put(items)
  /\ dec' = memory
  /\ running' = stays
  /\ UNCHANGED <<failed, fbu, flushing, askVars, serverVars>>

At(enc) == running /\ fbu.rects > 0 /\ fbu.enc = enc

-----------------------------------------------------------------------------
(* The messages: _normalMsg. *)

BetweenMessages == running /\ fbu.rects = 0
NextIs(kind) == BetweenMessages /\ wire[1].kind = kind

\* Whether images of the update before are still loading: _display.pending().
Pending == queue # <<>>

\* The header of an update.  While images of the one before are loading it is
\* left for later, after its number of rectangles has been read.
BeginUpdate ==
  /\ NextIs("update")
  /\ IF Lacks(2) THEN Waits
     ELSE /\ Reads(<<"update", "count">>)
          /\ fbu' = [NoRect EXCEPT !.rects = wire[2].n]
          /\ IF Pending
             THEN /\ flushing' = TRUE
                  /\ running' = FALSE
                  /\ UNCHANGED <<drawVars, area, asked>>
             ELSE /\ IF wire[2].n = 0 THEN EndUpdate(<<>>, fbSize)
                     ELSE UNCHANGED <<drawVars, running, area, asked>>
                  /\ UNCHANGED flushing
          /\ UNCHANGED <<failed, dec, fbSize, continuous, supportsCU, serverVars>>

\* Messages that change nothing modelled here: the bell, and the clipboard,
\* whose header is put back while its text is missing.
Skip(kinds) ==
  /\ NextIs(kinds[1])
  /\ IF Lacks(Len(kinds)) THEN Waits
     ELSE /\ Reads(kinds) /\ Returns
          /\ UNCHANGED <<failed, fbu, dec, drawVars, flushing, askVars, serverVars>>
Bell == Skip(<<"bell">>)
ServerCutText == Skip(<<"cutText", "length", "text">>)

\* A request is answered; anything else fails the session.
ServerFence ==
  /\ NextIs("fence")
  /\ IF Lacks(3) THEN Waits
     ELSE /\ Reads(<<"fence", "length", "payload">>)
          /\ IF wire[2].of = "request" THEN Returns /\ UNCHANGED failed
             ELSE running' = FALSE /\ failed' = TRUE
          /\ UNCHANGED <<fbu, dec, drawVars, flushing, askVars, serverVars>>

\* An illegal message fails the session, and the loop goes on.
Xvp ==
  /\ NextIs("xvp")
  /\ IF Lacks(2) THEN Waits
     ELSE /\ Reads(<<"xvp", "version">>) /\ Returns
          /\ failed' = (failed \/ wire[2].of = "illegal")
          /\ UNCHANGED <<fbu, dec, drawVars, flushing, askVars, serverVars>>

\* EndOfContinuousUpdates: the first one tells that the server knows them.
EndOfContinuousUpdates ==
  /\ NextIs("endContinuous")
  /\ Reads(<<"endContinuous">>) /\ Returns
  /\ supportsCU' = TRUE
  /\ continuous' = ~supportsCU
  /\ area' = IF supportsCU THEN area ELSE fbSize
  /\ UNCHANGED <<failed, fbu, dec, drawVars, flushing, fbSize, asked, serverVars>>

\* The session fails, and nothing more is read.
SetColourMap ==
  /\ NextIs("colourMap")
  /\ Reads(<<"colourMap">>)
  /\ running' = FALSE
  /\ failed' = TRUE
  /\ UNCHANGED <<fbu, dec, drawVars, flushing, askVars, serverVars>>

\* A type that is none: the session fails too, and the loop goes on reading
\* what has arrived.
UnexpectedMessage ==
  /\ NextIs("unexpected")
  /\ Reads(<<"unexpected">>) /\ Returns
  /\ failed' = TRUE
  /\ UNCHANGED <<fbu, dec, drawVars, flushing, askVars, serverVars>>

RectHeader ==
  /\ At("none")
  /\ IF Lacks(1) THEN Waits
     ELSE /\ Reads(<<"rect">>)
          /\ fbu' = [fbu EXCEPT !.enc = wire[1].of, !.size = wire[1].n]
          /\ UNCHANGED <<running, failed, dec, drawVars, flushing, askVars, serverVars>>

-----------------------------------------------------------------------------
(* Pseudo rectangles: _handleRect. *)

LastRect ==
  /\ At("lastRect")
  /\ UNCHANGED streamVars
  /\ fbu' = NoRect
  /\ EndUpdate(<<>>, fbSize)
  /\ UNCHANGED <<failed, dec, flushing, fbSize, continuous, supportsCU, serverVars>>

QemuExtendedKeyEvent ==
  /\ At("qemuKey")
  /\ UNCHANGED <<streamVars, dec>>
  /\ RectDone(<<>>)

\* _handleCursor, _handleVMwareCursor and _handleDesktopName read nothing, or
\* put it back, until all has arrived.
WholeRect(enc, kinds) ==
  /\ At(enc)
  /\ IF Lacks(Len(kinds)) THEN Waits
     ELSE Reads(kinds) /\ RectDone(<<>>) /\ UNCHANGED dec
Cursor == WholeRect("cursor", <<"pixels">>)
DesktopName == WholeRect("name", <<"length", "text">>)

\* An unknown type of cursor is read, and the rectangle never finished.
VMwareCursor ==
  /\ At("vmwareCursor")
  /\ IF Lacks(1) \/ (Lacks(2) /\ wire[1].of # "unknown") THEN Waits
     ELSE IF wire[1].of = "unknown"
     THEN /\ Reads(<<"cursorType">>)
          /\ running' = FALSE
          /\ UNCHANGED <<failed, fbu, dec, drawVars, flushing, askVars, serverVars>>
     ELSE Reads(<<"cursorType", "pixels">>) /\ RectDone(<<>>) /\ UNCHANGED dec

\* _resize: the view may change with the desktop, and then shows what is drawn;
\* continuous updates are asked for again, for the new size.
ResizeDone(size) ==
  /\ fbSize' = size
  /\ fbu' = IF RectsLeft = 0 THEN NoRect ELSE [NoRect EXCEPT !.rects = RectsLeft]
  /\ \E flips \in {<<>>, ViewFlip} :
       IF RectsLeft = 0 THEN Put(flips \o Flip) /\ Returns
       ELSE Put(flips) /\ UNCHANGED running
  /\ IF continuous THEN area' = size /\ UNCHANGED asked
     ELSE IF RectsLeft = 0 THEN Request(size) ELSE UNCHANGED <<area, asked>>
  /\ UNCHANGED <<failed, dec, flushing, continuous, supportsCU, serverVars>>

DesktopSize ==
  /\ At("size")
  /\ UNCHANGED streamVars
  /\ ResizeDone(fbu.size)

\* A refusal of this client's request to resize has no size.
ExtendedDesktopSize ==
  /\ At("extendedSize")
  /\ IF Lacks(2) THEN Waits
     ELSE /\ Reads(<<"screens", "screen">>)
          /\ IF fbu.size = 0 THEN RectDone(<<>>) /\ UNCHANGED dec
             ELSE ResizeDone(fbu.size)

UnknownEncoding == At("unknown") /\ Fails

-----------------------------------------------------------------------------
(* The decoders. *)

Empty == fbu.size = 0

\* As many lines as have arrived are drawn at once.
Lines(left, n) ==
  [i \in 1 .. n |-> Draw("line", <<fbu.size - left + i>>)]
Raw ==
  /\ At("raw")
  /\ IF Empty THEN UNCHANGED <<streamVars, dec>> /\ RectDone(<<>>)
     ELSE IF Lacks(1) THEN Waits
     ELSE LET left == IF dec.lines = 0 THEN fbu.size ELSE dec.lines
              n == Min({left, avail})
              items == FromReceiveQueue(Blit(Lines(left, n)))
              memory == [dec EXCEPT !.lines = left - n]
          IN /\ Reads([i \in 1 .. n |-> "line"])
             /\ IF n = left THEN RectDone(items) /\ dec' = memory
                ELSE RectGoesOn(items, memory, FALSE)

CopyRect ==
  /\ At("copyRect")
  /\ IF Lacks(1) THEN Waits
     ELSE /\ Reads(<<"from">>)
          /\ RectDone(IF Empty THEN <<>> ELSE CopyImage(Draw("copy", <<>>)))
          /\ UNCHANGED dec

\* The colours are views of the receive queue.
RreFill(n) == FromReceiveQueue(Fill(<<Draw("fill", <<n>>)>>))
Rre ==
  /\ At("rre")
  /\ IF Lacks(1) THEN Waits
     ELSE LET start == dec.subrects = 0
              left == IF start THEN wire[1].n ELSE dec.subrects - 1
              items == RreFill(IF start THEN 0 ELSE wire[1].n)
              memory == [dec EXCEPT !.subrects = left]
          IN /\ Reads(IF start THEN <<"subrects">> ELSE <<"subrect">>)
             /\ IF left = 0 THEN RectDone(items) /\ dec' = memory
                ELSE RectGoesOn(items, memory, TRUE)

\* A tile is looked at, and read only when all of it has arrived.
UncountedPieces(sub) == IF sub = "blank" THEN <<"tile">> ELSE <<"tile", "pixels">>
TilePieces(sub) ==
  CASE sub = "blank" -> <<"tile">>
    [] sub = "subrects" -> <<"tile", "subrects", "pixels">>
    [] OTHER -> <<"tile", "pixels">>
TileItems(sub, n) ==
  CASE sub = "blank" -> IF dec.lastRaw THEN <<>> ELSE Fill(<<Draw("tile", <<n>>)>>)
    [] sub = "raw" -> FromReceiveQueue(Blit(<<Draw("tile", <<n>>)>>))
    [] OTHER -> Blit(<<Draw("tile", <<n>>)>>)
Hextile ==
  /\ At("hextile")
  /\ IF Empty THEN UNCHANGED <<streamVars, dec>> /\ RectDone(<<>>)
     ELSE IF Lacks(1) THEN Waits
     ELSE IF wire[1].of = "illegal" THEN Fails
     ELSE LET left == IF dec.tiles = 0 THEN fbu.size ELSE dec.tiles
              sub == wire[1].of
              items == TileItems(sub, wire[1].n)
              memory == [dec EXCEPT !.tiles = left - 1, !.lastRaw = (sub = "raw")]
          IN IF Lacks(Len(TilePieces(sub)))
             THEN RectGoesOn(<<>>, [dec EXCEPT !.tiles = left], FALSE) /\ UNCHANGED streamVars
             ELSE /\ Reads(TilePieces(sub))
                  /\ IF left = 1 THEN RectDone(items) /\ dec' = memory
                     ELSE RectGoesOn(items, memory, TRUE)

\* Tight and TightPNG.  The control byte, the filter, the palette and the length
\* are each read once and remembered.
AtTight == At("tight") \/ At("tightPng")
Remember(kinds, memory) ==
  IF Lacks(Len(kinds)) THEN Waits
  ELSE Reads(kinds) /\ RectGoesOn(<<>>, memory, TRUE)

TightControl ==
  /\ AtTight /\ dec.ctl = "none"
  /\ Remember(<<"control">>, [dec EXCEPT !.ctl = wire[1].of])

TightDone(items) ==
  /\ RectDone(items)
  /\ dec' = [dec EXCEPT !.ctl = "none", !.filter = "none", !.numColors = 0, !.len = FALSE]

TightFill ==
  /\ AtTight /\ dec.ctl = "fill"
  /\ IF Lacks(1) THEN Waits
     ELSE Reads(<<"colour">>) /\ TightDone(Fill(<<Draw("fill", <<>>)>>))

\* _readData, first its length and then the data.
DataLength ==
  /\ ~dec.len
  /\ Remember(<<"length">>, [dec EXCEPT !.len = TRUE])

IllegalFor(enc) == IF enc = "tight" THEN {"png"} ELSE {"basic", "filtered"}

TightIllegal == AtTight /\ dec.ctl \in IllegalFor(fbu.enc) \cup {"illegal"} /\ Fails

TightImage ==
  /\ AtTight /\ dec.ctl \in {"jpeg", "png"} \ IllegalFor(fbu.enc)
  /\ \/ DataLength
     \/ /\ dec.len
        /\ IF Lacks(1) THEN Waits
           ELSE /\ Reads(<<"data">>)
                /\ IF Empty THEN TightDone(<<>>)
                   ELSE ImageRect(Draw(dec.ctl, <<>>), TightDone)

Basic == AtTight /\ dec.ctl \in {"basic", "filtered"} \ IllegalFor(fbu.enc)

TightFilter ==
  /\ Basic /\ dec.filter = "none"
  /\ IF dec.ctl = "basic"
     THEN RectGoesOn(<<>>, [dec EXCEPT !.filter = "copy"], TRUE) /\ UNCHANGED streamVars
     ELSE Remember(<<"filter">>, [dec EXCEPT !.filter = wire[1].of])

TightIllegalFilter == Basic /\ dec.filter \notin {"none", "copy", "palette"} /\ Fails

TightPalette ==
  /\ Basic /\ dec.filter = "palette" /\ dec.numColors = 0
  /\ IF Lacks(2) THEN Waits
     ELSE Reads(<<"numColors", "palette">>)
          /\ RectGoesOn(<<>>, [dec EXCEPT !.numColors = wire[1].n], TRUE)

\* Less than 12 bytes are sent as they are (size 1), more with their length.  An
\* empty rectangle ends without forgetting its palette.
TightPixels ==
  /\ Basic
  /\ dec.filter = "copy" \/ (dec.filter = "palette" /\ dec.numColors > 0)
  /\ LET items == Blit(<<Draw("pixels", <<>>)>>) IN
     IF Empty
     THEN /\ UNCHANGED streamVars /\ RectDone(<<>>)
          /\ dec' = [dec EXCEPT !.ctl = "none", !.filter = "none"]
     ELSE IF fbu.size = 1
     THEN IF Lacks(1) THEN Waits ELSE Reads(<<"pixels">>) /\ TightDone(items)
     ELSE \/ DataLength
          \/ /\ dec.len
             /\ IF Lacks(1) THEN Waits ELSE Reads(<<"data">>) /\ TightDone(items)

\* ZRLE: the tiles are drawn one after the other from the inflated data.
ZrleItems ==
  Blit(<<Draw("tile", <<1>>)>>) \o Fill(<<Draw("tile", <<2>>)>>)
Zrle ==
  /\ At("zrle")
  /\ IF ~dec.zLength
     THEN Remember(<<"length">>, [dec EXCEPT !.zLength = TRUE])
     ELSE IF Lacks(1) THEN Waits
     ELSE /\ Reads(<<"data">>)
          /\ RectDone(ZrleItems)
          /\ dec' = [dec EXCEPT !.zLength = FALSE]

\* JPEG: all that has arrived is parsed anew each time; tables that an earlier
\* parse found are kept for files that have none.
Segments(n) == SubSeq(wire, 1, n)
FileEnd ==
  LET ends == {i \in 1 .. avail : wire[i].of = "end"} IN
  IF ends = {} THEN avail ELSE Min(ends)
FileComplete == \E i \in 1 .. avail : wire[i].of = "end"
TablesIn(segments, of) ==
  FlattenSeq([i \in 1 .. Len(segments) |->
    IF segments[i].of = of THEN <<segments[i].n>> ELSE <<>>])
Kept(new, cached) == IF new # <<>> THEN new ELSE cached
Parsed ==
  [dec EXCEPT
     !.cachedQuant = Kept(dec.quant, @),
     !.cachedHuffman = Kept(dec.huffman, @),
     !.quant = TablesIn(Segments(FileEnd), "quant"),
     !.huffman = TablesIn(Segments(FileEnd), "huffman")]
Assembled(memory) ==
  Kept(memory.quant, memory.cachedQuant) \o Kept(memory.huffman, memory.cachedHuffman)
Jpeg ==
  /\ At("jpeg")
  /\ IF ~FileComplete
     THEN RectGoesOn(<<>>, Parsed, FALSE) /\ UNCHANGED streamVars
     ELSE /\ Reads([i \in 1 .. FileEnd |-> "segment"])
          /\ dec' = Parsed
          /\ ImageRect(Draw("image", Assembled(Parsed)), RectDone)

Handle ==
  \/ BeginUpdate \/ Bell \/ ServerCutText \/ ServerFence \/ Xvp \/ EndOfContinuousUpdates
  \/ SetColourMap \/ UnexpectedMessage \/ RectHeader
  \/ LastRect \/ QemuExtendedKeyEvent \/ Cursor \/ VMwareCursor \/ DesktopName
  \/ DesktopSize \/ ExtendedDesktopSize \/ UnknownEncoding
  \/ Raw \/ CopyRect \/ Rre \/ Hextile
  \/ TightControl \/ TightFill \/ TightIllegal \/ TightImage \/ TightFilter
  \/ TightIllegalFilter \/ TightPalette \/ TightPixels \/ Zrle \/ Jpeg

-----------------------------------------------------------------------------
(* Between two tasks: messages arrive, images load. *)

\* The handler is called for what has arrived, unless the session has failed.
Arrive(n) ==
  /\ ~running /\ ~failed
  /\ avail + n <= Len(wire)
  /\ avail' = avail + n
  /\ running' = ~flushing
  /\ UNCHANGED <<wire, confused, failed, fbu, dec, drawVars, flushing, askVars, serverVars>>

\* The "load" event: only the first image of the queue is listened to.  When
\* the queue is empty a flush ends, and _onFlush calls the handler.
FlushesForEver == flushing
StillFlushing == flushing /\ queue' # <<>>
ImageLoads(i) ==
  /\ ~running
  /\ queue[i].img = "loading"
  /\ LET now == [queue EXCEPT ![i].img = "loaded"] IN
     IF i = 1 THEN Scan(now) ELSE queue' = now /\ UNCHANGED <<damaged, due, wrong>>
  /\ flushing' = StillFlushing
  /\ running' = (flushing /\ ~flushing' /\ avail > 0 /\ ~failed)
  /\ UNCHANGED <<streamVars, failed, fbu, dec, askVars, serverVars>>

\* An image that is none, or has other dimensions: no "load" event, or one that
\* leaves it in the queue.
ImageBreaks(i) ==
  /\ ~running
  /\ queue[i].img = "loading"
  /\ queue' = [queue EXCEPT ![i].img = "broken"]
  /\ UNCHANGED <<streamVars, running, failed, fbu, dec, flushing, damaged, due, wrong, askVars,
                 serverVars>>

\* The page clips, drags or resizes the view (viewportChangePos and
\* viewportChangeSize).
ViewChanges ==
  /\ ~running
  /\ queue # <<>> => queue[Len(queue)].type # "viewFlip"
  /\ Put(ViewFlip)
  /\ UNCHANGED <<streamVars, running, failed, fbu, dec, flushing, askVars, serverVars>>

-----------------------------------------------------------------------------
(* The server. *)

MaySend == ~running /\ ~failed /\ Len(wire) <= MaxBacklog

\* It answers a request, or sends on its own while updates are continuous.
SendUpdate(picture) ==
  /\ MaySend
  /\ asked \/ continuous
  /\ \A i \in 1 .. Len(picture) : picture[i] \in NeedsTables => tables.quant # <<>>
  /\ wire' = wire \o UpdatePieces(picture)
  /\ due' = due \o UpdateDraws(picture, tables)
  /\ asked' = FALSE
  /\ serverSize' = SizeAfter(picture, serverSize)
  /\ tables' = TablesAfter(picture, tables)
  /\ UNCHANGED <<avail, confused, running, failed, fbu, dec, queue, damaged, wrong, flushing,
                 fbSize, area, continuous, supportsCU, pictures>>

\* EndOfContinuousUpdates is sent once, to say that they are known.
SendOther(message) ==
  /\ MaySend
  /\ message[1].kind = "endContinuous" =>
       ~supportsCU /\ \A i \in 1 .. Len(wire) : wire[i].kind # "endContinuous"
  /\ wire' = wire \o message
  /\ UNCHANGED <<avail, confused, running, failed, fbu, dec, drawVars, flushing, askVars,
                 serverVars>>

Next ==
  \/ Handle
  \/ \E n \in 1 .. Len(wire) : Arrive(n)
  \/ \E i \in 1 .. Len(queue) : ImageLoads(i) \/ ImageBreaks(i)
  \/ ViewChanges
  \/ \E p \in pictures : SendUpdate(p)
  \/ \E o \in OtherMessages : SendOther(o)

\* The handler runs to its end; between two of its runs the browser gives their
\* turn to the message that has come and to the image that has been decoded.
ArriveSome == \E n \in 1 .. Len(wire) : Arrive(n)
FirstImageLoads == queue # <<>> /\ ImageLoads(1)
Spec ==
  /\ Init /\ [][Next]_vars
  /\ WF_vars(Handle) /\ SF_vars(ArriveSome) /\ SF_vars(FirstImageLoads)

-----------------------------------------------------------------------------
(* Properties. *)

TypeOK ==
  /\ avail \in 0 .. Len(wire)
  /\ confused \in BOOLEAN /\ running \in BOOLEAN /\ failed \in BOOLEAN
  /\ fbu.rects \in Nat /\ (fbu.rects = 0 => fbu = NoRect)
  /\ dec.lines \in Nat /\ dec.subrects \in Nat /\ dec.tiles \in Nat
  /\ \A i \in 1 .. Len(queue) : queue[i].type \in {"fill", "copy", "blit", "img"} \union Flips
  /\ queue # <<>> => ~Ready(queue[1])
  /\ flushing \in BOOLEAN /\ damaged \in BOOLEAN /\ wrong \in BOOLEAN
  /\ {fbSize, area, serverSize} \subseteq Sizes
  /\ asked \in BOOLEAN /\ continuous \in BOOLEAN /\ supportsCU \in BOOLEAN

\* However the stream is cut into messages, every decoder and handler reads each
\* piece once and as what it is (rQwait, and what the decoders remember).
InStep == ~confused

\* What is drawn on the canvas is what the server sent, in its order, whatever
\* images load first (display.js: _scanRenderQ); once all has been read and no
\* image is loading, all of it has been drawn and is shown.
Quiet == wire = <<>> /\ queue = <<>> /\ ~running /\ ~failed
DrawsInOrder == ~wrong /\ (Quiet => due = <<>> /\ ~damaged)

\* When an update is read the one before is on the canvas: never do the draws of
\* two updates wait (_framebufferUpdate: "to avoid building up an excessive
\* queue").  After the flip of an update only changes of the view wait.
OneUpdateQueued ==
  \A i, j \in 1 .. Len(queue) :
    queue[i].type = "flip" /\ i < j => queue[j].type = "viewFlip"

\* The canvas follows the server, one update behind at most.
PaintsInOrder == DrawsInOrder /\ OneUpdateQueued

\* Updates are asked for the whole framebuffer, also after it was resized.
AsksForAll == Quiet => fbSize = serverSize /\ area = serverSize

\* The server can always send an update again, in the end: the viewer asks for
\* the next one after each, and waits for images no longer than they load.  An
\* image that cannot be drawn holds the session up for ever.
HeldUp == \E i \in 1 .. Len(queue) : queue[i].img = "broken"
AsksAgain == []<>(failed \/ asked \/ continuous \/ HeldUp)

\* A queue of draws empties, unless an image in it cannot be drawn.
QueueDrains == (queue # <<>>) ~> (queue = <<>> \/ HeldUp)

\* The session goes on: what is waiting is drawn, and more is asked for
\* (_onFlush, _resumeRenderQ, _normalMsg).
UpdatesGoOn == AsksAgain /\ QueueDrains
=============================================================================
