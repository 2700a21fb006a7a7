------------------------------ MODULE Websock ------------------------------
(***************************************************************************)
(* The viewer's buffered channel (noVNC core/websock.js): the receive queue *)
(* that web socket messages are appended to and the protocol code reads    *)
(* from, grown or compacted when a message does not fit, and the send queue *)
(* the protocol code writes to and flushes, with the one writer that fills  *)
(* it several times over, clientCutText of core/rfb.js.                     *)
(*                                                                         *)
(* A byte is represented by its place in its stream: byte k is the one that *)
(* arrived, or was written, after k others.  A read outside a buffer's      *)
(* bounds and a write that is silently dropped are then visible.            *)
(***************************************************************************)
EXTENDS Integers

CONSTANTS
  InitialSize,       \* _rQbufferSize at first, 4 MiB
  MaxRQGrowSize,     \* MAX_RQ_GROW_SIZE, 40 MiB
  SendSize,          \* _sQbufferSize, 10 KiB
  MessageSizes,      \* lengths of web socket messages, 0 among them
  ReadSizes,         \* lengths the protocol code reads, or puts back, at once
  WriteSizes,        \* lengths of the protocol messages written in one go
  CutTextHeader,     \* bytes clientCutText writes before the text, 8
  CutTextSizes,      \* lengths of clipboard texts
  MaxArrived,        \* bound on the bytes that arrive
  MaxWritten         \* bound on the bytes that are written

ASSUME WebsockAssumption ==
  /\ InitialSize \in Nat \ {0}
  /\ MaxRQGrowSize \in Nat
  /\ InitialSize <= MaxRQGrowSize
  /\ SendSize \in Nat \ {0}
  /\ MessageSizes \subseteq Nat
  /\ ReadSizes \subseteq Nat
  /\ WriteSizes \subseteq Nat \ {0}
  /\ CutTextHeader \in Nat \ {0}
  /\ CutTextHeader < SendSize
  /\ CutTextSizes \subseteq Nat
  /\ \A n \in WriteSizes : CutTextHeader + n <= SendSize
  /\ MaxArrived \in Nat
  /\ MaxWritten \in Nat

VARIABLES
  readyState,        \* of the web socket
  listening,         \* FALSE once close() has replaced onmessage
  rQ,                \* contents of the receive buffer
  allocated,         \* length of that buffer
  rQbufferSize,      \* the length it is believed to have
  rQi, rQlen,        \* next byte to read, next place to write
  arrived,           \* bytes that have arrived
  taken,             \* bytes the protocol code has read
  takenNow,          \* those of them read in the handler that is running
  handling,          \* "no", or what called the handler: "message", "timer"
  lost,              \* a message has been dropped by an exception
  sQ, sQlen,         \* the send buffer and the next place to write
  written, sent,     \* bytes written to the buffer, and sent on
  remaining          \* of the clipboard text that is being written

receiving ==
  <<rQ, allocated, rQbufferSize, rQi, rQlen, arrived, taken, takenNow, handling, lost>>
sending == <<sQ, sQlen, written, sent, remaining>>
vars == <<readyState, listening, receiving, sending>>

Larger(a, b) == IF a >= b THEN a ELSE b
Smaller(a, b) == IF a <= b THEN a ELSE b

Unread == rQlen - rQi

Init ==
  /\ readyState = "connecting"
  /\ listening = TRUE
  /\ rQ = [k \in 0 .. (MaxRQGrowSize - 1) |-> 0]
  /\ allocated = InitialSize
  /\ rQbufferSize = InitialSize
  /\ rQi = 0 /\ rQlen = 0
  /\ arrived = 0 /\ taken = 0 /\ takenNow = 0
  /\ handling = "no"
  /\ lost = FALSE
  /\ sQ = [k \in 0 .. (SendSize - 1) |-> 0]
  /\ sQlen = 0
  /\ written = 0 /\ sent = 0
  /\ remaining = 0

-----------------------------------------------------------------------------
(* The receive queue. *)

Idle == handling = "no" /\ remaining = 0

\* _expandCompactRQ: the buffer keeps room for eight times what is unread and
\* arriving, at least doubles when it grows, and never passes the limit.
Required(n) == (Unread + n) * 8
ResizeNeeded(n) == rQbufferSize < Required(n)
Wanted(n) ==
  IF ResizeNeeded(n) THEN Larger(rQbufferSize * 2, Required(n)) ELSE rQbufferSize
NewSize(n) == Smaller(Wanted(n), MaxRQGrowSize)
WantsTooMuch(n) == Wanted(n) > MaxRQGrowSize   \* fault: does not count what is free
CannotFit(n) == Wanted(n) > MaxRQGrowSize /\ MaxRQGrowSize - Unread < n

CompactedFromFront(n) ==   \* fault: copies from the start of the buffer
  [k \in DOMAIN rQ |-> IF k < Unread THEN rQ[k] ELSE 0]
\* The unread bytes at the front; a new buffer is zero after them, the same
\* one keeps its old contents there.
Compacted(n) ==
  [k \in DOMAIN rQ |->
     IF k < Unread THEN rQ[rQi + k] ELSE IF ResizeNeeded(n) THEN 0 ELSE rQ[k]]

Put(buffer, at, n) ==
  [k \in DOMAIN buffer |->
     IF at <= k /\ k < at + n THEN arrived + (k - at) ELSE buffer[k]]

FitsAsItIs(n) == n <= rQbufferSize - rQlen

\* What _recvMessage does after _DecodeMessage: it calls the handler, unless
\* nothing is unread.
HandOver(n) ==
  /\ arrived' = arrived + n
  /\ takenNow' = 0
  /\ handling' = IF Unread + n > 0 THEN "message" ELSE "no"

AppendMessage(n) ==
  /\ FitsAsItIs(n)
  /\ rQlen + n <= allocated
  /\ rQ' = Put(rQ, rQlen, n)
  /\ rQlen' = rQlen + n
  /\ HandOver(n)
  /\ UNCHANGED <<allocated, rQbufferSize, rQi, lost>>

ExpandAndAppend(n) ==
  /\ ~FitsAsItIs(n)
  /\ ~CannotFit(n)
  /\ rQ' = Put(Compacted(n), Unread, n)
  /\ allocated' = IF ResizeNeeded(n) THEN NewSize(n) ELSE allocated
  /\ rQbufferSize' = NewSize(n)
  /\ rQi' = 0
  /\ rQlen' = Unread + n
  /\ HandOver(n)
  /\ UNCHANGED lost

\* The exception leaves the message out, and the believed size at the limit;
\* later messages may then not fit the buffer there really is.
DropMessage(n) ==
  /\ \/ ~FitsAsItIs(n) /\ CannotFit(n) /\ rQbufferSize' = MaxRQGrowSize
     \/ FitsAsItIs(n) /\ rQlen + n > allocated /\ UNCHANGED rQbufferSize
  /\ arrived' = arrived + n
  /\ lost' = TRUE
  /\ UNCHANGED <<rQ, allocated, rQi, rQlen, takenNow, handling>>

RecvMessage(n) ==
  /\ Idle
  /\ readyState \in {"open", "closing"}
  /\ listening
  /\ arrived + n <= MaxArrived
  /\ AppendMessage(n) \/ ExpandAndAppend(n) \/ DropMessage(n)
  /\ UNCHANGED <<readyState, listening, taken, sending>>

\* _onFlush and _resumeAuthentication of the protocol code call its handler
\* without a message.
RunFromTimer ==
  /\ Idle
  /\ Unread > 0
  /\ handling' = "timer"
  /\ takenNow' = 0
  /\ UNCHANGED <<readyState, listening, rQ, allocated, rQbufferSize, rQi, rQlen, arrived,
                 taken, lost, sending>>

\* rQshift8 and the like, after rQwait has found n bytes.
Shift(n) ==
  /\ handling # "no" /\ remaining = 0
  /\ Unread >= n
  /\ rQi' = rQi + n
  /\ taken' = taken + n
  /\ takenNow' = takenNow + n
  /\ UNCHANGED <<readyState, listening, rQ, allocated, rQbufferSize, rQlen, arrived,
                 handling, lost, sending>>

\* The handler returns, or throws.  When it returns to _recvMessage and all
\* has been read, the queue starts over at the front.
StartOver == rQi = rQlen
EndHandler ==
  /\ handling # "no" /\ remaining = 0
  /\ handling' = "no"
  /\ IF handling = "message" /\ StartOver
     THEN rQi' = 0 /\ rQlen' = 0
     ELSE UNCHANGED <<rQi, rQlen>>
  /\ UNCHANGED <<readyState, listening, rQ, allocated, rQbufferSize, arrived, taken,
                 takenNow, lost, sending>>

HandlerThrows ==
  /\ handling # "no" /\ remaining = 0
  /\ handling' = "no"
  /\ UNCHANGED <<readyState, listening, rQ, allocated, rQbufferSize, rQi, rQlen, arrived,
                 taken, takenNow, lost, sending>>

\* rQwait with goback: the header read in this handler is put back, and the
\* handler returns until more has arrived.
GoBack(n) ==
  /\ handling # "no" /\ remaining = 0
  /\ n <= takenNow
  /\ rQi >= n        \* rQwait throws otherwise
  /\ rQi' = rQi - n
  /\ taken' = taken - n
  /\ takenNow' = takenNow - n
  /\ handling' = "no"
  /\ rQlen > rQi - n
  /\ UNCHANGED <<readyState, listening, rQ, allocated, rQbufferSize, rQlen, arrived, lost,
                 sending>>

-----------------------------------------------------------------------------
(* The send queue. *)

\* Bytes outside the buffer are dropped without an error.
Write(n) ==
  [k \in DOMAIN sQ |->
     IF sQlen <= k /\ k < sQlen + n THEN written + (k - sQlen) ELSE sQ[k]]

SendsUnlessFull(len) == readyState = "open" /\ len < SendSize   \* fault: off by one
\* Whether flush() sends the len bytes of the queue: only an open socket is
\* sent to, and a view longer than the buffer cannot be made.
MaySend(len) == readyState = "open" /\ len <= SendSize

FlushedAndKept(len) ==   \* fault: the queue is not emptied
  sQlen' = len /\ IF MaySend(len) THEN sent' = sent + len ELSE UNCHANGED sent
\* flush() after a writer has left len bytes in the queue.
Flushed(len) ==
  IF MaySend(len) THEN sent' = sent + len /\ sQlen' = 0 ELSE sQlen' = len /\ UNCHANGED sent

\* One of the messages that are written in full and flushed, as keyEvent.
WriteMessage(n) ==
  /\ remaining = 0
  /\ readyState # "connecting"
  /\ written + n <= MaxWritten
  /\ sQ' = Write(n)
  /\ written' = written + n
  /\ Flushed(sQlen + n)
  /\ UNCHANGED <<readyState, listening, receiving, remaining>>

\* clientCutText writes its header without flushing it ...
CutTextBegins(n) ==
  /\ remaining = 0
  /\ readyState # "connecting"
  /\ written + CutTextHeader + n <= MaxWritten
  /\ readyState = "open" => sQlen = 0   \* bound: one empty text before a write
  /\ sQ' = Write(CutTextHeader)
  /\ sQlen' = sQlen + CutTextHeader
  /\ written' = written + CutTextHeader
  /\ remaining' = n
  /\ UNCHANGED <<readyState, listening, receiving, sent>>

RoomInQueue == SendSize - sQlen   \* fault: as much as fits, even past the text's end
\* ... and then the text, as much at a time as the buffer has room for.
FlushSize == Smaller(remaining, SendSize - sQlen)
CutTextChunk ==
  /\ remaining > 0
  /\ sQ' = Write(FlushSize)
  /\ written' = written + FlushSize
  /\ Flushed(sQlen + FlushSize)
  /\ remaining' = remaining - FlushSize
  /\ UNCHANGED <<readyState, listening, receiving>>

-----------------------------------------------------------------------------
(* The web socket, and close(). *)

\* The browser changes the state between two tasks, never inside one.
SocketMoves ==
  /\ Idle
  /\ \/ readyState = "connecting" /\ readyState' \in {"open", "closed"}
     \/ readyState = "open" /\ readyState' \in {"closing", "closed"}
     \/ readyState = "closing" /\ readyState' = "closed"
  /\ UNCHANGED <<listening, receiving, sending>>

Close ==
  /\ remaining = 0
  /\ readyState' = IF readyState \in {"connecting", "open"} THEN "closing" ELSE readyState
  /\ listening' = FALSE
  /\ UNCHANGED <<receiving, sending>>

Next ==
  \/ \E n \in MessageSizes : RecvMessage(n)
  \/ RunFromTimer
  \/ \E n \in ReadSizes : Shift(n)
  \/ EndHandler
  \/ HandlerThrows
  \/ \E n \in ReadSizes : GoBack(n)
  \/ \E n \in WriteSizes : WriteMessage(n)
  \/ \E n \in CutTextSizes : CutTextBegins(n)
  \/ CutTextChunk
  \/ SocketMoves
  \/ Close

\* The loop of clientCutText runs without giving way.
Spec == Init /\ [][Next]_vars /\ WF_vars(CutTextChunk)

-----------------------------------------------------------------------------
(* Properties. *)

TypeOK ==
  /\ readyState \in {"connecting", "open", "closing", "closed"}
  /\ listening \in BOOLEAN
  /\ rQ \in [0 .. (MaxRQGrowSize - 1) -> Nat]
  /\ allocated \in Nat /\ rQbufferSize \in Nat
  /\ rQi \in Nat /\ rQlen \in Nat
  /\ arrived \in Nat /\ taken \in Nat /\ takenNow \in Nat
  /\ handling \in {"no", "message", "timer"}
  /\ lost \in BOOLEAN
  /\ sQ \in [0 .. (SendSize - 1) -> Nat]
  /\ sQlen \in Nat
  /\ written \in Nat /\ sent \in Nat /\ remaining \in Nat

\* What is unread lies inside a buffer of the size that is believed, which
\* never passes the limit; what a handler has read can be put back; the
\* unread bytes are the next of the stream, each once and in order (websock.js:
\* _expandCompactRQ, _DecodeMessage, _recvMessage, rQwait).
BufferSizeIsReal == allocated = rQbufferSize
QueueInBuffer == rQi <= rQlen /\ rQlen <= allocated /\ allocated <= MaxRQGrowSize
CanGoBack == handling # "no" => takenNow <= rQi
NoByteMissing == taken + Unread = arrived
UnreadInOrder == \A k \in rQi .. (rQlen - 1) : rQ[k] = taken + (k - rQi)
ReadsTheStream ==
  /\ QueueInBuffer
  /\ CanGoBack
  /\ ~lost => BufferSizeIsReal /\ NoByteMissing /\ UnreadInOrder

\* A message is dropped only when it and the unread bytes together are more
\* than the largest buffer holds, or one was dropped before (_expandCompactRQ
\* throws "the new message could not fit").
DropsOnlyWhatCannotFit ==
  [][lost' /\ ~lost => Unread + (arrived' - arrived) > MaxRQGrowSize]_vars

\* While the socket is open all that was written has been sent or waits whole
\* in the queue, in order: flush sends nothing twice and clientCutText loses
\* nothing between two chunks.
SentInOrder ==
  readyState = "open" =>
    /\ written = sent + sQlen
    /\ sQlen <= SendSize
    /\ \A k \in 0 .. (sQlen - 1) : sQ[k] = sent + k

\* A clipboard text of any length is written to the end while the socket is
\* open (clientCutText; on a socket that is closing its loop never ends once
\* the queue is full).
PasteEnds == (remaining > 0 /\ readyState = "open") ~> (remaining = 0)
=============================================================================
