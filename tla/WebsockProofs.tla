--------------------------- MODULE WebsockProofs ----------------------------
(***************************************************************************)
(* For buffers and messages of every size: the receive queue hands out the *)
(* stream in order and drops only what cannot fit, and the send queue      *)
(* sends what is written once and in order.                                *)
(***************************************************************************)
EXTENDS Websock, TLAPS

(***************************************************************************)
(* The strengthening.  While nothing was lost the bytes a handler has read *)
(* still lie in front of the unread ones, so that they can be put back.    *)
(* Once something was lost, the believed size is the limit and stays so.   *)
(***************************************************************************)
RoomIsBelieved == lost => rQbufferSize = MaxRQGrowSize
InOrderFrom(first) == \A k \in first .. (rQlen - 1) : rQ[k] = taken + (k - rQi)
HandlerKeepsItsBytes ==
  handling # "no" => /\ takenNow <= taken
                     /\ ~lost => InOrderFrom(rQi - takenNow)

ReceiveTypes ==
  /\ rQ \in [0 .. (MaxRQGrowSize - 1) -> Nat]
  /\ allocated \in Nat /\ rQbufferSize \in Nat
  /\ rQi \in Nat /\ rQlen \in Nat
  /\ arrived \in Nat /\ taken \in Nat /\ takenNow \in Nat
  /\ handling \in {"no", "message", "timer"}
  /\ lost \in BOOLEAN

ReceiveInv ==
  /\ ReceiveTypes
  /\ ReadsTheStream
  /\ RoomIsBelieved
  /\ HandlerKeepsItsBytes

(***************************************************************************)
(* What is written is sent or in the queue, whatever the socket's state;   *)
(* on an open socket only the header of a clipboard text ever waits.       *)
(***************************************************************************)
SentOrWaiting == written = sent + sQlen
FreshSocket == readyState = "connecting" => sQlen = 0 /\ remaining = 0
OnlyAHeaderWaits ==
  readyState = "open" =>
    /\ sQlen <= CutTextHeader
    /\ \A k \in 0 .. (sQlen - 1) : sQ[k] = sent + k

SendTypes ==
  /\ readyState \in {"connecting", "open", "closing", "closed"}
  /\ listening \in BOOLEAN
  /\ sQ \in [0 .. (SendSize - 1) -> Nat]
  /\ sQlen \in Nat
  /\ written \in Nat /\ sent \in Nat /\ remaining \in Nat

SendInv ==
  /\ SendTypes
  /\ SentOrWaiting
  /\ FreshSocket
  /\ OnlyAHeaderWaits

IInv == ReceiveInv /\ SendInv

LEMMA InvImplies == IInv => TypeOK /\ ReadsTheStream /\ SentInOrder
BY WebsockAssumption
   DEF IInv, ReceiveInv, ReceiveTypes, SendInv, SendTypes, TypeOK, SentInOrder,
       SentOrWaiting, OnlyAHeaderWaits

LEMMA InitInv == Init => IInv
<1> SUFFICES ASSUME Init PROVE IInv
  OBVIOUS
<1>1. ReceiveTypes /\ SendTypes
  BY WebsockAssumption DEF Init, ReceiveTypes, SendTypes
<1>2. ReadsTheStream
  BY WebsockAssumption
     DEF Init, ReadsTheStream, QueueInBuffer, CanGoBack, BufferSizeIsReal, NoByteMissing,
         UnreadInOrder, Unread
<1>3. RoomIsBelieved /\ HandlerKeepsItsBytes
  BY DEF Init, RoomIsBelieved, HandlerKeepsItsBytes
<1>4. SentOrWaiting /\ FreshSocket /\ OnlyAHeaderWaits
  BY DEF Init, SentOrWaiting, FreshSocket, OnlyAHeaderWaits
<1> QED
  BY <1>1, <1>2, <1>3, <1>4 DEF IInv, ReceiveInv, SendInv

-----------------------------------------------------------------------------
(* The receive queue. *)

LEMMA ReceiveUnchanged == ReceiveInv /\ UNCHANGED receiving => ReceiveInv'
BY DEF ReceiveInv, ReceiveTypes, ReadsTheStream, QueueInBuffer, CanGoBack,
       BufferSizeIsReal, NoByteMissing, UnreadInOrder, Unread, RoomIsBelieved,
       HandlerKeepsItsBytes, InOrderFrom, receiving

LEMMA SendUnchanged == SendInv /\ UNCHANGED <<readyState, listening, sending>> => SendInv'
BY DEF SendInv, SendTypes, SentOrWaiting, FreshSocket, OnlyAHeaderWaits, sending

\* Bytes written at the end of what is unread continue the stream.
LEMMA AppendKeepsInv ==
  ASSUME ReceiveInv, NEW n \in Nat, AppendMessage(n), UNCHANGED taken
  PROVE  ReceiveInv'
<1> USE WebsockAssumption
<1>1. /\ ReceiveTypes /\ QueueInBuffer
      /\ rQ' = Put(rQ, rQlen, n)
      /\ rQlen' = rQlen + n /\ rQlen' <= allocated
      /\ UNCHANGED <<allocated, rQbufferSize, rQi, lost, taken>>
      /\ arrived' = arrived + n /\ takenNow' = 0
      /\ handling' \in {"no", "message"}
  BY DEF ReceiveInv, ReadsTheStream, AppendMessage, HandOver, QueueInBuffer, ReceiveTypes
<1>2. /\ DOMAIN rQ = 0 .. (MaxRQGrowSize - 1)
      /\ \A k \in DOMAIN rQ :
           rQ'[k] = IF rQlen <= k /\ k < rQlen + n THEN arrived + (k - rQlen) ELSE rQ[k]
  BY <1>1 DEF Put, ReceiveTypes
<1>3. rQ' \in [0 .. (MaxRQGrowSize - 1) -> Nat]
  BY <1>1, <1>2 DEF Put, ReceiveTypes
<1>4. ReceiveTypes'
  BY <1>1, <1>3 DEF ReceiveTypes
<1>5. QueueInBuffer' /\ CanGoBack' /\ RoomIsBelieved'
  BY <1>1 DEF QueueInBuffer, CanGoBack, RoomIsBelieved, ReceiveTypes, ReceiveInv
<1>6. ASSUME ~lost'
      PROVE  BufferSizeIsReal' /\ NoByteMissing' /\ UnreadInOrder'
  <2>1. BufferSizeIsReal /\ NoByteMissing /\ UnreadInOrder
    BY <1>1, <1>6 DEF ReceiveInv, ReadsTheStream
  <2>2. BufferSizeIsReal' /\ NoByteMissing'
    BY <1>1, <2>1 DEF BufferSizeIsReal, NoByteMissing, Unread, ReceiveTypes
  <2>3. ASSUME NEW k \in rQi' .. (rQlen' - 1)
        PROVE  rQ'[k] = taken' + (k - rQi')
    <3>1. /\ rQi \in Nat /\ rQlen \in Nat /\ taken \in Nat /\ arrived \in Nat
          /\ k \in Int /\ rQi <= k /\ k < rQlen + n
          /\ rQi' = rQi /\ taken' = taken
          /\ arrived = taken + (rQlen - rQi)
      BY <1>1, <2>1 DEF ReceiveTypes, NoByteMissing, Unread
    <3>2. k \in DOMAIN rQ
      BY <3>1, <1>1, <1>2 DEF QueueInBuffer, ReceiveTypes
    <3>3. CASE k < rQlen
      <4>1. rQ'[k] = rQ[k] /\ k \in rQi .. (rQlen - 1)
        BY <3>1, <3>2, <3>3, <1>2
      <4> QED
        BY <3>1, <4>1, <2>1 DEF UnreadInOrder
    <3>4. CASE k >= rQlen
      <4>1. rQ'[k] = arrived + (k - rQlen)
        BY <3>1, <3>2, <3>4, <1>2
      <4> QED
        BY <3>1, <4>1
    <3> QED
      BY <3>1, <3>3, <3>4
  <2> QED
    BY <2>2, <2>3 DEF UnreadInOrder
<1>7. HandlerKeepsItsBytes'
  BY <1>1, <1>6 DEF HandlerKeepsItsBytes, InOrderFrom, UnreadInOrder, ReceiveTypes
<1> QED
  BY <1>4, <1>5, <1>6, <1>7 DEF ReceiveInv, ReadsTheStream

\* There is room behind the unread bytes that were moved to the front: in the
\* new buffer, or, where the size is not what is believed, in the old one.
LEMMA RoomAfterCompacting ==
  ASSUME ReceiveInv, NEW n \in Nat, ~FitsAsItIs(n), ~CannotFit(n)
  PROVE  LET size == IF ResizeNeeded(n) THEN NewSize(n) ELSE allocated IN
         /\ size \in Nat /\ NewSize(n) \in Nat
         /\ Unread \in Nat
         /\ Unread + n <= size /\ size <= MaxRQGrowSize
         /\ lost => NewSize(n) = MaxRQGrowSize
         /\ ~lost => NewSize(n) = size
<1> USE WebsockAssumption
<1>1. ReceiveTypes /\ QueueInBuffer /\ RoomIsBelieved /\ (~lost => allocated = rQbufferSize)
  BY DEF ReceiveInv, ReadsTheStream, BufferSizeIsReal
<1>2. Unread \in Nat /\ Unread <= rQlen
  BY <1>1 DEF Unread, QueueInBuffer, ReceiveTypes
<1>3. n > rQbufferSize - rQlen
  BY <1>1 DEF FitsAsItIs, ReceiveTypes
<1>4. CASE ResizeNeeded(n)
  <2>1. /\ Wanted(n) \in Nat /\ Wanted(n) >= rQbufferSize * 2 /\ Wanted(n) >= (Unread + n) * 8
    BY <1>1, <1>2, <1>4 DEF Wanted, Larger, Required, ReceiveTypes
  <2>2. CASE Wanted(n) > MaxRQGrowSize
    BY <1>1, <1>2, <1>4, <2>1, <2>2 DEF NewSize, Smaller, CannotFit, RoomIsBelieved, ReceiveTypes
  <2>3. CASE Wanted(n) <= MaxRQGrowSize
    BY <1>1, <1>2, <1>4, <2>1, <2>3 DEF NewSize, Smaller, RoomIsBelieved, ReceiveTypes
  <2> QED
    BY <2>1, <2>2, <2>3
<1>5. CASE ~ResizeNeeded(n)
  <2>1. (Unread + n) * 8 <= rQbufferSize /\ Wanted(n) = rQbufferSize
    BY <1>1, <1>2, <1>5 DEF ResizeNeeded, Required, Wanted, ReceiveTypes
  <2>2. rQbufferSize <= MaxRQGrowSize
    BY <1>1 DEF RoomIsBelieved, QueueInBuffer, ReceiveTypes
  <2>3. Unread + n <= allocated
    BY <1>1, <1>2, <1>3, <2>1 DEF QueueInBuffer, RoomIsBelieved, ReceiveTypes
  <2> QED
    BY <1>1, <1>2, <1>5, <2>1, <2>2, <2>3
       DEF NewSize, Smaller, QueueInBuffer, RoomIsBelieved, ReceiveTypes
<1> QED
  BY <1>4, <1>5

LEMMA ExpandKeepsInv ==
  ASSUME ReceiveInv, NEW n \in Nat, ExpandAndAppend(n), UNCHANGED taken
  PROVE  ReceiveInv'
<1> USE WebsockAssumption
<1>1. /\ ReceiveTypes /\ QueueInBuffer
      /\ rQ' = Put(Compacted(n), Unread, n)
      /\ rQi' = 0 /\ rQlen' = Unread + n
      /\ allocated' = IF ResizeNeeded(n) THEN NewSize(n) ELSE allocated
      /\ rQbufferSize' = NewSize(n)
      /\ UNCHANGED <<lost, taken>>
      /\ arrived' = arrived + n /\ takenNow' = 0
      /\ handling' \in {"no", "message"}
      /\ ~FitsAsItIs(n) /\ ~CannotFit(n)
  BY DEF ReceiveInv, ReadsTheStream, ExpandAndAppend, HandOver
<1>2. /\ allocated' \in Nat /\ rQbufferSize' \in Nat
      /\ Unread \in Nat
      /\ Unread + n <= allocated' /\ allocated' <= MaxRQGrowSize
      /\ lost => rQbufferSize' = MaxRQGrowSize
      /\ ~lost => rQbufferSize' = allocated'
  BY <1>1, RoomAfterCompacting
<1>3. /\ DOMAIN rQ = 0 .. (MaxRQGrowSize - 1) /\ DOMAIN Compacted(n) = DOMAIN rQ
      /\ \A k \in DOMAIN rQ : k < Unread => rQi + k \in DOMAIN rQ
  BY <1>1, <1>2 DEF Compacted, Unread, QueueInBuffer, ReceiveTypes
<1>4. \A k \in DOMAIN rQ :
        rQ'[k] = IF Unread <= k /\ k < Unread + n THEN arrived + (k - Unread)
                 ELSE IF k < Unread THEN rQ[rQi + k]
                 ELSE IF ResizeNeeded(n) THEN 0 ELSE rQ[k]
  BY <1>1, <1>3 DEF Put, Compacted
<1>5. ASSUME NEW k \in DOMAIN rQ
      PROVE  rQ'[k] \in Nat
  <2>1. k \in Nat /\ rQ[k] \in Nat /\ arrived \in Nat
    BY <1>1, <1>3 DEF ReceiveTypes
  <2>2. CASE k < Unread
    <3>1. rQ'[k] = rQ[rQi + k] /\ rQi + k \in DOMAIN rQ
      BY <2>1, <2>2, <1>2, <1>3, <1>4
    <3> QED
      BY <3>1, <1>1, <1>3 DEF ReceiveTypes
  <2>3. CASE Unread <= k /\ k < Unread + n
    <3>1. rQ'[k] = arrived + (k - Unread)
      BY <2>3, <1>4
    <3> QED
      BY <3>1, <2>1, <2>3, <1>2
  <2>4. CASE Unread + n <= k
    <3>1. rQ'[k] = IF ResizeNeeded(n) THEN 0 ELSE rQ[k]
      BY <2>1, <2>4, <1>2, <1>4
    <3> QED
      BY <3>1, <2>1
  <2> QED
    BY <2>1, <2>2, <2>3, <2>4, <1>2
<1>6. rQ' \in [0 .. (MaxRQGrowSize - 1) -> Nat]
  <2>1. rQ' = [k \in DOMAIN rQ |-> rQ'[k]]
    BY <1>1, <1>3, <1>4 DEF Put
  <2> QED
    BY <2>1, <1>3, <1>5
<1>7. ReceiveTypes'
  BY <1>1, <1>2, <1>6 DEF ReceiveTypes
<1>8. QueueInBuffer' /\ CanGoBack' /\ RoomIsBelieved'
  BY <1>1, <1>2 DEF QueueInBuffer, CanGoBack, RoomIsBelieved, ReceiveTypes
<1>9. ASSUME ~lost'
      PROVE  BufferSizeIsReal' /\ NoByteMissing' /\ UnreadInOrder'
  <2>1. NoByteMissing /\ UnreadInOrder
    BY <1>1, <1>9 DEF ReceiveInv, ReadsTheStream
  <2>2. BufferSizeIsReal' /\ NoByteMissing'
    BY <1>1, <1>2, <1>9, <2>1 DEF BufferSizeIsReal, NoByteMissing, Unread, ReceiveTypes
  <2>3. ASSUME NEW k \in 0 .. (Unread + n - 1)
        PROVE  rQ'[k] = taken + k
    <3>1. k \in DOMAIN rQ
      BY <1>1, <1>2, <1>3
    <3>2. CASE k < Unread
      <4>1. rQ'[k] = rQ[rQi + k] /\ rQi + k \in rQi .. (rQlen - 1)
        BY <3>1, <3>2, <1>1, <1>2, <1>4 DEF Unread, ReceiveTypes
      <4> QED
        BY <4>1, <2>1, <1>1 DEF UnreadInOrder, ReceiveTypes
    <3>3. CASE k >= Unread
      <4>1. rQ'[k] = arrived + (k - Unread)
        BY <3>1, <3>3, <1>2, <1>4
      <4>2. arrived = taken + Unread /\ taken \in Nat
        BY <1>1, <2>1 DEF NoByteMissing, ReceiveTypes
      <4> QED
        BY <4>1, <4>2, <1>2
    <3> QED
      BY <3>2, <3>3, <1>2
  <2> QED
    BY <1>1, <2>2, <2>3, <1>2 DEF UnreadInOrder, ReceiveTypes
<1>10. HandlerKeepsItsBytes'
  BY <1>1, <1>9 DEF HandlerKeepsItsBytes, InOrderFrom, UnreadInOrder, ReceiveTypes
<1> QED
  BY <1>7, <1>8, <1>9, <1>10 DEF ReceiveInv, ReadsTheStream

LEMMA DropKeepsInv ==
  ASSUME ReceiveInv, NEW n \in Nat, handling = "no", DropMessage(n), UNCHANGED taken
  PROVE  ReceiveInv'
BY WebsockAssumption
   DEF ReceiveInv, ReceiveTypes, DropMessage, ReadsTheStream, QueueInBuffer, CanGoBack,
       BufferSizeIsReal, RoomIsBelieved, HandlerKeepsItsBytes, FitsAsItIs

\* While nothing was lost the size is what is believed: only the exception drops.
LEMMA OnlyTheExceptionDrops ==
  ASSUME ReceiveInv, NEW n \in Nat, DropMessage(n), ~lost
  PROVE  Unread + n > MaxRQGrowSize
BY WebsockAssumption
   DEF ReceiveInv, ReceiveTypes, DropMessage, ReadsTheStream, BufferSizeIsReal, FitsAsItIs,
       CannotFit, Unread

LEMMA ShiftKeepsInv ==
  ASSUME ReceiveInv, NEW n \in Nat, Shift(n)
  PROVE  ReceiveInv'
<1>1. /\ ReceiveTypes' /\ RoomIsBelieved' /\ QueueInBuffer' /\ CanGoBack'
      /\ ~lost => BufferSizeIsReal' /\ NoByteMissing'
  BY DEF ReceiveInv, ReceiveTypes, Shift, ReadsTheStream, QueueInBuffer, CanGoBack,
         BufferSizeIsReal, NoByteMissing, Unread, RoomIsBelieved
<1>2. /\ (rQi - takenNow)' = rQi - takenNow
      /\ \A k \in Int : (taken + (k - rQi))' = taken + (k - rQi)
      /\ rQi' \in Nat /\ rQi' >= rQi - takenNow /\ UNCHANGED <<rQ, rQlen, handling, lost>>
  BY DEF ReceiveInv, ReceiveTypes, Shift
<1>3. HandlerKeepsItsBytes'
  BY <1>2 DEF ReceiveInv, ReceiveTypes, HandlerKeepsItsBytes, InOrderFrom, Shift
<1>4. ~lost => UnreadInOrder'
  <2> SUFFICES ASSUME ~lost, NEW k \in rQi' .. (rQlen' - 1)
               PROVE  rQ'[k] = (taken + (k - rQi))'
    BY DEF UnreadInOrder
  <2>1. k \in rQi .. (rQlen - 1)
    BY DEF Shift, ReceiveInv, ReceiveTypes
  <2> QED
    BY <1>2, <2>1 DEF ReceiveInv, ReceiveTypes, ReadsTheStream, UnreadInOrder, Shift
<1> QED
  BY <1>1, <1>2, <1>3, <1>4 DEF ReceiveInv, ReadsTheStream

LEMMA EndKeepsInv ==
  ASSUME ReceiveInv, EndHandler \/ HandlerThrows
  PROVE  ReceiveInv'
<1>0. /\ handling' = "no"
      /\ UNCHANGED <<rQ, allocated, rQbufferSize, arrived, taken, takenNow, lost>>
  BY DEF EndHandler, HandlerThrows
<1>1. CASE UNCHANGED <<rQi, rQlen>>
  <2>1. /\ ReceiveTypes' /\ QueueInBuffer' /\ CanGoBack' /\ RoomIsBelieved'
        /\ HandlerKeepsItsBytes'
    BY <1>0, <1>1
       DEF ReceiveInv, ReceiveTypes, ReadsTheStream, QueueInBuffer, CanGoBack, RoomIsBelieved,
           HandlerKeepsItsBytes
  <2>2. ~lost => BufferSizeIsReal' /\ NoByteMissing' /\ UnreadInOrder'
    BY <1>0, <1>1
       DEF ReceiveInv, ReadsTheStream, BufferSizeIsReal, NoByteMissing, UnreadInOrder, Unread
  <2> QED
    BY <1>0, <2>1, <2>2 DEF ReceiveInv, ReadsTheStream
<1>2. CASE rQi = rQlen /\ rQi' = 0 /\ rQlen' = 0
  <2>1. ReceiveTypes' /\ QueueInBuffer' /\ CanGoBack' /\ RoomIsBelieved' /\ HandlerKeepsItsBytes'
    BY <1>2, <1>0
       DEF ReceiveInv, ReceiveTypes, ReadsTheStream, QueueInBuffer, CanGoBack, RoomIsBelieved,
           HandlerKeepsItsBytes
  <2>2. ~lost => BufferSizeIsReal' /\ NoByteMissing'
    BY <1>2, <1>0
       DEF ReceiveInv, ReceiveTypes, ReadsTheStream, BufferSizeIsReal, NoByteMissing, Unread
  <2>3. UnreadInOrder'
    BY <1>2, <1>0 DEF UnreadInOrder
  <2> QED
    BY <1>0, <2>1, <2>2, <2>3 DEF ReceiveInv, ReadsTheStream
<1> QED
  BY <1>1, <1>2 DEF EndHandler, HandlerThrows, StartOver

LEMMA TimerKeepsInv ==
  ASSUME ReceiveInv, RunFromTimer
  PROVE  ReceiveInv'
BY DEF ReceiveInv, ReceiveTypes, RunFromTimer, ReadsTheStream, QueueInBuffer, CanGoBack,
       BufferSizeIsReal, NoByteMissing, UnreadInOrder, Unread, RoomIsBelieved,
       HandlerKeepsItsBytes, InOrderFrom

\* What the handler has read is still there to be read again.
LEMMA GoBackKeepsInv ==
  ASSUME ReceiveInv, NEW n \in Nat, GoBack(n)
  PROVE  ReceiveInv'
<1>1. /\ ReceiveTypes /\ QueueInBuffer /\ handling # "no"
      /\ takenNow <= taken /\ n <= takenNow /\ n <= rQi
      /\ rQi' = rQi - n /\ taken' = taken - n /\ takenNow' = takenNow - n
      /\ handling' = "no"
      /\ UNCHANGED <<rQ, allocated, rQbufferSize, rQlen, arrived, lost>>
  BY DEF ReceiveInv, ReceiveTypes, ReadsTheStream, HandlerKeepsItsBytes, GoBack
<1>2. ReceiveTypes' /\ QueueInBuffer' /\ CanGoBack' /\ RoomIsBelieved' /\ HandlerKeepsItsBytes'
  BY <1>1 DEF ReceiveInv, ReceiveTypes, QueueInBuffer, CanGoBack, RoomIsBelieved,
              HandlerKeepsItsBytes
<1>3. ~lost => BufferSizeIsReal' /\ NoByteMissing'
  BY <1>1 DEF ReceiveInv, ReceiveTypes, ReadsTheStream, BufferSizeIsReal, NoByteMissing,
              Unread
<1>4. ASSUME ~lost, NEW k \in (rQi - n) .. (rQlen - 1)
      PROVE  rQ[k] = taken - n + (k - (rQi - n))
  <2>1. k \in (rQi - takenNow) .. (rQlen - 1) /\ taken - n + (k - (rQi - n)) = taken + (k - rQi)
    BY <1>1 DEF ReceiveTypes
  <2> QED
    BY <1>1, <1>4, <2>1 DEF ReceiveInv, HandlerKeepsItsBytes, InOrderFrom
<1> QED
  BY <1>1, <1>2, <1>3, <1>4 DEF ReceiveInv, ReadsTheStream, UnreadInOrder

-----------------------------------------------------------------------------
(* The send queue. *)

LEMMA WriteKeepsType ==
  ASSUME SendTypes, NEW n \in Int
  PROVE  Write(n) \in [0 .. (SendSize - 1) -> Nat]
BY WebsockAssumption DEF SendTypes, Write

LEMMA Written ==
  ASSUME SendTypes, NEW n \in Int, NEW k \in 0 .. (SendSize - 1), sQlen <= k, k < sQlen + n
  PROVE  Write(n)[k] = written + (k - sQlen)
BY WebsockAssumption DEF SendTypes, Write

\* What the invariant says of the queue of a socket that is past connecting
\* and has no header waiting.
LEMMA NothingWaits ==
  ASSUME SendTypes', SentOrWaiting', readyState' # "connecting",
         readyState' = "open" => sQlen' = 0
  PROVE  SendInv'
<1>1. OnlyAHeaderWaits'
  <2> SUFFICES ASSUME readyState' = "open"
               PROVE  /\ sQlen' <= CutTextHeader
                      /\ \A k \in 0 .. (sQlen' - 1) : sQ'[k] = sent' + k
    BY DEF OnlyAHeaderWaits
  <2>1. sQlen' = 0 /\ CutTextHeader \in Nat
    BY WebsockAssumption
  <2> QED
    BY <2>1
<1> QED
  BY <1>1 DEF SendInv, FreshSocket

\* On an open socket what is waiting and a message fit the buffer together.
LEMMA WriteKeepsInv ==
  ASSUME SendInv, NEW n \in WriteSizes, WriteMessage(n)
  PROVE  SendInv'
<1>1. /\ SendTypes /\ n \in Nat /\ CutTextHeader + n <= SendSize
      /\ written' = written + n /\ Flushed(sQlen + n) /\ readyState # "connecting"
      /\ UNCHANGED <<readyState, listening, remaining>>
      /\ CutTextHeader \in Nat /\ SendSize \in Nat
  BY WebsockAssumption DEF SendInv, WriteMessage
<1>2. sQ' \in [0 .. (SendSize - 1) -> Nat]
  <2>1. sQ' = Write(n) /\ n \in Int
    BY <1>1 DEF WriteMessage
  <2> QED
    BY <1>1, <2>1, WriteKeepsType
<1>3. /\ sQlen' \in Nat /\ sent' \in Nat
      /\ sent' + sQlen' = sent + sQlen + n
      /\ readyState = "open" => sQlen' = 0
  BY <1>1 DEF Flushed, MaySend, SendInv, SendTypes, OnlyAHeaderWaits
<1>4. SendTypes' /\ SentOrWaiting'
  <2>1. written = sent + sQlen /\ {written, sent, sQlen} \subseteq Nat
    BY <1>1 DEF SendInv, SendTypes, SentOrWaiting
  <2>2. written' = sent' + sQlen' /\ written' \in Nat
    BY <1>1, <1>3, <2>1
  <2> QED
    BY <1>1, <1>2, <1>3, <2>2 DEF SendTypes, SentOrWaiting
<1> QED
  BY <1>1, <1>3, <1>4, NothingWaits

LEMMA HeaderKeepsInv ==
  ASSUME SendInv, NEW n \in CutTextSizes, CutTextBegins(n)
  PROVE  SendInv'
<1>1. /\ SendTypes /\ n \in Nat
      /\ CutTextHeader \in Nat /\ SendSize \in Nat /\ CutTextHeader < SendSize
      /\ sQ' = Write(CutTextHeader)
      /\ sQlen' = sQlen + CutTextHeader /\ written' = written + CutTextHeader
      /\ remaining' = n
      /\ readyState # "connecting" /\ (readyState = "open" => sQlen = 0)
      /\ UNCHANGED <<readyState, listening, sent>>
  BY WebsockAssumption DEF SendInv, CutTextBegins
<1>2. sQ' \in [0 .. (SendSize - 1) -> Nat]
  <2>1. CutTextHeader \in Int
    BY <1>1
  <2> QED
    BY <1>1, <2>1, WriteKeepsType
<1>3. written = sent + sQlen
  BY DEF SendInv, SentOrWaiting
<1>4. ASSUME readyState = "open", NEW k \in 0 .. (sQlen' - 1)
      PROVE  sQ'[k] = sent + k
  <2>1. /\ k \in 0 .. (SendSize - 1) /\ CutTextHeader \in Int
        /\ sQlen = 0 /\ k < sQlen + CutTextHeader /\ written = sent /\ sent \in Nat
    BY <1>1, <1>3, <1>4 DEF SendTypes
  <2>2. sQ'[k] = written + (k - sQlen)
    BY <1>1, <2>1, Written
  <2> QED
    BY <2>1, <2>2
<1>5. SendTypes' /\ SentOrWaiting' /\ FreshSocket'
  BY <1>1, <1>2, <1>3 DEF SendTypes, SentOrWaiting, FreshSocket
<1>6. OnlyAHeaderWaits'
  BY <1>1, <1>4 DEF OnlyAHeaderWaits, SendTypes
<1> QED
  BY <1>5, <1>6 DEF SendInv

\* A chunk never passes the buffer's end, so an open socket sends it whole.
LEMMA ChunkKeepsInv ==
  ASSUME SendInv, CutTextChunk
  PROVE  SendInv'
<1>1. /\ SendTypes /\ SendSize \in Nat /\ remaining > 0
      /\ sQ' = Write(FlushSize)
      /\ written' = written + FlushSize /\ Flushed(sQlen + FlushSize)
      /\ remaining' = remaining - FlushSize
      /\ written = sent + sQlen /\ readyState # "connecting"
      /\ UNCHANGED <<readyState, listening>>
  BY WebsockAssumption DEF SendInv, CutTextChunk, SentOrWaiting, FreshSocket, SendTypes
<1>2. /\ FlushSize \in Int /\ FlushSize <= remaining
      /\ sQlen + FlushSize <= SendSize /\ sQlen + FlushSize >= 0
  BY <1>1 DEF FlushSize, Smaller, SendTypes
<1>3. sQ' \in [0 .. (SendSize - 1) -> Nat]
  BY <1>1, <1>2, WriteKeepsType
<1>4. /\ sQlen' \in Nat /\ sent' \in Nat
      /\ sent' + sQlen' = sent + sQlen + FlushSize
      /\ readyState = "open" => sQlen' = 0
  BY <1>1, <1>2 DEF Flushed, MaySend, SendTypes
<1>5. written' \in Nat /\ remaining' \in Nat
  BY <1>1, <1>2, <1>4 DEF SendTypes
<1>6. SendTypes' /\ SentOrWaiting'
  BY <1>1, <1>2, <1>3, <1>4, <1>5 DEF SendTypes, SentOrWaiting
<1> QED
  BY <1>1, <1>4, <1>6, NothingWaits

LEMMA SocketKeepsInv ==
  ASSUME SendInv, SocketMoves \/ Close
  PROVE  SendInv'
<1>1. /\ UNCHANGED sending
      /\ readyState' \in {"connecting", "open", "closing", "closed"}
      /\ listening' \in BOOLEAN
      /\ readyState' = "open" => readyState \in {"connecting", "open"}
      /\ readyState' = "connecting" => readyState = "connecting"
  BY DEF SendInv, SendTypes, SocketMoves, Close
<1>2. UNCHANGED <<sQ, sQlen, written, sent, remaining>>
  BY <1>1 DEF sending
<1>3. SendTypes' /\ SentOrWaiting' /\ FreshSocket'
  BY <1>1, <1>2 DEF SendInv, SendTypes, SentOrWaiting, FreshSocket
<1>4. CASE readyState' = "open"
  <2>1. CASE readyState = "open"
    BY <1>2, <1>3, <1>4, <2>1 DEF SendInv, OnlyAHeaderWaits
  <2>2. CASE readyState = "connecting"
    BY <1>2, <1>3, <2>2, <1>4, NothingWaits DEF SendInv, FreshSocket
  <2> QED
    BY <1>1, <1>4, <2>1, <2>2
<1> QED
  BY <1>3, <1>4 DEF SendInv, OnlyAHeaderWaits

-----------------------------------------------------------------------------
(* The theorems. *)

LEMMA RecvKeepsInv ==
  ASSUME ReceiveInv, NEW n \in MessageSizes, RecvMessage(n)
  PROVE  ReceiveInv'
<1>1. n \in Nat /\ handling = "no" /\ UNCHANGED taken
  BY WebsockAssumption DEF RecvMessage, Idle
<1> QED
  BY <1>1, AppendKeepsInv, ExpandKeepsInv, DropKeepsInv DEF RecvMessage

LEMMA StepInv == IInv /\ [Next]_vars => IInv'
<1> SUFFICES ASSUME IInv, [Next]_vars PROVE IInv'
  OBVIOUS
<1> USE DEF IInv
<1>1. CASE \E n \in MessageSizes : RecvMessage(n)
  BY <1>1, RecvKeepsInv, SendUnchanged DEF RecvMessage
<1>2. CASE RunFromTimer
  BY <1>2, TimerKeepsInv, SendUnchanged DEF RunFromTimer
<1>3. CASE \E n \in ReadSizes : Shift(n)
  BY <1>3, ShiftKeepsInv, SendUnchanged, WebsockAssumption DEF Shift
<1>4. CASE EndHandler \/ HandlerThrows
  BY <1>4, EndKeepsInv, SendUnchanged DEF EndHandler, HandlerThrows
<1>5. CASE \E n \in ReadSizes : GoBack(n)
  BY <1>5, GoBackKeepsInv, SendUnchanged, WebsockAssumption DEF GoBack
<1>6. CASE \E n \in WriteSizes : WriteMessage(n)
  BY <1>6, WriteKeepsInv, ReceiveUnchanged DEF WriteMessage
<1>7. CASE \E n \in CutTextSizes : CutTextBegins(n)
  BY <1>7, HeaderKeepsInv, ReceiveUnchanged DEF CutTextBegins
<1>8. CASE CutTextChunk
  BY <1>8, ChunkKeepsInv, ReceiveUnchanged DEF CutTextChunk
<1>9. CASE SocketMoves \/ Close
  BY <1>9, SocketKeepsInv, ReceiveUnchanged DEF SocketMoves, Close
<1>10. CASE UNCHANGED vars
  BY <1>10, ReceiveUnchanged, SendUnchanged DEF vars, sending
<1> QED
  BY <1>1, <1>2, <1>3, <1>4, <1>5, <1>6, <1>7, <1>8, <1>9, <1>10 DEF Next

\* The strengthened invariant holds in every state the channel reaches.
THEOREM Inductive == Spec => []IInv
BY InitInv, StepInv, PTL DEF Spec

\* Every variable has its type: no length or count of the channel ever
\* becomes negative, the queue of a socket that is not open included.
THEOREM TypeCorrect == Spec => []TypeOK
BY Inductive, InvImplies, PTL

\* Whatever the sizes of messages, reads and buffers, what is unread is the
\* next part of the stream, and what a handler has read can be put back
\* (_expandCompactRQ, _DecodeMessage, _recvMessage and rQwait of websock.js).
THEOREM StreamInOrder == Spec => []ReadsTheStream
BY Inductive, InvImplies, PTL

\* An open socket has been sent all that was written, or holds the rest in
\* order: flush and the chunks of clientCutText lose and repeat nothing.
THEOREM QueueInOrder == Spec => []SentInOrder
BY Inductive, InvImplies, PTL

\* The first message that is dropped is one that the largest buffer cannot
\* hold beside what is unread (the exception of _expandCompactRQ).
THEOREM DropsNothingElse == Spec => DropsOnlyWhatCannotFit
<1>1. IInv /\ [Next]_vars => [lost' /\ ~lost => Unread + (arrived' - arrived) > MaxRQGrowSize]_vars
  <2> SUFFICES ASSUME IInv, Next, lost', ~lost
               PROVE  Unread + (arrived' - arrived) > MaxRQGrowSize
    BY DEF vars
  <2>1. PICK n \in MessageSizes : RecvMessage(n)
    BY DEF Next, RunFromTimer, Shift, EndHandler, HandlerThrows, GoBack, WriteMessage,
           CutTextBegins, CutTextChunk, SocketMoves, Close, receiving
  <2>2. DropMessage(n) /\ n \in Nat
    BY <2>1, WebsockAssumption DEF RecvMessage, AppendMessage, ExpandAndAppend
  <2>3. arrived' - arrived = n
    BY <2>2 DEF DropMessage, IInv, ReceiveInv, ReceiveTypes
  <2> QED
    BY <2>2, <2>3, OnlyTheExceptionDrops DEF IInv
<1> QED
  BY <1>1, Inductive, PTL DEF Spec, DropsOnlyWhatCannotFit
=============================================================================
