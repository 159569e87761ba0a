-------------------------- MODULE PacketRecvProofs --------------------------
(***************************************************************************)
(* Proofs about PacketRecv for any header, any packet sizes, any buffer of *)
(* at least three blocks and any stream: the cursor arithmetic of          *)
(* RecvBuffer and the loop of OnRecv.  The invariant says where the next   *)
(* packet begins: at the read cursor, as far as OnRecv has got.  From it   *)
(* follow what was delivered, and that nothing complete is held back.      *)
(***************************************************************************)
EXTENDS PacketRecv, SequenceTheorems, TLAPS

\* The packets lie one behind the other in the stream.
StreamShape ==
    /\ Len(sent) = 0 => sentEnd = 0
    /\ Len(sent) > 0 =>
        /\ sent[1].at = 0
        /\ sentEnd = sent[Len(sent)].at + sent[Len(sent)].size
    /\ \A i \in 1..(Len(sent) - 1) : sent[i + 1].at = sent[i].at + sent[i].size
    /\ \A i, k \in 1..Len(sent) : i < k => sent[i].at + sent[i].size <= sent[k].at
    /\ \A i \in 1..Len(sent) : sent[i].at + sent[i].size <= sentEnd

\* The offset in the stream that OnRecv has come to.
Consumed == received - DataSize + processLen

\* Where packet n + 1 begins.
Boundary(n) == IF n < Len(sent) THEN sent[n + 1].at ELSE sentEnd

\* OnRecv looks at all that is unread; outside of it nothing is processed.
ParseShape ==
    /\ DataSize <= received
    /\ IF pc = "parse" THEN len = DataSize ELSE len = 0 /\ processLen = 0

\* What was not delivered begins with a whole packet.
AtBoundary ==
    /\ Len(delivered) <= Len(sent)
    /\ Consumed = Boundary(Len(delivered))

RecvInv ==
    /\ TypeOK
    /\ StreamShape
    /\ ParseShape
    /\ WindowExact
    /\ AtBoundary
    /\ InOrder
    /\ RoomToReceive
    /\ NoSpuriousDisconnect

-----------------------------------------------------------------------------
\* The allocation holds three blocks at least.
LEMMA CapacityBounds == Capacity \in Nat /\ Capacity >= 3 * BufferSize
<1>1. ASSUME NEW b \in Nat, NEW c \in Nat, c >= 3 PROVE b * c \in Nat /\ b * c >= 3 * b
  BY <1>1
<1> QED
  BY <1>1, BufferAssumption DEF Capacity

\* The cursors and counters, as numbers.
Cursors ==
    /\ readPos \in Nat /\ writePos \in Nat /\ received \in Nat /\ sentEnd \in Nat
    /\ len \in Nat /\ processLen \in Nat
    /\ readPos <= writePos /\ writePos <= Capacity
    /\ received <= sentEnd
    /\ len <= writePos - readPos /\ processLen <= len
    /\ DOMAIN buffer = 0..(Capacity - 1)
    /\ Len(sent) \in Nat /\ Len(delivered) \in Nat

\* The type invariant makes them numbers.
LEMMA CursorTypes ==
    ASSUME TypeOK
    PROVE  Cursors
<1>0. /\ writePos \in 0..Capacity /\ readPos \in 0..writePos
      /\ received \in 0..sentEnd /\ sentEnd \in Nat
  BY DEF TypeOK
<1>1. readPos \in Nat /\ writePos \in Nat /\ received \in Nat /\ sentEnd \in Nat
  BY <1>0, CapacityBounds
<1>2. readPos <= writePos /\ writePos <= Capacity /\ received <= sentEnd
  BY <1>0, CapacityBounds
<1>3. len \in 0..(writePos - readPos)
  BY DEF TypeOK, DataSize
<1>4. processLen \in 0..len
  BY DEF TypeOK
<1>5. len \in Nat /\ processLen \in Nat /\ len <= writePos - readPos /\ processLen <= len
  BY <1>1, <1>2, <1>3, <1>4
<1>6. DOMAIN buffer = 0..(Capacity - 1)
  BY DEF TypeOK
<1>7. Len(sent) \in Nat /\ Len(delivered) \in Nat
  BY LenProperties DEF TypeOK
<1> QED
  BY <1>1, <1>2, <1>5, <1>6, <1>7 DEF Cursors

\* A packet of the stream.
LEMMA SentTypes ==
    ASSUME TypeOK, NEW i \in 1..Len(sent)
    PROVE  /\ sent[i].at \in Nat
           /\ sent[i].size \in Sizes
           /\ sent[i].size \in Nat /\ HeaderSize \in Nat \ {0}
           /\ sent[i].size >= HeaderSize
           /\ sent[i].size <= MaxPacket
<1>1. sent[i] \in [at : Nat, size : Sizes]
  BY ElementOfSeq DEF TypeOK
<1>2. sent[i].at \in Nat /\ sent[i].size \in Sizes
  BY <1>1
<1>3. HeaderSize \in Nat \ {0} /\ MaxPacket \in Nat
  BY SizesAssumption
<1>4. sent[i].size \in HeaderSize..MaxPacket
  BY <1>2, SizesAssumption
<1> QED
  BY <1>2, <1>3, <1>4

\* The unread bytes are those of the stream, in their order.
LEMMA WindowIntact ==
    ASSUME TypeOK, WindowExact, NEW pos \in Nat, NEW n \in Nat,
           readPos <= pos, pos + n <= writePos
    PROVE  /\ Intact(pos, n)
           /\ n > 0 => buffer[pos] = received - (writePos - pos)
<1>0. Cursors
  BY CursorTypes
<1> USE <1>0 DEF Cursors
<1>1. \A k \in 0..(n - 1) : buffer[pos + k] = received - (writePos - (pos + k))
  BY DEF WindowExact
<1>2. n > 0 => buffer[pos] = received - (writePos - pos)
  BY DEF WindowExact
<1> QED
  BY <1>1, <1>2 DEF Intact

\* Where a whole header is unread, it is that of the next packet.
LEMMA HeaderExact ==
    ASSUME RecvInv, pc = "parse", len - processLen >= HeaderSize
    PROVE  /\ Len(delivered) + 1 \in 1..Len(sent)
           /\ buffer[ParsePos] = sent[Len(delivered) + 1].at
           /\ Header = {sent[Len(delivered) + 1].size}
<1>0. Cursors
  BY CursorTypes DEF RecvInv
<1> USE <1>0 DEF Cursors
<1> DEFINE n == Len(delivered)
<1>1. /\ ParsePos \in Nat /\ readPos <= ParsePos /\ ParsePos + HeaderSize <= writePos
      /\ HeaderSize \in Nat /\ HeaderSize > 0
  BY SizesAssumption DEF RecvInv, ParseShape, ParsePos, DataSize
<1>2. Intact(ParsePos, HeaderSize) /\ buffer[ParsePos] = received - (writePos - ParsePos)
  BY <1>1, WindowIntact DEF RecvInv
<1>3. buffer[ParsePos] = Consumed
  BY <1>2 DEF Consumed, DataSize, ParsePos, RecvInv
<1>4. Consumed < sentEnd
  BY <1>1 DEF RecvInv, ParseShape, Consumed, DataSize
<1>5. n \in Nat /\ Len(sent) \in Nat
  BY LenProperties DEF RecvInv, TypeOK
<1>6. n + 1 \in 1..Len(sent) /\ Consumed = sent[n + 1].at
  BY <1>4, <1>5 DEF RecvInv, AtBoundary, Boundary
<1>7. ASSUME NEW i \in 1..Len(sent), sent[i].at = sent[n + 1].at PROVE i = n + 1
  <2>1. /\ sent[i].at \in Nat /\ sent[i].size \in Nat /\ sent[i].size > 0
        /\ sent[n + 1].size \in Nat /\ sent[n + 1].size > 0
    BY <1>6, SentTypes DEF RecvInv
  <2>2. /\ i < n + 1 => sent[i].at + sent[i].size <= sent[n + 1].at
        /\ n + 1 < i => sent[n + 1].at + sent[n + 1].size <= sent[i].at
    BY <1>5, <1>6 DEF RecvInv, StreamShape
  <2> QED
    BY <1>5, <1>7, <2>1, <2>2
<1>8. DOMAIN sent = 1..Len(sent)
  BY LenProperties DEF RecvInv, TypeOK
<1>9. {i \in DOMAIN sent : sent[i].at = buffer[ParsePos] /\ Intact(ParsePos, HeaderSize)} = {n + 1}
  BY <1>2, <1>3, <1>6, <1>7, <1>8
<1>10. Header = {sent[i].size : i \in {n + 1}}
  BY <1>9 DEF Header
<1> QED
  BY <1>3, <1>6, <1>10

\* What OnRecv leaves is less than a packet, hence less than a block.
LEMMA RestIsShort ==
    ASSUME RecvInv, EndParse
    PROVE  len - processLen < BufferSize
<1>0. Cursors
  BY CursorTypes DEF RecvInv
<1> USE <1>0 DEF Cursors
<1>1. CASE len - processLen < HeaderSize
  <2>1. CASE Len(sent) > 0
    <3>1. 1 \in 1..Len(sent)
      BY <2>1
    <3>2. HeaderSize <= MaxPacket /\ HeaderSize \in Nat
      BY <3>1, SentTypes, SizesAssumption DEF RecvInv
    <3> QED
      BY <1>1, <3>2, SizesAssumption, BufferAssumption DEF RecvInv
  <2>2. CASE Len(sent) = 0
    BY <2>2, BufferAssumption DEF RecvInv, StreamShape, ParseShape, DataSize
  <2> QED
    BY <2>1, <2>2
<1>2. CASE len - processLen >= HeaderSize
  <2>1. PICK size \in Header : len - processLen < size
    <3>1. HeaderSize \in Nat /\ len - processLen \in Int
      BY SizesAssumption
    <3>2. len - processLen < HeaderSize \/ \E size \in Header : len - processLen < size
      BY DEF EndParse
    <3> QED
      BY <1>2, <3>1, <3>2
  <2>2. size \in Nat /\ size <= MaxPacket
    BY <1>2, <2>1, HeaderExact, SentTypes DEF EndParse, RecvInv
  <2> QED
    BY <2>1, <2>2, SizesAssumption, BufferAssumption DEF RecvInv
<1> QED
  BY <1>1, <1>2 DEF EndParse

\* When the loop breaks there is no overflow, and Clean is called with the read cursor
\* where OnRead puts it.
LEMMA EndParseCalls ==
    ASSUME RecvInv, EndParse
    PROVE  /\ pc = "parse" /\ len = writePos - readPos
           /\ ParsePos \in Nat /\ ParsePos <= writePos
           /\ writePos - ParsePos \in Nat /\ writePos - ParsePos < BufferSize
           /\ Clean(ParsePos) /\ RegisterRecv
           /\ len' = 0 /\ processLen' = 0
           /\ sent' = sent /\ sentEnd' = sentEnd /\ received' = received
           /\ delivered' = delivered
<1>0. Cursors
  BY CursorTypes DEF RecvInv
<1> USE <1>0 DEF Cursors
<1>1. pc = "parse"
  BY DEF EndParse
<1>2. len = writePos - readPos
  BY <1>1 DEF RecvInv, ParseShape, DataSize
<1>3. /\ ParsePos \in Nat /\ ParsePos <= writePos
      /\ writePos - ParsePos \in Nat /\ writePos - ParsePos < BufferSize
  BY <1>2, RestIsShort, BufferAssumption DEF ParsePos
<1>4. ~(processLen > len \/ processLen > DataSize)
  BY <1>2 DEF DataSize
<1>5. /\ Clean(ParsePos) /\ RegisterRecv
      /\ len' = 0 /\ processLen' = 0
      /\ sent' = sent /\ sentEnd' = sentEnd /\ received' = received
      /\ delivered' = delivered
  BY <1>4 DEF EndParse, streamVars
<1> QED
  BY <1>1, <1>2, <1>3, <1>5

-----------------------------------------------------------------------------
\* Nothing was sent and nothing received.
LEMMA InitRecvInv == Init => RecvInv
<1> SUFFICES ASSUME Init PROVE RecvInv
  OBVIOUS
<1>1. TypeOK
  BY CapacityBounds DEF Init, TypeOK, DataSize
<1>2. RoomToReceive
  BY CapacityBounds, BufferAssumption DEF Init, RoomToReceive, FreeSize
<1>3. StreamShape
  BY DEF Init, StreamShape
<1>4. InOrder /\ AtBoundary
  BY DEF Init, InOrder, AtBoundary, Consumed, Boundary, DataSize
<1>5. ParseShape /\ WindowExact /\ NoSpuriousDisconnect
  BY DEF Init, ParseShape, DataSize, WindowExact, NoSpuriousDisconnect
<1> QED
  BY <1>1, <1>2, <1>3, <1>4, <1>5 DEF RecvInv

\* The peer appends a packet to its stream.
LEMMA PeerSendStep ==
    ASSUME RecvInv, NEW n \in Sizes, PeerSend(n)
    PROVE  RecvInv'
<1>0. Cursors
  BY CursorTypes DEF RecvInv
<1> USE <1>0 DEF Cursors
<1> DEFINE packet == [at |-> sentEnd, size |-> n]
<1>1. n \in Nat /\ sentEnd \in Nat /\ packet \in [at : Nat, size : Sizes]
  BY SizesAssumption DEF RecvInv
<1>2. /\ Len(sent) \in Nat
      /\ sent' \in Seq([at : Nat, size : Sizes])
      /\ Len(sent') = Len(sent) + 1
      /\ \A i \in 1..Len(sent) : sent'[i] = sent[i]
      /\ sent'[Len(sent) + 1] = packet
  <2>1. sent \in Seq([at : Nat, size : Sizes]) /\ sent' = Append(sent, packet)
    BY DEF PeerSend, RecvInv, TypeOK
  <2> HIDE DEF packet
  <2> QED
    BY <1>1, <2>1, AppendProperties
<1>3. UNCHANGED <<received, buffer, readPos, writePos, pc, cause, len, processLen, delivered>>
  BY DEF PeerSend, cursorVars, parseVars
<1>4. sentEnd' = sentEnd + n
  BY DEF PeerSend
<1>5. TypeOK'
  <2>1. sentEnd' \in Nat /\ received \in 0..sentEnd'
    BY <1>1, <1>4
  <2> QED
    BY <1>2, <1>3, <2>1 DEF RecvInv, TypeOK, DataSize
<1>6. StreamShape'
  <2>1. \A i \in 1..Len(sent) : sent[i].at \in Nat /\ sent[i].size \in Nat
    BY SentTypes DEF RecvInv
  <2> HIDE DEF packet
  <2>2. packet.at = sentEnd /\ packet.size = n
    BY DEF packet
  <2>3. /\ sent'[1].at = 0
        /\ sentEnd' = sent'[Len(sent')].at + sent'[Len(sent')].size
    BY <1>1, <1>2, <1>4, <2>2 DEF RecvInv, StreamShape
  <2>4. ASSUME NEW i \in 1..(Len(sent') - 1)
        PROVE  sent'[i + 1].at = sent'[i].at + sent'[i].size
    <3>1. CASE i = Len(sent)
      BY <1>1, <1>2, <2>2, <3>1 DEF RecvInv, StreamShape
    <3>2. CASE i \in 1..(Len(sent) - 1)
      <4>1. i \in 1..Len(sent) /\ i + 1 \in 1..Len(sent)
        BY <3>2
      <4>2. sent[i + 1].at = sent[i].at + sent[i].size
        BY <3>2 DEF RecvInv, StreamShape
      <4> QED
        BY <1>2, <4>1, <4>2
    <3> QED
      BY <1>2, <3>1, <3>2
  <2>5. ASSUME NEW i \in 1..Len(sent'), NEW k \in 1..Len(sent'), i < k
        PROVE  sent'[i].at + sent'[i].size <= sent'[k].at
    <3>1. i \in 1..Len(sent)
      BY <1>2, <2>5
    <3>2. CASE k = Len(sent) + 1
      BY <1>2, <2>2, <3>1, <3>2 DEF RecvInv, StreamShape
    <3>3. CASE k \in 1..Len(sent)
      BY <1>2, <2>5, <3>1, <3>3 DEF RecvInv, StreamShape
    <3> QED
      BY <1>2, <3>2, <3>3
  <2>6. ASSUME NEW i \in 1..Len(sent')
        PROVE  sent'[i].at + sent'[i].size <= sentEnd'
    <3>1. CASE i = Len(sent) + 1
      BY <1>1, <1>2, <1>4, <2>2, <3>1
    <3>2. CASE i \in 1..Len(sent)
      <4>1. sent[i].at \in Nat /\ sent[i].size \in Nat
        BY <2>1, <3>2
      <4>2. sent[i].at + sent[i].size <= sentEnd
        BY <3>2 DEF RecvInv, StreamShape
      <4>3. sent'[i] = sent[i]
        BY <1>2, <3>2
      <4> QED
        BY <1>1, <1>4, <4>1, <4>2, <4>3
    <3> QED
      BY <1>2, <3>1, <3>2
  <2>7. Len(sent') # 0
    BY <1>2
  <2> QED
    BY <2>3, <2>4, <2>5, <2>6, <2>7, Zenon DEF StreamShape
<1>7. Len(delivered) \in Nat
  BY LenProperties DEF RecvInv, TypeOK
<1>8. AtBoundary'
  <2>1. Len(delivered) <= Len(sent) /\ Consumed = Boundary(Len(delivered))
    BY DEF RecvInv, AtBoundary
  <2>2. Consumed' = Consumed
    BY <1>3 DEF Consumed, DataSize
  <2>3. Boundary(Len(delivered))' = Boundary(Len(delivered))
    <3>1. CASE Len(delivered) < Len(sent)
      <4>1. Len(delivered) + 1 \in 1..Len(sent)
        BY <1>7, <3>1
      <4> QED
        BY <1>2, <1>3, <3>1, <4>1 DEF Boundary
    <3>2. CASE Len(delivered) = Len(sent)
      BY <1>2, <1>3, <3>2 DEF Boundary
    <3> QED
      BY <2>1, <3>1, <3>2
  <2> QED
    BY <1>2, <1>3, <2>1, <2>2, <2>3 DEF AtBoundary
<1>9. InOrder'
  <2>1. DOMAIN delivered = 1..Len(delivered) /\ Len(delivered) <= Len(sent)
    BY LenProperties DEF RecvInv, TypeOK, AtBoundary
  <2> QED
    BY <1>2, <1>3, <1>7, <2>1 DEF RecvInv, InOrder
<1>10. (ParseShape /\ WindowExact /\ RoomToReceive /\ NoSpuriousDisconnect)'
  BY <1>3 DEF RecvInv, ParseShape, DataSize, WindowExact, RoomToReceive, FreeSize,
              NoSpuriousDisconnect
<1> QED
  BY <1>5, <1>6, <1>8, <1>9, <1>10 DEF RecvInv

\* Bytes arrive behind the write cursor, where there is room for them.
LEMMA ProcessRecvStep ==
    ASSUME RecvInv, NEW n \in 1..FreeSize, ProcessRecv(n)
    PROVE  RecvInv'
<1>0. Cursors
  BY CursorTypes DEF RecvInv
<1> USE <1>0 DEF Cursors
<1>1. /\ pc = "posted" /\ pc' = "parse" /\ n \in Nat
      /\ received' = received + n /\ received' <= sentEnd
      /\ writePos' = writePos + n /\ writePos' <= Capacity
      /\ len' = writePos + n - readPos /\ processLen' = 0
      /\ UNCHANGED <<sent, sentEnd, readPos, cause, delivered>>
  BY CapacityBounds DEF ProcessRecv, RecvInv, FreeSize, streamVars
<1>2. buffer' = [i \in 0..(Capacity - 1) |->
                    IF i \in writePos..(writePos + n - 1)
                    THEN received + (i - writePos) ELSE buffer[i]]
  BY DEF ProcessRecv, RecvInv
<1>3. buffer' \in [0..(Capacity - 1) -> Nat \cup {-1}]
  <2>1. ASSUME NEW i \in 0..(Capacity - 1)
        PROVE  (IF i \in writePos..(writePos + n - 1)
                THEN received + (i - writePos) ELSE buffer[i]) \in Nat \cup {-1}
    <3>1. buffer[i] \in Nat \cup {-1}
      BY DEF RecvInv, TypeOK
    <3>2. i \in writePos..(writePos + n - 1) => received + (i - writePos) \in Nat
      BY <1>1, CapacityBounds
    <3> QED
      BY <3>1, <3>2
  <2> QED
    BY <1>2, <2>1
<1>4. TypeOK'
  <2>1. /\ writePos' \in 0..Capacity /\ readPos' \in 0..writePos'
        /\ received' \in 0..sentEnd' /\ len' \in 0..DataSize' /\ processLen' \in 0..len'
    BY <1>1, CapacityBounds DEF DataSize
  <2> QED
    BY <1>1, <1>3, <2>1 DEF RecvInv, TypeOK
<1>5. WindowExact'
  <2> SUFFICES ASSUME NEW i \in readPos..(writePos + n - 1)
               PROVE  buffer'[i] = received + n - (writePos + n - i)
    BY <1>1 DEF WindowExact
  <2>1. i \in 0..(Capacity - 1)
    BY <1>1, CapacityBounds DEF RecvInv
  <2>2. CASE i < writePos
    BY <1>1, <1>2, <2>1, <2>2 DEF RecvInv, WindowExact
  <2>3. CASE i >= writePos
    BY <1>1, <1>2, <2>1, <2>3 DEF RecvInv
  <2> QED
    BY <1>1, <2>2, <2>3 DEF RecvInv
<1>6. ParseShape'
  BY <1>1 DEF RecvInv, ParseShape, DataSize
<1>7. AtBoundary'
  BY <1>1 DEF RecvInv, AtBoundary, Boundary, Consumed, DataSize, ParseShape
<1>8. (StreamShape /\ InOrder /\ RoomToReceive /\ NoSpuriousDisconnect)'
  BY <1>1 DEF RecvInv, StreamShape, InOrder, RoomToReceive, NoSpuriousDisconnect
<1> QED
  BY <1>4, <1>5, <1>6, <1>7, <1>8 DEF RecvInv

\* A disconnection by the peer: a block of room is not no room.
LEMMA Recv0Step ==
    ASSUME RecvInv, Recv0
    PROVE  RecvInv'
<1>0. Cursors
  BY CursorTypes DEF RecvInv
<1> USE <1>0 DEF Cursors
<1>1. FreeSize # 0 /\ FreeSize \in Int
  <2>1. Capacity - writePos >= BufferSize
    BY DEF RecvInv, Recv0, RoomToReceive, FreeSize
  <2> QED
    BY <2>1, CapacityBounds, BufferAssumption DEF FreeSize
<1>2. /\ pc = "posted" /\ pc' = "closed" /\ cause' \in Outside
      /\ UNCHANGED <<sent, sentEnd, received, buffer, readPos, writePos, len, processLen, delivered>>
  BY <1>1 DEF Recv0, Outside, streamVars, cursorVars, parseVars
<1> QED
  BY <1>2 DEF RecvInv, TypeOK, DataSize, StreamShape, ParseShape, WindowExact, AtBoundary,
              Consumed, Boundary, InOrder, RoomToReceive, NoSpuriousDisconnect

\* OnRecv takes exactly the next packet of the stream.
LEMMA ParsePacketStep ==
    ASSUME RecvInv, ParsePacket
    PROVE  RecvInv'
<1>0. Cursors
  BY CursorTypes DEF RecvInv
<1> USE <1>0 DEF Cursors
<1> DEFINE n == Len(delivered)
           size == sent[n + 1].size
           entry == [at |-> buffer[ParsePos], size |-> size, intact |-> Intact(ParsePos, size)]
<1>1. pc = "parse" /\ len - processLen >= HeaderSize
  BY DEF ParsePacket
<1>2. n + 1 \in 1..Len(sent) /\ buffer[ParsePos] = sent[n + 1].at /\ Header = {size}
  BY <1>1, HeaderExact
<1>3. sent[n + 1].at \in Nat /\ size \in Nat /\ size <= MaxPacket /\ MaxPacket \in Nat
  BY <1>2, SentTypes, SizesAssumption DEF RecvInv
<1>4. /\ len - processLen >= size
      /\ delivered' = Append(delivered, entry)
      /\ processLen' = processLen + size
      /\ UNCHANGED <<sent, sentEnd, received, buffer, readPos, writePos, pc, cause, len>>
  BY <1>2 DEF ParsePacket, streamVars, cursorVars
<1>5. entry.at = sent[n + 1].at /\ entry.size = size /\ entry.intact
  <2>1. /\ ParsePos \in Nat /\ readPos <= ParsePos /\ ParsePos + size <= writePos
    BY <1>3, <1>4 DEF ParsePos
  <2>2. Intact(ParsePos, size)
    BY <1>3, <2>1, WindowIntact DEF RecvInv
  <2> QED
    BY <1>2, <2>2
<1>6. entry \in [at : Nat \cup {-1}, size : 0..MaxPacket, intact : BOOLEAN]
  <2>1. Intact(ParsePos, size) \in BOOLEAN
    BY DEF Intact
  <2>2. buffer[ParsePos] \in Nat \cup {-1} /\ size \in 0..MaxPacket
    BY <1>2, <1>3
  <2> QED
    BY <2>1, <2>2
<1> HIDE DEF entry, size
<1>7. /\ delivered' \in Seq([at : Nat \cup {-1}, size : 0..MaxPacket, intact : BOOLEAN])
      /\ Len(delivered') = n + 1
      /\ \A i \in 1..n : delivered'[i] = delivered[i]
      /\ delivered'[n + 1] = entry
  <2>1. delivered \in Seq([at : Nat \cup {-1}, size : 0..MaxPacket, intact : BOOLEAN])
    BY DEF RecvInv, TypeOK
  <2> QED
    BY <1>4, <1>6, <2>1, AppendProperties
<1>8. TypeOK'
  <2>1. processLen' = processLen + size /\ len' = len /\ len - processLen >= size
    BY <1>4
  <2>2. processLen' \in 0..len'
    BY <1>3, <2>1
  <2> QED
    BY <1>4, <1>7, <2>2 DEF RecvInv, TypeOK, DataSize
<1>9. AtBoundary'
  <2>1. Consumed = sent[n + 1].at
    BY <1>2 DEF RecvInv, AtBoundary, Boundary
  <2>2. Consumed' = sent[n + 1].at + size
    <3>1. /\ processLen' = processLen + size /\ received' = received
          /\ writePos' = writePos /\ readPos' = readPos
      BY <1>4
    <3> QED
      BY <1>3, <2>1, <3>1 DEF Consumed, DataSize
  <2>3. CASE n + 1 < Len(sent)
    <3>1. n + 1 \in 1..(Len(sent) - 1)
      BY <2>3
    <3>2. sent[n + 2].at = sent[n + 1].at + size
      <4>1. sent[(n + 1) + 1].at = sent[n + 1].at + sent[n + 1].size
        BY <3>1 DEF RecvInv, StreamShape, size
      <4>2. (n + 1) + 1 = n + 2
        OBVIOUS
      <4> QED
        BY <4>1, <4>2 DEF size
    <3>3. Boundary(Len(delivered))' = sent[n + 2].at
      BY <1>4, <1>7, <2>3 DEF Boundary
    <3> QED
      BY <1>4, <1>7, <2>2, <2>3, <3>2, <3>3 DEF AtBoundary
  <2>4. CASE n + 1 = Len(sent)
    <3>1. sentEnd = sent[n + 1].at + size
      BY <2>4 DEF RecvInv, StreamShape, size
    <3>2. Boundary(Len(delivered))' = sentEnd
      BY <1>4, <1>7, <2>4 DEF Boundary
    <3> QED
      BY <1>4, <1>7, <2>2, <2>4, <3>1, <3>2 DEF AtBoundary
  <2> QED
    BY <1>2, <2>3, <2>4
<1>10. InOrder'
  <2>1. DOMAIN delivered' = 1..(n + 1)
    BY <1>7, LenProperties
  <2>2. ASSUME NEW i \in 1..(n + 1)
        PROVE  /\ delivered'[i].at = sent[i].at /\ delivered'[i].size = sent[i].size
               /\ delivered'[i].intact
    <3>1. CASE i = n + 1
      BY <1>5, <1>7, <3>1 DEF size
    <3>2. CASE i \in 1..n
      <4>1. i \in DOMAIN delivered
        BY <3>2, LenProperties DEF RecvInv, TypeOK
      <4> QED
        BY <1>7, <3>2, <4>1 DEF RecvInv, InOrder
    <3> QED
      BY <3>1, <3>2
  <2> QED
    BY <1>2, <1>4, <1>7, <2>1, <2>2 DEF InOrder
<1>11. ParseShape'
  BY <1>1, <1>4 DEF RecvInv, ParseShape, DataSize
<1>12. (StreamShape /\ WindowExact /\ RoomToReceive /\ NoSpuriousDisconnect)'
  BY <1>4 DEF RecvInv, StreamShape, WindowExact, RoomToReceive, FreeSize, NoSpuriousDisconnect
<1> QED
  BY <1>8, <1>9, <1>10, <1>11, <1>12 DEF RecvInv

\* OnRead and Clean keep the unread bytes, and make room for a block.
LEMMA EndParseStep ==
    ASSUME RecvInv, EndParse
    PROVE  RecvInv'
<1>0. Cursors
  BY CursorTypes DEF RecvInv
<1> USE <1>0 DEF Cursors
<1> DEFINE pos == ParsePos
           data == writePos - pos
<1>1. /\ pos \in Nat /\ data \in Nat /\ pos <= writePos /\ data < BufferSize
      /\ BufferSize \in Nat \ {0} /\ pos >= readPos
      /\ pc = "parse" /\ len = writePos - readPos
  BY EndParseCalls, BufferAssumption DEF ParsePos
<1>2. /\ Clean(pos) /\ pc' \in {"posted", "closed", "deaf"}
      /\ cause' = cause \/ cause' \in Outside
      /\ len' = 0 /\ processLen' = 0
      /\ sent' = sent /\ sentEnd' = sentEnd /\ received' = received
      /\ delivered' = delivered
  BY EndParseCalls DEF RegisterRecv, Outside
<1>3. \/ /\ data = 0 /\ readPos' = 0 /\ writePos' = 0 /\ buffer' = buffer
      \/ /\ data # 0 /\ Capacity - writePos < BufferSize
         /\ readPos' = 0 /\ writePos' = data
         /\ buffer' = [i \in 0..(Capacity - 1) |->
                        IF i < data THEN buffer[pos + i] ELSE buffer[i]]
      \/ /\ data # 0 /\ Capacity - writePos >= BufferSize
         /\ readPos' = pos /\ writePos' = writePos /\ buffer' = buffer
  BY <1>1, <1>2, CapacityBounds DEF Clean, FreeSize
<1>4. /\ readPos' \in Nat /\ writePos' \in Nat /\ readPos' <= writePos' /\ writePos' <= Capacity
      /\ writePos' - readPos' = data
      /\ Capacity - writePos' >= BufferSize
  <2>1. CASE readPos' = 0 /\ writePos' = data
    BY <1>1, <2>1, CapacityBounds
  <2>2. CASE readPos' = 0 /\ writePos' = 0 /\ data = 0
    BY <1>1, <2>2, CapacityBounds
  <2>3. CASE readPos' = pos /\ writePos' = writePos /\ Capacity - writePos >= BufferSize
    BY <1>1, <2>3, CapacityBounds
  <2> QED
    BY <1>3, <2>1, <2>2, <2>3
<1>5. buffer' \in [0..(Capacity - 1) -> Nat \cup {-1}]
  <2>1. \A i \in 0..(Capacity - 1) : buffer[i] \in Nat \cup {-1}
    BY DEF RecvInv, TypeOK
  <2>2. \A i \in 0..(Capacity - 1) : i < data => pos + i \in 0..(Capacity - 1)
    BY <1>1, CapacityBounds
  <2>3. buffer \in [0..(Capacity - 1) -> Nat \cup {-1}]
    BY DEF RecvInv, TypeOK
  <2> HIDE DEF pos, data
  <2> QED
    BY <1>3, <2>1, <2>2, <2>3
<1>6. TypeOK'
  <2>1. /\ readPos' \in 0..writePos' /\ writePos' \in 0..Capacity
        /\ len' \in 0..DataSize' /\ processLen' \in 0..len'
    <3>1. readPos' \in 0..writePos' /\ writePos' \in 0..Capacity
      BY <1>4, CapacityBounds
    <3>2. DataSize' \in Nat
      BY <1>1, <1>4 DEF DataSize
    <3> QED
      BY <1>2, <3>1, <3>2
  <2> QED
    BY <1>2, <1>5, <2>1 DEF RecvInv, TypeOK
<1>7. WindowExact'
  <2> SUFFICES ASSUME NEW i \in readPos'..(writePos' - 1)
               PROVE  buffer'[i] = received - (writePos' - i)
    BY <1>2 DEF WindowExact
  <2>1. CASE readPos' = 0 /\ writePos' = data /\ data # 0 /\ Capacity - writePos < BufferSize
    <3>1. i \in 0..(Capacity - 1) /\ i < data
      BY <1>1, <2>1, CapacityBounds
    <3>2. buffer'[i] = buffer[pos + i]
      <4>1. buffer' = [k \in 0..(Capacity - 1) |->
                        IF k < data THEN buffer[pos + k] ELSE buffer[k]]
        <5>1. ~(Capacity - writePos >= BufferSize)
          BY <1>1, <2>1, CapacityBounds
        <5> HIDE DEF pos, data
        <5> QED
          BY <1>3, <2>1, <5>1
      <4> QED
        BY <3>1, <4>1
    <3>3. pos + i \in readPos..(writePos - 1)
      BY <1>1, <3>1
    <3>4. buffer[pos + i] = received - (writePos - (pos + i))
      BY <3>3 DEF RecvInv, WindowExact
    <3> QED
      BY <1>1, <2>1, <3>1, <3>2, <3>4
  <2>2. CASE readPos' = pos /\ writePos' = writePos /\ buffer' = buffer
    <3>1. i \in readPos..(writePos - 1)
      BY <1>1, <2>2
    <3> QED
      BY <2>2, <3>1 DEF RecvInv, WindowExact
  <2>3. CASE readPos' = 0 /\ writePos' = 0
    BY <2>3
  <2> QED
    BY <1>1, <1>3, <2>1, <2>2, <2>3
<1>8. ParseShape'
  <2>1. data <= writePos - readPos
    BY <1>1
  <2>2. DataSize' = data
    BY <1>4 DEF DataSize
  <2> HIDE DEF data
  <2> QED
    BY <1>1, <1>2, <2>1, <2>2 DEF RecvInv, ParseShape, DataSize
<1>9. AtBoundary'
  <2>1. Consumed' = Consumed
    <3>1. Consumed = received - data
      BY DEF Consumed, DataSize, ParsePos
    <3>2. Consumed' = received' - (writePos' - readPos') + processLen'
      BY DEF Consumed, DataSize
    <3>3. received' = received /\ processLen' = 0
      BY <1>2
    <3>4. writePos' - readPos' = data
      BY <1>4
    <3> HIDE DEF data
    <3> QED
      BY <1>1, <3>1, <3>2, <3>3, <3>4
  <2> QED
    BY <1>2, <2>1 DEF RecvInv, AtBoundary, Boundary
<1>10. RoomToReceive'
  BY <1>4 DEF RoomToReceive, FreeSize
<1>11. (StreamShape /\ InOrder /\ NoSpuriousDisconnect)'
  BY <1>2 DEF RecvInv, StreamShape, InOrder, NoSpuriousDisconnect
<1> QED
  BY <1>6, <1>7, <1>8, <1>9, <1>10, <1>11 DEF RecvInv

\* Every step keeps the invariant.
LEMMA RecvStep == RecvInv /\ [Next]_recvVars => RecvInv'
<1> SUFFICES ASSUME RecvInv, [Next]_recvVars PROVE RecvInv'
  OBVIOUS
<1>1. CASE UNCHANGED recvVars
  BY <1>1 DEF recvVars, RecvInv, TypeOK, DataSize, StreamShape, ParseShape, WindowExact,
              AtBoundary, Consumed, Boundary, InOrder, RoomToReceive, FreeSize,
              NoSpuriousDisconnect
<1> QED
  BY <1>1, PeerSendStep, ProcessRecvStep, Recv0Step, ParsePacketStep, EndParseStep DEF Next

-----------------------------------------------------------------------------
\* In every reachable state the window is exact and what was delivered is what was sent.
THEOREM RecvInvariance == Spec => []RecvInv
BY InitRecvInv, RecvStep, PTL DEF Spec

\* Types: the cursors stay in the allocation.
THEOREM RecvTypes == Spec => []TypeOK
<1>1. RecvInv => TypeOK
  BY DEF RecvInv
<1> QED
  BY <1>1, RecvInvariance, PTL

\* No cursor movement and no memcpy loses a byte.
THEOREM WindowIsExact == Spec => []WindowExact
<1>1. RecvInv => WindowExact
  BY DEF RecvInv
<1> QED
  BY <1>1, RecvInvariance, PTL

\* Three blocks are enough that every WSARecv has a whole block of room.
THEOREM RoomForABlock == Spec => []RoomToReceive
<1>1. RecvInv => RoomToReceive
  BY DEF RecvInv
<1> QED
  BY <1>1, RecvInvariance, PTL

\* The bookkeeping never disconnects a session by itself.
THEOREM BufferNeverDisconnects == Spec => []NoSpuriousDisconnect
<1>1. RecvInv => NoSpuriousDisconnect
  BY DEF RecvInv
<1> QED
  BY <1>1, RecvInvariance, PTL

\* When the loop of OnRecv breaks, the next packet is not whole yet, and none behind it.
LEMMA LoopEndsInTime ==
    ASSUME RecvInv, EndParse, NEW i \in 1..Len(sent), sent[i].at + sent[i].size <= received
    PROVE  i <= Len(delivered)
<1>0. Cursors
  BY CursorTypes DEF RecvInv
<1> USE <1>0 DEF Cursors
<1> DEFINE n == Len(delivered)
<1> SUFFICES ASSUME n < i PROVE FALSE
  OBVIOUS
<1>1. n + 1 \in 1..Len(sent) /\ n < Len(sent)
  OBVIOUS
<1>2. /\ sent[i].at \in Nat /\ sent[i].size \in Nat
      /\ sent[n + 1].at \in Nat /\ sent[n + 1].size \in Nat
      /\ HeaderSize \in Nat /\ HeaderSize <= sent[n + 1].size
  BY <1>1, SentTypes DEF RecvInv
<1>3. sent[n + 1].at + sent[n + 1].size <= received
  <2> DEFINE end == sent[n + 1].at + sent[n + 1].size
             at == sent[i].at
             size == sent[i].size
  <2>1. n + 1 = i \/ end <= at
    BY <1>1 DEF RecvInv, StreamShape
  <2>2. n + 1 = i => end <= received
    OBVIOUS
  <2>3. end \in Nat /\ at \in Nat /\ size \in Nat /\ received \in Nat /\ at + size <= received
    BY <1>2
  <2>4. end <= at => end <= received
    <3> HIDE DEF end, at, size, Cursors
    <3> QED
      BY <2>3
  <2> QED
    BY <2>1, <2>2, <2>4
<1>4. pc = "parse"
  BY DEF EndParse
<1>5. sent[n + 1].at = received - len + processLen
  BY <1>1, <1>4 DEF RecvInv, AtBoundary, Boundary, Consumed, ParseShape
<1>6. sent[n + 1].size <= len - processLen /\ HeaderSize <= len - processLen
  BY <1>2, <1>3, <1>5
<1>7. Header = {sent[n + 1].size}
  BY <1>2, <1>4, <1>6, HeaderExact
<1>8. PICK size \in Header : len - processLen < size
  <2>1. ~(len - processLen < HeaderSize)
    BY <1>2, <1>6
  <2> QED
    BY <2>1 DEF EndParse
<1> QED
  BY <1>2, <1>6, <1>7, <1>8

\* A receive is posted at the end of the loop only; a packet that is sent meanwhile has not
\* arrived.
LEMMA NothingHeldBackStep ==
    ASSUME RecvInv, NothingHeldBack, [Next]_recvVars
    PROVE  NothingHeldBack'
<1>0. Cursors
  BY CursorTypes DEF RecvInv
<1> USE <1>0 DEF Cursors
<1>1. ASSUME NEW n \in Sizes, PeerSend(n) PROVE NothingHeldBack'
  <2>1. n \in Nat /\ n > 0
    BY SizesAssumption
  <2>2. /\ sent' = Append(sent, [at |-> sentEnd, size |-> n])
        /\ received' = received /\ delivered' = delivered /\ pc' = pc
    BY <1>1 DEF PeerSend
  <2>3. sent \in Seq([at : Nat, size : Sizes])
    BY DEF RecvInv, TypeOK
  <2>4. DOMAIN sent' = 1..(Len(sent) + 1) /\ DOMAIN sent = 1..Len(sent)
    BY <2>2, <2>3
  <2>5. \A i \in 1..Len(sent) : sent'[i] = sent[i]
    BY <2>2, <2>3
  <2>6. sent'[Len(sent) + 1] = [at |-> sentEnd, size |-> n]
    BY <2>2, <2>3
  <2>7. ~(sentEnd + n <= received)
    BY <2>1
  <2> SUFFICES ASSUME pc # "parse", NEW i \in DOMAIN sent',
                      sent'[i].at + sent'[i].size <= received
               PROVE  i <= Len(delivered)
    BY <2>2 DEF NothingHeldBack
  <2>8. i \in 1..Len(sent)
    BY <2>4, <2>6, <2>7
  <2> QED
    BY <2>4, <2>5, <2>8 DEF NothingHeldBack
<1>2. ASSUME NEW n \in 1..FreeSize, ProcessRecv(n) PROVE NothingHeldBack'
  BY <1>2 DEF ProcessRecv, NothingHeldBack
<1>3. CASE Recv0
  BY <1>3 DEF Recv0, NothingHeldBack, streamVars
<1>4. CASE ParsePacket
  BY <1>4 DEF ParsePacket, NothingHeldBack
<1>5. CASE EndParse
  <2>1. sent' = sent /\ received' = received /\ delivered' = delivered
    BY <1>5, EndParseCalls
  <2>2. DOMAIN sent = 1..Len(sent)
    BY LenProperties DEF RecvInv, TypeOK
  <2> QED
    BY <1>5, <2>1, <2>2, LoopEndsInTime DEF NothingHeldBack
<1>6. CASE UNCHANGED recvVars
  BY <1>6 DEF recvVars, NothingHeldBack
<1> QED
  BY <1>1, <1>2, <1>3, <1>4, <1>5, <1>6 DEF Next

\* The packets handed to OnRecvPacket are those of the peer, and all that have arrived when
\* OnRecv is done, however TCP cut the stream.
THEOREM PacketsComeInOrder == Spec => []PacketsInOrder
<1>1. RecvInv => InOrder
  BY DEF RecvInv
<1>2. Init => NothingHeldBack
  BY DEF Init, NothingHeldBack
<1>3. RecvInv /\ NothingHeldBack /\ [Next]_recvVars => NothingHeldBack'
  BY NothingHeldBackStep
<1> QED
  BY <1>1, <1>2, <1>3, RecvInvariance, PTL DEF Spec, PacketsInOrder

\* The memcpy of Clean never overlaps itself.
THEOREM CopyIsDisjoint == Spec => CopyDisjoint
<1>1. ASSUME RecvInv, Next, writePos' < writePos, writePos' # 0
      PROVE  writePos' <= ParsePos
  <2>0. Cursors
    BY CursorTypes, <1>1 DEF RecvInv
  <2> USE <2>0 DEF Cursors
  <2>1. EndParse
    <3>1. ASSUME NEW n \in Sizes, PeerSend(n) PROVE writePos' = writePos
      BY <3>1 DEF PeerSend, cursorVars
    <3>2. ASSUME NEW n \in 1..FreeSize, ProcessRecv(n) PROVE writePos' >= writePos
      BY <3>2, CapacityBounds DEF ProcessRecv, FreeSize
    <3>3. Recv0 \/ ParsePacket => writePos' = writePos
      BY DEF Recv0, ParsePacket, cursorVars
    <3>4. ~(writePos' = writePos) /\ ~(writePos' >= writePos)
      <4>1. writePos' \in Nat
        <5>1. RecvInv'
          BY <1>1, RecvStep
        <5>2. writePos' \in 0..Capacity
          BY <5>1 DEF RecvInv, TypeOK
        <5> QED
          BY <5>2, CapacityBounds
      <4> QED
        BY <1>1, <4>1
    <3> QED
      BY <1>1, <3>1, <3>2, <3>3, <3>4 DEF Next
  <2>2. /\ writePos - ParsePos < BufferSize
        /\ ParsePos \in Nat /\ ParsePos <= writePos
        /\ BufferSize \in Nat
        /\ Clean(ParsePos)
    BY <1>1, <2>1, EndParseCalls, BufferAssumption
  <2>3. writePos' = writePos - ParsePos /\ Capacity - writePos < BufferSize
    BY <1>1, <2>2 DEF Clean, FreeSize
  <2> QED
    BY <2>2, <2>3, CapacityBounds
<1>2. RecvInv /\ [Next]_recvVars =>
        [(writePos' < writePos /\ writePos' # 0) => writePos' <= ParsePos]_recvVars
  BY <1>1
<1> QED
  BY <1>2, RecvInvariance, PTL DEF Spec, CopyDisjoint
=============================================================================
