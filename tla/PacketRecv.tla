----------------------------- MODULE PacketRecv -----------------------------
(***************************************************************************)
(* The receive path of one session: the bytes of the peer's stream, the    *)
(* RecvBuffer that reuses one allocation without being a ring, ProcessRecv *)
(* and the loop of PacketSession::OnRecv that cuts packets out of it.      *)
(*                                                                         *)
(* A byte is identified by its offset in the stream.  Copying and cursor   *)
(* movement are those of the code, so a wrong cursor shows as a wrong byte.*)
(***************************************************************************)
EXTENDS Integers, Sequences

CONSTANTS
    HeaderSize,     \* sizeof(PacketHeader), 4
    MaxPacket,      \* the largest value of header.size, 65535
    BufferSize,     \* Session::BUFFER_SIZE, 0x10000
    BufferCount,    \* RecvBuffer::BUFFER_COUNT, 10
    Sizes,          \* the packet sizes the peer uses
    MaxPackets      \* bound: how many packets the peer sends

ASSUME SizesAssumption ==
    /\ HeaderSize \in Nat \ {0}
    /\ MaxPacket \in Nat
    /\ Sizes \subseteq HeaderSize..MaxPacket
ASSUME BufferAssumption ==
    /\ BufferSize \in Nat \ {0}
    /\ MaxPacket <= BufferSize
    /\ BufferCount \in Nat
    /\ BufferCount >= 3
ASSUME BoundAssumption == MaxPackets \in Nat

Capacity == BufferSize * BufferCount

VARIABLES
    sent,       \* the packets the peer wrote: the offset of the first byte, the size
    sentEnd,    \* the number of bytes the peer wrote
    received,   \* the number of bytes that came out of the socket
    buffer,     \* RecvBuffer::_buffer: the stream offset of the byte in each place, -1 for none
    readPos, writePos,
    pc,         \* "posted" (WSARecv is pending), "parse" (in OnRecv), "closed", "deaf"
    cause,      \* why the session was disconnected
    len,        \* OnRecv's len
    processLen, \* OnRecv's processLen
    delivered   \* history: what OnRecvPacket was called with

streamVars == <<sent, sentEnd>>
cursorVars == <<readPos, writePos>>
parseVars == <<len, processLen>>
recvVars == <<sent, sentEnd, received, buffer, readPos, writePos, pc, cause,
              len, processLen, delivered>>

\* What disconnects a session that is not its receive path: the peer, another thread of
\* the server (a send that failed), the network.
Outside == {"peer", "elsewhere", "reset"}

DataSize == writePos - readPos
FreeSize == Capacity - writePos

Init ==
    /\ sent = <<>>
    /\ sentEnd = 0
    /\ received = 0
    /\ buffer = [i \in 0..(Capacity - 1) |-> -1]
    /\ readPos = 0
    /\ writePos = 0
    /\ pc = "posted"
    /\ cause = "none"
    /\ len = 0
    /\ processLen = 0
    /\ delivered = <<>>

-----------------------------------------------------------------------------
\* The peer writes a packet: MakeSendBuffer puts its whole size in the header.
PeerSend(n) ==
    /\ Len(sent) < MaxPackets
    /\ sent' = Append(sent, [at |-> sentEnd, size |-> n])
    /\ sentEnd' = sentEnd + n
    /\ UNCHANGED <<received, buffer, cursorVars, pc, cause, parseVars, delivered>>

\* Mutant: OnRecv is told everything that was ever written, not what is unread.
ProcessRecv_Len(n) ==
    /\ pc = "posted"
    /\ n <= FreeSize
    /\ received + n <= sentEnd
    /\ buffer' = [i \in DOMAIN buffer |->
                    IF i \in writePos..(writePos + n - 1)
                    THEN received + (i - writePos) ELSE buffer[i]]
    /\ received' = received + n
    /\ writePos' = writePos + n
    /\ len' = writePos + n
    /\ processLen' = 0
    /\ pc' = "parse"
    /\ UNCHANGED <<streamVars, readPos, cause, delivered>>

\* WSARecv completes with n bytes, as many as the posted buffer holds at most:
\* ProcessRecv up to the call of OnRecv.
ProcessRecv(n) ==
    /\ pc = "posted"
    /\ n <= FreeSize
    /\ received + n <= sentEnd
    /\ buffer' = [i \in DOMAIN buffer |->
                    IF i \in writePos..(writePos + n - 1)
                    THEN received + (i - writePos) ELSE buffer[i]]
    /\ received' = received + n
    /\ writePos' = writePos + n
    /\ len' = writePos + n - readPos
    /\ processLen' = 0
    /\ pc' = "parse"
    /\ UNCHANGED <<streamVars, readPos, cause, delivered>>

\* It completes with no bytes: the peer is gone, another thread disconnected the session,
\* or there was no room for a byte.
Recv0 ==
    /\ pc = "posted"
    /\ cause' \in {"peer", "elsewhere"} \cup IF FreeSize = 0 THEN {"no room"} ELSE {}
    /\ pc' = "closed"
    /\ UNCHANGED <<streamVars, received, buffer, cursorVars, parseVars, delivered>>

\* The place OnRecv looks at, and what the header there says: a size the peer wrote
\* when the bytes are a header of the stream, else anything.
ParsePos == readPos + processLen
Intact(pos, n) == \A k \in 0..(n - 1) : buffer[pos + k] = buffer[pos] + k
Header ==
    LET here == {i \in DOMAIN sent :
                    sent[i].at = buffer[ParsePos] /\ Intact(ParsePos, HeaderSize)}
    IN  IF here = {} THEN 0..MaxPacket ELSE {sent[i].size : i \in here}

\* Mutant: a packet is only taken when a byte of the next one is there.
ParsePacket_Late ==
    /\ pc = "parse"
    /\ len - processLen >= HeaderSize
    /\ \E size \in Header :
        /\ len - processLen > size
        /\ delivered' = Append(delivered, [at |-> buffer[ParsePos], size |-> size,
                                           intact |-> Intact(ParsePos, size)])
        /\ processLen' = processLen + size
    /\ UNCHANGED <<streamVars, received, buffer, cursorVars, pc, cause, len>>

\* Mutant: the loop advances by the header only.
ParsePacket_Header ==
    /\ pc = "parse"
    /\ len - processLen >= HeaderSize
    /\ \E size \in Header :
        /\ len - processLen >= size
        /\ delivered' = Append(delivered, [at |-> buffer[ParsePos], size |-> size,
                                           intact |-> Intact(ParsePos, size)])
        /\ processLen' = processLen + HeaderSize
    /\ UNCHANGED <<streamVars, received, buffer, cursorVars, pc, cause, len>>

\* One turn of the loop of PacketSession::OnRecv that assembles a packet.
ParsePacket ==
    /\ pc = "parse"
    /\ len - processLen >= HeaderSize
    /\ \E size \in Header :
        /\ len - processLen >= size
        /\ delivered' = Append(delivered, [at |-> buffer[ParsePos], size |-> size,
                                           intact |-> Intact(ParsePos, size)])
        /\ processLen' = processLen + size
    /\ UNCHANGED <<streamVars, received, buffer, cursorVars, pc, cause, len>>

\* Mutant: the data is copied from where the read cursor was before OnRead.
Clean_OldPos(pos) ==
    LET data == writePos - pos
    IN  IF data = 0
        THEN readPos' = 0 /\ writePos' = 0 /\ UNCHANGED buffer
        ELSE IF FreeSize < BufferSize
        THEN /\ buffer' = [i \in DOMAIN buffer |->
                            IF i < data THEN buffer[readPos + i] ELSE buffer[i]]
             /\ readPos' = 0
             /\ writePos' = data
        ELSE readPos' = pos /\ UNCHANGED <<writePos, buffer>>

\* Mutant: the data is moved only when there is no room at all.
Clean_Full(pos) ==
    LET data == writePos - pos
    IN  IF data = 0
        THEN readPos' = 0 /\ writePos' = 0 /\ UNCHANGED buffer
        ELSE IF FreeSize < 1
        THEN /\ buffer' = [i \in DOMAIN buffer |->
                            IF i < data THEN buffer[pos + i] ELSE buffer[i]]
             /\ readPos' = 0
             /\ writePos' = data
        ELSE readPos' = pos /\ UNCHANGED <<writePos, buffer>>

\* Mutant: the data is never moved.
Clean_Never(pos) ==
    IF writePos = pos
    THEN readPos' = 0 /\ writePos' = 0 /\ UNCHANGED buffer
    ELSE readPos' = pos /\ UNCHANGED <<writePos, buffer>>

\* Mutant: the data is moved every time.
Clean_Always(pos) ==
    LET data == writePos - pos
    IN  /\ buffer' = [i \in DOMAIN buffer |->
                        IF i < data THEN buffer[pos + i] ELSE buffer[i]]
        /\ readPos' = 0
        /\ writePos' = data

\* RecvBuffer::Clean once the read cursor is at pos.
Clean(pos) ==
    LET data == writePos - pos
    IN  IF data = 0
        THEN /\ readPos' = 0
             /\ writePos' = 0
             /\ UNCHANGED buffer
        ELSE IF FreeSize < BufferSize
        THEN /\ buffer' = [i \in DOMAIN buffer |->
                            IF i < data THEN buffer[pos + i] ELSE buffer[i]]
             /\ readPos' = 0
             /\ writePos' = data
        ELSE /\ readPos' = pos
             /\ UNCHANGED <<writePos, buffer>>

\* RegisterRecv: WSARecv is pending again; or it is not, because another thread has
\* disconnected the session, because the connection was reset, which disconnects it, or
\* because of any other error, which is only logged: the session stays, deaf.
RegisterRecv ==
    \/ pc' = "posted" /\ UNCHANGED cause
    \/ pc' = "closed" /\ cause' \in {"elsewhere", "reset"}
    \/ pc' = "deaf" /\ UNCHANGED cause

\* The loop breaks: the rest of ProcessRecv, OnRead, Clean and RegisterRecv.
EndParse ==
    /\ pc = "parse"
    /\ \/ len - processLen < HeaderSize
       \/ /\ len - processLen >= HeaderSize
          /\ \E size \in Header : len - processLen < size
    /\ IF processLen > len \/ processLen > DataSize
       THEN /\ pc' = "closed"
            /\ cause' = "OnRead Overflow"
            /\ UNCHANGED <<buffer, cursorVars>>
       ELSE /\ Clean(ParsePos)
            /\ RegisterRecv
    /\ len' = 0
    /\ processLen' = 0
    /\ UNCHANGED <<streamVars, received, delivered>>

Next ==
    \/ \E n \in Sizes : PeerSend(n)
    \/ \E n \in 1..FreeSize : ProcessRecv(n)
    \/ Recv0
    \/ ParsePacket
    \/ EndParse

\* Bytes that were sent are read at last, and the worker that reads them goes on.
Spec ==
    /\ Init
    /\ [][Next]_recvVars
    /\ WF_recvVars(ParsePacket \/ EndParse)
    /\ WF_recvVars(\E n \in 1..FreeSize : ProcessRecv(n))

-----------------------------------------------------------------------------
TypeOK ==
    /\ sent \in Seq([at : Nat, size : Sizes])
    /\ sentEnd \in Nat
    /\ received \in 0..sentEnd
    /\ buffer \in [0..(Capacity - 1) -> Nat \cup {-1}]
    /\ readPos \in 0..writePos
    /\ writePos \in 0..Capacity
    /\ pc \in {"posted", "parse", "closed", "deaf"}
    /\ cause \in {"none", "no room", "OnRead Overflow"} \cup Outside
    /\ len \in 0..DataSize
    /\ processLen \in 0..len
    /\ delivered \in Seq([at : Nat \cup {-1}, size : 0..MaxPacket, intact : BOOLEAN])

\* The bytes between the cursors are the last bytes that came out of the socket, in
\* their order: no cursor movement and no memcpy of Clean loses or repeats one.
WindowExact ==
    \A i \in readPos..(writePos - 1) : buffer[i] = received - (writePos - i)

\* Every WSARecv is posted with a whole BufferSize of room, so it can never complete
\* with zero bytes and look like a disconnection (Session.cpp:140, Session.cpp:251).
RoomToReceive == pc = "posted" => FreeSize >= BufferSize

\* The session is disconnected from outside only, never by the receive buffer's bookkeeping.
NoSpuriousDisconnect == cause \in {"none"} \cup Outside

\* No gap and no repetition, each packet with its own bytes.
InOrder ==
    /\ Len(delivered) <= Len(sent)
    /\ \A i \in DOMAIN delivered :
        /\ delivered[i].at = sent[i].at
        /\ delivered[i].size = sent[i].size
        /\ delivered[i].intact

\* When the session waits for bytes, and when it takes no more, no packet whose bytes are
\* all there waits with it: it might be the last for a long time.
NothingHeldBack ==
    pc # "parse" => \A i \in DOMAIN sent :
        sent[i].at + sent[i].size <= received => i <= Len(delivered)

\* What OnRecvPacket got are the packets the peer sent, in order and complete, and all of
\* those that had arrived, however TCP cut the stream.
PacketsInOrder == InOrder /\ NothingHeldBack

\* memcpy is undefined on ranges that overlap: when Clean moves the data to the front
\* its new place ends before its old one begins.
CopyDisjoint ==
    [][(writePos' < writePos /\ writePos' # 0) => writePos' <= ParsePos]_recvVars

\* Every packet the peer sent is handed to OnRecvPacket, unless the session is disconnected
\* from outside or a receive failed and left it deaf (Session.cpp:148-151): the only ways to
\* lose a packet.
EveryPacketDelivered ==
    \A k \in 1..MaxPackets :
        Len(sent) >= k ~> (Len(delivered) >= k \/ cause \in Outside \/ pc = "deaf")
=============================================================================
