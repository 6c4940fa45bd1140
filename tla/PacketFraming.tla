---------------------------- MODULE PacketFraming ----------------------------
(***************************************************************************)
(* One connection of the replay server: the client writes packets, each as *)
(* up to three writes (src/libs/level1/net/details/tcpconnectionimpl.cpp), *)
(* TCP hands their bytes over in reads of any length, and a coroutine puts *)
(* the packets together again and gives each to the server's function      *)
(* (src/libs/level1/net/details/tcpsimpleserverimpl.cpp).                  *)
(*                                                                         *)
(* A byte is a digit of the given base.  A size is SizeWidth of them, laid *)
(* out as it is in the memory of the machine, which both ends read and     *)
(* write it from; the word for the type is one.                            *)
(***************************************************************************)
EXTENDS Integers, SequencesExt

CONSTANTS
  Base,        \* the values of a byte
  SizeWidth,   \* the bytes of a size
  Modulus,     \* sizes are unsigned words, below this
  Word,        \* the bytes of each size in memory
  BufferSize,  \* the bytes of the receive buffer
  Packets,     \* what the client may send, records of a type and a payload
  Stop,        \* the type of the packet that ends the connection
  MaxPackets   \* packets that are sent (bound)

Digit == 0..Base-1
HeaderSize == SizeWidth + 1
SizeBytes == [1..SizeWidth -> Digit]

ASSUME FramingAssumption ==
  /\ Base \in Nat \ {0, 1} /\ SizeWidth \in Nat \ {0} /\ MaxPackets \in Nat
  /\ BufferSize \in Nat \ 0..HeaderSize-1
  /\ Modulus \in Nat \ {0}
  /\ Word \in [0..Modulus-1 -> SizeBytes]
  /\ \A m, n \in 0..Modulus-1 : Word[m] = Word[n] => m = n
  /\ \A w \in SizeBytes : \E n \in 0..Modulus-1 : Word[n] = w
  /\ Stop \in Digit
  /\ \A p \in Packets : /\ p = [type |-> p.type, payload |-> p.payload]
                        /\ p.type \in Digit
                        /\ p.payload \in Seq(Digit)
                        /\ HeaderSize + Len(p.payload) < Modulus

VARIABLES
  sent,        \* the packets the client has begun to write
  pending,     \* the writes it has still to do for the last of them
  wire,        \* the bytes written and not received yet
  peer,        \* the client's end: "open", "closed", or "lost"
  pc,          \* the coroutine: "reading", "assembling" or "closed"
  buf,         \* receiveBuffer, all of it
  length,      \* length_, what the last read put into it
  receiveHead, \* what is used up of that
  packetSize, asmBuffer, asmHead,  \* the packet being put together
  delivered,   \* the packets that func was given
  cut          \* whether a size was taken from less than a whole word (history)

clientVars == <<sent, pending, peer>>
asmVars == <<packetSize, asmBuffer, asmHead>>
vars == <<clientVars, wire, pc, buf, length, receiveHead, asmVars, delivered, cut>>

FramingTypeOK ==
  /\ sent \in Seq(Packets)
  /\ pending \in Seq(Seq(Digit)) /\ wire \in Seq(Digit)
  /\ peer \in {"open", "closed", "lost"}
  /\ pc \in {"reading", "assembling", "closed"}
  /\ buf \in [1..BufferSize -> Digit]
  /\ length \in 0..BufferSize /\ receiveHead \in 0..length
  /\ packetSize \in 0..Modulus-1
  /\ Len(asmBuffer) = packetSize \/ packetSize = 0
  /\ asmHead \in Nat /\ (packetSize # 0 => asmHead <= packetSize)
  /\ cut \in BOOLEAN

(* The coroutine has forked from the accepting one, and waits for its first   *)
(* read. The buffer is value-initialised; asmHead is not initialised.         *)
Init ==
  /\ sent = <<>> /\ pending = <<>> /\ wire = <<>>
  /\ peer = "open"
  /\ pc = "reading"
  /\ buf = [k \in 1..BufferSize |-> 0]
  /\ length = 0 /\ receiveHead = 0
  /\ packetSize = 0 /\ asmBuffer = <<>> /\ asmHead \in {0, HeaderSize}
  /\ delivered = <<>>
  /\ cut = FALSE

-----------------------------------------------------------------------------
(* Words *)

(* The size whose bytes start behind the first h elements of s. *)
WordAt(s, h) == CHOOSE n \in 0..Modulus-1 : Word[n] = [k \in 1..SizeWidth |-> s[h + k]]

-----------------------------------------------------------------------------
(* The client *)

(* syncWriteBasicPayload: the size, the type, and the payload if there is one. *)
WritesOf(p) ==
  LET size == Word[Len(p.payload)]
  IN  IF p.payload = <<>> THEN <<size, <<p.type>>>> ELSE <<size, <<p.type>>, p.payload>>

SendPacket(p) ==
  /\ peer = "open" /\ pending = <<>>
  /\ Len(sent) < MaxPackets
  /\ sent # <<>> => Last(sent).type # Stop
  /\ sent' = Append(sent, p)
  /\ pending' = WritesOf(p)
  /\ UNCHANGED <<wire, peer, pc, buf, length, receiveHead, asmVars, delivered, cut>>

Write ==
  /\ peer = "open" /\ pending # <<>>
  /\ wire' = wire \o Head(pending)
  /\ pending' = Tail(pending)
  /\ UNCHANGED <<sent, peer, pc, buf, length, receiveHead, asmVars, delivered, cut>>

(* The client resets its connection, once it has sent the packet that stops. *)
Close ==
  /\ peer = "open" /\ pending = <<>>
  /\ sent # <<>> /\ Last(sent).type = Stop
  /\ peer' = "closed"
  /\ UNCHANGED <<sent, pending, wire, pc, buf, length, receiveHead, asmVars, delivered, cut>>

(* The client or the connection dies, with what is under way. *)
Lose ==
  /\ peer = "open"
  /\ peer' = "lost"
  /\ wire' \in {wire, <<>>}
  /\ UNCHANGED <<sent, pending, pc, buf, length, receiveHead, asmVars, delivered, cut>>

-----------------------------------------------------------------------------
(* The coroutine *)

(* async_read_some ends with what is there, or a part of it. *)
Read ==
  /\ pc = "reading"
  /\ \E n \in 1..Min({BufferSize, Len(wire)}) :
       /\ buf' = [k \in 1..BufferSize |-> IF k <= n THEN wire[k] ELSE buf[k]]
       /\ length' = n
       /\ wire' = SubSeq(wire, n + 1, Len(wire))
  /\ receiveHead' = 0
  /\ pc' = "assembling"
  /\ UNCHANGED <<clientVars, asmVars, delivered, cut>>

(* Mutant: the coroutine is entered whether the read failed or not. *)
ReadIgnoresError ==
  /\ pc = "reading"
  /\ wire = <<>> /\ peer # "open"
  /\ pc' = "assembling"
  /\ length' = 0 /\ receiveHead' = 0
  /\ UNCHANGED <<clientVars, wire, buf, asmVars, delivered, cut>>

(* The read fails: operator() does not enter the coroutine again.            *)
ReadFails ==
  /\ pc = "reading"
  /\ wire = <<>> /\ peer # "open"
  /\ pc' = "closed"
  /\ UNCHANGED <<clientVars, wire, buf, length, receiveHead, asmVars, delivered, cut>>

Incomplete == packetSize = 0 \/ asmHead < packetSize
Starting == asmHead >= packetSize

(* Mutant: the size is always that at the start of the buffer. *)
SizesAtStart == {(HeaderSize + WordAt(buf, 0)) % Modulus}

(* The size of the packet that starts at receiveHead: 8 and the payload. The *)
(* word is read whatever was received of it; beyond the buffer's end lies    *)
(* anything.                                                                 *)
SizesHere ==
  IF receiveHead + SizeWidth <= BufferSize
  THEN {(HeaderSize + WordAt(buf, receiveHead)) % Modulus}
  ELSE 0..Modulus-1

(* Mutant: all that was received belongs to the packet. *)
CopiedOfAll(size, head) == length - receiveHead

(* What of a packet is copied in one go, of which head bytes are there. *)
CopiedOf(size, head) == Min({size - head, length - receiveHead})

(* One round of the inner loop: a new packet gets its buffer, and what was   *)
(* received of it is copied there.                                           *)
Assemble ==
  /\ pc = "assembling"
  /\ Incomplete /\ receiveHead < length
  /\ \E size \in IF Starting THEN SizesHere ELSE {packetSize} :
       LET head == IF Starting THEN 0 ELSE asmHead
           old == IF Starting THEN [k \in 1..size |-> 0] ELSE asmBuffer
           len == CopiedOf(size, head)
       IN /\ packetSize' = size
          /\ asmBuffer' = [k \in 1..size |->
                             IF k \in head+1..head+len
                             THEN buf[receiveHead + k - head] ELSE old[k]]
          /\ asmHead' = head + len
          /\ receiveHead' = receiveHead + len
  /\ cut' = (cut \/ (Starting /\ length - receiveHead < SizeWidth))
  /\ UNCHANGED <<clientVars, wire, pc, buf, length, delivered>>

ReadMore ==
  /\ pc = "assembling"
  /\ Incomplete /\ receiveHead >= length
  /\ pc' = "reading"
  /\ UNCHANGED <<clientVars, wire, buf, length, receiveHead, asmVars, delivered, cut>>

(* What func sees: the type and the payload as the header in the buffer has   *)
(* them. Beyond the buffer's end, which no digit stands for, lies anything.   *)
Seen ==
  LET size == WordAt(asmBuffer, 0)
  IN IF packetSize < HeaderSize \/ Len(asmBuffer) < HeaderSize + size
     THEN [type : Digit, payload : {<<Base>>}]
     ELSE {[type |-> asmBuffer[HeaderSize],
            payload |-> SubSeq(asmBuffer, HeaderSize + 1, HeaderSize + size)]}

(* Mutant: every packet starts with a read of its own. *)
DeliverAndRead ==
  /\ pc = "assembling"
  /\ ~Incomplete
  /\ \E p \in Seen :
       /\ delivered' = Append(delivered, p)
       /\ pc' = IF p.type = Stop THEN "closed" ELSE "reading"
  /\ packetSize' = 0
  /\ UNCHANGED <<clientVars, wire, buf, length, receiveHead, asmBuffer, asmHead, cut>>

(* func gets the packet; the loop goes on with the next unless it says stop. *)
Deliver ==
  /\ pc = "assembling"
  /\ ~Incomplete
  /\ \E p \in Seen :
       /\ delivered' = Append(delivered, p)
       /\ \/ p.type = Stop /\ pc' = "closed" /\ UNCHANGED packetSize
          \/ p.type # Stop /\ packetSize' = 0 /\ UNCHANGED pc
  /\ UNCHANGED <<clientVars, wire, buf, length, receiveHead, asmBuffer, asmHead, cut>>

-----------------------------------------------------------------------------
Coroutine == Read \/ ReadFails \/ Assemble \/ ReadMore \/ Deliver

Next ==
  \/ \E p \in Packets : SendPacket(p)
  \/ Write \/ Close \/ Lose
  \/ Coroutine

(* The coroutine runs when a read has ended, which it does when there is     *)
(* something to read; a client that has begun a packet writes all of it.     *)
Spec == Init /\ [][Next]_vars /\ WF_vars(Coroutine) /\ WF_vars(Write)

-----------------------------------------------------------------------------
(* Properties *)

(* tcpsimpleserverimpl.cpp 37-67: wherever the reads end and however many    *)
(* packets one of them holds, func gets the packets that were sent, each     *)
(* once, whole and in order, as long as no read ends inside a size; a packet *)
(* that was not written to its end is never given to it.                     *)
DeliveredIsSent == ~cut => IsPrefix(delivered, sent)

(* tcpsimpleserverimpl.cpp 41-47: no packet waits for bytes that follow it:  *)
(* once written, it is delivered, though nothing more may ever be sent.      *)
EverythingDelivered ==
  \A n \in 1..MaxPackets :
    (Len(sent) = n /\ pending = <<>>)
      ~> (Len(delivered) >= n \/ cut \/ peer = "lost")

(* tcpsimpleserverimpl.cpp 19-21, 67: a connection that the client has closed *)
(* or lost does not stay open, whatever was received last, unless a wrong     *)
(* size keeps the loop busy.                                                  *)
ConnectionEnds == (peer # "open") ~> (pc = "closed" \/ cut)

=============================================================================
