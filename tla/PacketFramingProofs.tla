------------------------ MODULE PacketFramingProofs ------------------------
(***************************************************************************)
(* Proofs about PacketFraming, for any bytes, sizes, layout of a size in   *)
(* memory, buffer, packets and number of them.                             *)
(***************************************************************************)
EXTENDS PacketFraming, SequenceTheorems, TLAPS

-----------------------------------------------------------------------------
(* Numbers, words and sequences *)

LEMMA Constants ==
  /\ Base \in Nat \ {0, 1} /\ SizeWidth \in Nat \ {0} /\ MaxPackets \in Nat
  /\ HeaderSize = SizeWidth + 1 /\ BufferSize \in Nat /\ BufferSize >= HeaderSize
  /\ Modulus \in Nat \ {0} /\ 0 \in Digit
BY FramingAssumption DEF HeaderSize, Digit

LEMMA MinOfTwo ==
  ASSUME NEW a \in Int, NEW b \in Int
  PROVE  /\ Min({a, b}) \in Int
         /\ Min({a, b}) = IF a <= b THEN a ELSE b
<1> DEFINE m == IF a <= b THEN a ELSE b
<1>1. m \in {a, b} /\ \A y \in {a, b} : m <= y
  OBVIOUS
<1>2. \A x, y \in {a, b} : x <= y /\ y <= x => x = y
  OBVIOUS
<1> QED
  BY <1>1, <1>2 DEF Min

LEMMA FunctionIsSeq ==
  ASSUME NEW S, NEW n \in Nat, NEW f \in [1..n -> S]
  PROVE  f \in Seq(S) /\ Len(f) = n
<1>1. f \in Seq(S)
  BY SeqDef
<1>2. DOMAIN f = 1..Len(f) /\ Len(f) \in Nat
  BY <1>1, LenProperties
<1>3. DOMAIN f = 1..n
  OBVIOUS
<1> QED
  BY <1>1, <1>2, <1>3

(* A size is found again in bytes it was laid out in. *)
LEMMA WordFound ==
  ASSUME NEW s, NEW h, NEW n \in 0..Modulus-1,
         \A k \in 1..SizeWidth : s[h + k] = Word[n][k]
  PROVE  WordAt(s, h) = n
<1>1. Word[n] \in SizeBytes
  BY FramingAssumption
<1>2. [k \in 1..SizeWidth |-> s[h + k]] = Word[n]
  BY <1>1 DEF SizeBytes
<1> QED
  BY <1>2, FramingAssumption DEF WordAt

LEMMA WordType ==
  ASSUME NEW s, NEW h, \A k \in 1..SizeWidth : s[h + k] \in Digit
  PROVE  WordAt(s, h) \in 0..Modulus-1
<1>1. [k \in 1..SizeWidth |-> s[h + k]] \in SizeBytes
  BY DEF SizeBytes
<1> QED
  BY <1>1, FramingAssumption DEF WordAt

-----------------------------------------------------------------------------
(* Type correctness *)

TypeInv ==
  /\ FramingTypeOK
  /\ asmBuffer \in Seq(Digit)
  /\ pc = "reading" => receiveHead = length

LEMMA PacketFacts ==
  ASSUME NEW p \in Packets
  PROVE  /\ p.type \in Digit /\ p.payload \in Seq(Digit) /\ Len(p.payload) \in Nat
         /\ HeaderSize \in Nat \ {0, 1} /\ SizeWidth \in Nat \ {0}
         /\ HeaderSize + Len(p.payload) \in 1..Modulus-1
         /\ Len(p.payload) \in 0..Modulus-1
BY FramingAssumption, LenProperties DEF HeaderSize

LEMMA WritesTypes ==
  ASSUME NEW p \in Packets
  PROVE  /\ Word[Len(p.payload)] \in Seq(Digit) /\ Len(Word[Len(p.payload)]) = SizeWidth
         /\ <<p.type>> \in Seq(Digit) /\ Len(<<p.type>>) = 1
         /\ WritesOf(p) \in Seq(Seq(Digit))
<1>1. Word[Len(p.payload)] \in [1..SizeWidth -> Digit]
  BY PacketFacts, FramingAssumption DEF SizeBytes
<1>2. Word[Len(p.payload)] \in Seq(Digit) /\ Len(Word[Len(p.payload)]) = SizeWidth
  BY <1>1, FunctionIsSeq, FramingAssumption
<1>3. <<p.type>> \in Seq(Digit) /\ p.payload \in Seq(Digit)
  BY PacketFacts
<1> QED
  BY <1>2, <1>3 DEF WritesOf

(* One round of the inner loop, from what the types give. *)
Round(size, head, len) ==
  /\ size \in IF Starting THEN SizesHere ELSE {packetSize}
  /\ size \in 0..Modulus-1
  /\ head = IF Starting THEN 0 ELSE asmHead
  /\ len = IF size - head <= length - receiveHead THEN size - head ELSE length - receiveHead
  /\ packetSize' = size /\ asmHead' = head + len /\ receiveHead' = receiveHead + len
  /\ asmBuffer' \in [1..size -> Digit]
  /\ \A k \in 1..size : asmBuffer'[k] = IF k \in head+1..head+len
                                        THEN buf[receiveHead + k - head]
                                        ELSE IF Starting THEN 0 ELSE asmBuffer[k]

LEMMA SizesType == TypeInv => SizesHere \subseteq 0..Modulus-1
<1> SUFFICES ASSUME TypeInv PROVE SizesHere \subseteq 0..Modulus-1
  OBVIOUS
<1>1. CASE receiveHead + SizeWidth <= BufferSize
  <2>1. \A k \in 1..SizeWidth : receiveHead + k \in 1..BufferSize
    BY <1>1, Constants DEF TypeInv, FramingTypeOK
  <2>2. WordAt(buf, receiveHead) \in 0..Modulus-1
    BY <2>1, WordType DEF TypeInv, FramingTypeOK
  <2>3. \A w \in 0..Modulus-1 : (HeaderSize + w) % Modulus \in 0..Modulus-1
    BY FramingAssumption DEF HeaderSize
  <2> QED
    BY <1>1, <2>2, <2>3 DEF SizesHere
<1>2. CASE ~(receiveHead + SizeWidth <= BufferSize)
  BY <1>2 DEF SizesHere
<1> QED
  BY <1>1, <1>2

LEMMA RoundFacts ==
  ASSUME TypeInv, Assemble
  PROVE  \E size \in Nat, head \in Nat, len \in Nat : head <= size /\ Round(size, head, len)
<1> DEFINE head == IF Starting THEN 0 ELSE asmHead
<1>1. PICK size \in IF Starting THEN SizesHere ELSE {packetSize} :
        LET old == IF Starting THEN [k \in 1..size |-> 0] ELSE asmBuffer
            len == CopiedOf(size, head)
        IN /\ packetSize' = size
           /\ asmBuffer' = [k \in 1..size |->
                              IF k \in head+1..head+len
                              THEN buf[receiveHead + k - head] ELSE old[k]]
           /\ asmHead' = head + len
           /\ receiveHead' = receiveHead + len
  BY DEF Assemble
<1> DEFINE old == IF Starting THEN [k \in 1..size |-> 0] ELSE asmBuffer
           len == CopiedOf(size, head)
<1>2. /\ packetSize \in 0..Modulus-1 /\ Modulus \in Nat /\ BufferSize \in Nat
      /\ length \in 0..BufferSize /\ receiveHead \in 0..length /\ asmHead \in Nat
      /\ packetSize # 0 => asmHead <= packetSize /\ Len(asmBuffer) = packetSize
      /\ asmBuffer \in Seq(Digit) /\ buf \in [1..BufferSize -> Digit]
  BY FramingAssumption DEF TypeInv, FramingTypeOK
<1>3. size \in 0..Modulus-1
  BY <1>1, <1>2, SizesType
<1>4. Starting <=> asmHead >= packetSize
  BY DEF Starting
<1>5. ~Starting => size = packetSize /\ packetSize # 0 /\ asmHead < size
  BY <1>1, <1>2, <1>4
<1>6. head \in Nat /\ head <= size
  BY <1>2, <1>3, <1>5
<1>7. len \in Nat /\ len = IF size - head <= length - receiveHead THEN size - head
                           ELSE length - receiveHead
  BY <1>2, <1>3, <1>6, MinOfTwo DEF CopiedOf
<1>8. \A k \in 1..size : old[k] \in Digit
  <2>1. CASE Starting
    BY <2>1, Constants
  <2>2. CASE ~Starting
    <3>1. \A k \in 1..size : k \in 1..Len(asmBuffer)
      BY <1>2, <1>5, <2>2
    <3> QED
      BY <1>2, <2>2, <3>1, ElementOfSeq
  <2> QED
    BY <2>1, <2>2
<1>9. \A k \in head+1..head+len : buf[receiveHead + k - head] \in Digit
  BY <1>2, <1>6, <1>7
<1> HIDE DEF head, len
<1>10. asmBuffer' = [k \in 1..size |-> IF k \in head+1..head+len
                                       THEN buf[receiveHead + k - head] ELSE old[k]]
  BY <1>1 DEF len
<1>11. /\ asmBuffer' \in [1..size -> Digit]
       /\ \A k \in 1..size : asmBuffer'[k] = IF k \in head+1..head+len
                                             THEN buf[receiveHead + k - head]
                                             ELSE IF Starting THEN 0 ELSE asmBuffer[k]
  BY <1>8, <1>9, <1>10
<1>12. Round(size, head, len)
  BY <1>1, <1>3, <1>7, <1>11 DEF Round, head, len
<1> QED
  BY <1>3, <1>6, <1>7, <1>12

LEMMA ReadLength ==
  ASSUME NEW n \in 1..Min({BufferSize, Len(wire)}), Len(wire) \in Nat
  PROVE  n \in 1..BufferSize /\ n \in 1..Len(wire)
<1>1. Min({BufferSize, Len(wire)}) = IF BufferSize <= Len(wire) THEN BufferSize ELSE Len(wire)
  <2>1. BufferSize \in Int /\ Len(wire) \in Int
    BY Constants
  <2> QED
    BY <2>1, MinOfTwo, Zenon
<1>2. BufferSize \in Nat
  BY Constants
<1>3. CASE BufferSize <= Len(wire)
  BY <1>1, <1>2, <1>3
<1>4. CASE ~(BufferSize <= Len(wire))
  BY <1>1, <1>2, <1>4
<1> QED
  BY <1>3, <1>4

LEMMA TypeInit == Init => TypeInv
<1> SUFFICES ASSUME Init PROVE TypeInv
  OBVIOUS
<1>1. 0 \in Digit /\ HeaderSize \in Nat /\ BufferSize \in Nat /\ Modulus \in Nat \ {0}
  BY Constants
<1>2. buf \in [1..BufferSize -> Digit]
  BY <1>1 DEF Init
<1>3. <<>> \in Seq(Digit) /\ <<>> \in Seq(Packets) /\ <<>> \in Seq(Seq(Digit))
  BY EmptySeq
<1>4. sent \in Seq(Packets) /\ pending \in Seq(Seq(Digit)) /\ wire \in Seq(Digit)
      /\ asmBuffer \in Seq(Digit)
  BY <1>3 DEF Init
<1>5. length \in 0..BufferSize /\ receiveHead \in 0..length /\ packetSize \in 0..Modulus-1
      /\ asmHead \in Nat
  BY <1>1 DEF Init
<1> QED
  BY <1>2, <1>4, <1>5 DEF Init, TypeInv, FramingTypeOK

LEMMA TypeStep == TypeInv /\ [Next]_vars => TypeInv'
<1> SUFFICES ASSUME TypeInv, [Next]_vars PROVE TypeInv'
  OBVIOUS
<1> USE DEF TypeInv, FramingTypeOK
<1>1. ASSUME NEW p \in Packets, SendPacket(p) PROVE TypeInv'
  BY <1>1, WritesTypes DEF SendPacket, asmVars
<1>2. CASE Write
  <2>1. Head(pending) \in Seq(Digit) /\ Tail(pending) \in Seq(Seq(Digit))
    BY <1>2, HeadTailProperties DEF Write
  <2> QED
    BY <1>2, <2>1 DEF Write, asmVars
<1>3. CASE Close \/ Lose
  <2>1. wire' \in {wire, <<>>} /\ peer' \in {"closed", "lost"}
        /\ UNCHANGED <<sent, pending, pc, buf, length, receiveHead, asmVars, delivered, cut>>
    BY <1>3 DEF Close, Lose
  <2>2. wire' \in Seq(Digit)
    BY <2>1, EmptySeq
  <2> QED
    BY <2>1, <2>2 DEF asmVars
<1>4. CASE Read
  <2>1. PICK n \in 1..Min({BufferSize, Len(wire)}) :
          /\ buf' = [k \in 1..BufferSize |-> IF k <= n THEN wire[k] ELSE buf[k]]
          /\ length' = n
          /\ wire' = SubSeq(wire, n + 1, Len(wire))
    BY <1>4 DEF Read
  <2>2. Len(wire) \in Nat /\ BufferSize \in Nat
    BY FramingAssumption
  <2>3. n \in 1..BufferSize /\ n \in 1..Len(wire)
    BY <2>2, ReadLength
  <2>4. buf' \in [1..BufferSize -> Digit]
    BY <2>1, <2>2, <2>3
  <2>5. wire' \in Seq(Digit)
    BY <2>1, <2>2, <2>3
  <2> QED
    BY <1>4, <2>1, <2>2, <2>3, <2>4, <2>5 DEF Read, clientVars, asmVars
<1>5. CASE ReadFails
  BY <1>5 DEF ReadFails, clientVars, asmVars
<1>6. CASE Assemble
  <2>1. PICK size \in Nat, head \in Nat, len \in Nat : head <= size /\ Round(size, head, len)
    BY <1>6, RoundFacts
  <2>2. asmBuffer' \in Seq(Digit) /\ Len(asmBuffer') = size
    BY <2>1, FunctionIsSeq DEF Round
  <2>3. receiveHead + len \in 0..length /\ head + len <= size
    BY <2>1 DEF Round
  <2> QED
    BY <1>6, <2>1, <2>2, <2>3 DEF Assemble, Round, clientVars
<1>7. CASE ReadMore
  BY <1>7 DEF ReadMore, clientVars, asmVars
<1>8. CASE Deliver
  BY <1>8, FramingAssumption DEF Deliver, clientVars
<1>9. CASE UNCHANGED vars
  BY <1>9 DEF vars, clientVars, asmVars
<1> QED
  BY <1>1, <1>2, <1>3, <1>4, <1>5, <1>6, <1>7, <1>8, <1>9 DEF Next, Coroutine

LEMMA TypeInductive == Spec => []TypeInv
BY TypeInit, TypeStep, PTL DEF Spec

(* Whatever arrives and wherever a size is cut, the coroutine stays within its *)
(* buffers' bookkeeping.                                                       *)
THEOREM FramingTypeCorrect == Spec => []FramingTypeOK
<1>1. TypeInv => FramingTypeOK
  BY DEF TypeInv
<1> QED
  BY <1>1, TypeInductive, PTL

-----------------------------------------------------------------------------
(* The bytes of the packets *)

Size(p) == HeaderSize + Len(p.payload)

ByteOf(p, j) ==
  IF j <= SizeWidth THEN Word[Len(p.payload)][j]
  ELSE IF j = HeaderSize THEN p.type ELSE p.payload[j - HeaderSize]

(* T lays the bytes of the packets sent one behind the other: packet k is what *)
(* follows the first S[k-1] of them, up to S[k].                               *)
Laid(T, S) ==
  /\ S \in [0..Len(sent) -> Nat] /\ S[0] = 0
  /\ \A k \in 1..Len(sent) : /\ S[k] = S[k-1] + Size(sent[k])
                             /\ S[k] <= S[Len(sent)]
                             /\ \A j \in 1..Size(sent[k]) : T[S[k-1] + j] = ByteOf(sent[k], j)

Left == length - receiveHead

(* How many of these bytes the packet being put together has, and how many *)
(* have been written.                                                      *)
Taken(S) == S[Len(delivered)] + IF packetSize = 0 THEN 0 ELSE asmHead
Written(S) == Taken(S) + Left + Len(wire)

(* The writes the client has still to do begin where the wire ends. *)
PendingInv(S) ==
  LET n == Len(sent)
      p == sent[n]
      w == Written(S)
  IN  \/ pending = <<>> /\ w = S[n]
      \/ /\ n > 0
         /\ \/ pending = WritesOf(p) /\ w = S[n-1]
            \/ pending = Tail(WritesOf(p)) /\ w = S[n-1] + SizeWidth
            \/ pending = <<p.payload>> /\ p.payload # <<>> /\ w = S[n-1] + HeaderSize

(* The packet being put together is the first that was not delivered. *)
AsmInv ==
  LET p == sent[Len(delivered) + 1]
  IN  packetSize # 0 =>
        /\ Len(delivered) < Len(sent)
        /\ packetSize = Size(p)
        /\ \A j \in 1..asmHead : asmBuffer[j] = ByteOf(p, j)

(* What is left in the receive buffer and then what is on the wire follow the *)
(* bytes the packet being put together has.                                   *)
UnderWay(T, S) ==
  /\ \A j \in 1..Left : buf[receiveHead + j] = T[Taken(S) + j]
  /\ \A j \in 1..Len(wire) : wire[j] = T[Taken(S) + Left + j]
  /\ Written(S) <= S[Len(sent)]
  /\ peer = "open" => PendingInv(S)

InOrder ==
  /\ delivered \in Seq(Packets) /\ Len(delivered) <= Len(sent)
  /\ \A k \in 1..Len(delivered) : delivered[k] = sent[k]

StreamInv(T, S) ==
  /\ Laid(T, S) /\ InOrder
  /\ pc # "closed" => AsmInv /\ UnderWay(T, S)

DeliveryInv == ~cut => \E T, S : StreamInv(T, S)

LEMMA WritesFacts ==
  ASSUME NEW p \in Packets
  PROVE  LET type == <<p.type>>
             none == p.payload = <<>>
         IN /\ WritesOf(p) # <<>> /\ Head(WritesOf(p)) = Word[Len(p.payload)]
            /\ Tail(WritesOf(p)) = IF none THEN <<type>> ELSE <<type, p.payload>>
            /\ Tail(WritesOf(p)) # <<>> /\ Head(Tail(WritesOf(p))) = type
            /\ Tail(Tail(WritesOf(p))) = IF none THEN <<>> ELSE <<p.payload>>
<1>1. CASE p.payload = <<>>
  BY <1>1 DEF WritesOf
<1>2. CASE p.payload # <<>>
  BY <1>2 DEF WritesOf
<1> QED
  BY <1>1, <1>2

LEMMA SizeFacts ==
  ASSUME NEW p \in Packets
  PROVE  /\ Size(p) = HeaderSize + Len(p.payload)
         /\ Size(p) \in 1..Modulus-1 /\ Size(p) >= HeaderSize
         /\ Size(p) \in Nat /\ Size(p) # 0
         /\ p.payload = <<>> => Size(p) = HeaderSize
         /\ p.payload # <<>> => Size(p) > HeaderSize
         /\ \A k \in 1..SizeWidth : ByteOf(p, k) = Word[Len(p.payload)][k]
         /\ ByteOf(p, HeaderSize) = p.type
         /\ \A k \in 1..Len(p.payload) : ByteOf(p, HeaderSize + k) = p.payload[k]
<1>1. Size(p) = HeaderSize + Len(p.payload)
  BY DEF Size
<1>2. Size(p) \in 1..Modulus-1
  BY <1>1, PacketFacts, Zenon
<1>3. HeaderSize \in Nat /\ SizeWidth \in Nat /\ HeaderSize = SizeWidth + 1
      /\ Len(p.payload) \in Nat
  BY PacketFacts, Constants
<1>4. PICK n \in Nat : n = Len(p.payload)
  BY <1>3
<1>5. p.payload = <<>> <=> n = 0
  <2>1. p.payload \in Seq(Digit)
    BY PacketFacts
  <2> QED
    BY <1>4, <2>1, EmptySeq, Zenon
<1>6. /\ Size(p) >= HeaderSize
      /\ p.payload = <<>> => Size(p) = HeaderSize
      /\ p.payload # <<>> => Size(p) > HeaderSize
  <2>1. Size(p) = HeaderSize + n
    BY <1>1, <1>4, Zenon
  <2>2. /\ Size(p) >= HeaderSize
        /\ n = 0 => Size(p) = HeaderSize
        /\ n # 0 => Size(p) > HeaderSize
    <3>1. HeaderSize \in Nat
      BY <1>3
    <3> QED
      BY <2>1, <3>1
  <2> QED
    BY <1>5, <2>2, Zenon
<1>7. \A k \in 1..SizeWidth : ByteOf(p, k) = Word[Len(p.payload)][k]
  BY <1>3 DEF ByteOf
<1>8. ByteOf(p, HeaderSize) = p.type
  BY <1>3 DEF ByteOf
<1>9. \A k \in 1..Len(p.payload) : ByteOf(p, HeaderSize + k) = p.payload[k]
  BY <1>3 DEF ByteOf
<1>10. Size(p) \in Nat /\ Size(p) # 0
  BY <1>2, Constants
<1> QED
  BY <1>1, <1>2, <1>6, <1>7, <1>8, <1>9, <1>10

(* What the types say of the numbers. *)
LEMMA Numbers ==
  ASSUME TypeInv, NEW T, NEW S, Laid(T, S), InOrder
  PROVE  /\ Len(sent) \in Nat /\ Len(delivered) \in 0..Len(sent)
         /\ \A k \in 1..Len(sent) : sent[k] \in Packets
         /\ \A k \in 0..Len(sent) : S[k] \in Nat /\ S[k] <= S[Len(sent)]
         /\ Taken(S) \in Nat /\ Left \in Nat /\ Len(wire) \in Nat /\ Written(S) \in Nat
<1>1. Len(sent) \in Nat /\ Len(delivered) \in 0..Len(sent) /\ Len(wire) \in Nat
  BY LenProperties DEF TypeInv, FramingTypeOK, InOrder
<1>2. \A k \in 1..Len(sent) : sent[k] \in Packets
  BY ElementOfSeq DEF TypeInv, FramingTypeOK
<1>3. \A k \in 0..Len(sent) : S[k] \in Nat /\ S[k] <= S[Len(sent)]
  BY <1>1 DEF Laid
<1>4. Left \in Nat /\ asmHead \in Nat
  BY Constants DEF Left, TypeInv, FramingTypeOK
<1> QED
  BY <1>1, <1>2, <1>3, <1>4 DEF Taken, Written

-----------------------------------------------------------------------------
(* The client's steps *)

LEMMA StreamInit == Init => StreamInv(<<>>, [k \in {0} |-> 0])
<1> SUFFICES ASSUME Init PROVE StreamInv(<<>>, [k \in {0} |-> 0])
  OBVIOUS
<1>1. sent = <<>> /\ delivered = <<>> /\ wire = <<>> /\ Len(sent) = 0 /\ length = 0
      /\ receiveHead = 0 /\ packetSize = 0 /\ pending = <<>>
  BY DEF Init
<1> QED
  BY <1>1 DEF StreamInv, Laid, InOrder, AsmInv, UnderWay, PendingInv, Taken, Written, Left

LEMMA SendStep ==
  ASSUME TypeInv, NEW T, NEW S, StreamInv(T, S), NEW p \in Packets, SendPacket(p)
  PROVE  \E T2, S2 : StreamInv(T2, S2)'
<1> DEFINE n == Len(sent)
<1>1. /\ sent' = Append(sent, p) /\ pending' = WritesOf(p) /\ pending = <<>> /\ peer = "open"
      /\ UNCHANGED <<wire, peer, pc, buf, length, receiveHead, packetSize, asmBuffer, asmHead,
                     delivered>>
  BY DEF SendPacket, asmVars
<1>2. /\ n \in Nat /\ Len(delivered) \in 0..n
      /\ \A k \in 1..n : sent[k] \in Packets
      /\ \A k \in 0..n : S[k] \in Nat /\ S[k] <= S[n]
      /\ Taken(S) \in Nat /\ Left \in Nat /\ Len(wire) \in Nat /\ Written(S) \in Nat
  BY Numbers DEF StreamInv
<1>3. Len(sent') = n + 1 /\ sent'[n+1] = p /\ \A k \in 1..n : sent'[k] = sent[k]
  BY <1>1, <1>2 DEF TypeInv, FramingTypeOK
<1>4. Size(p) \in Nat /\ Size(p) # 0
  BY SizeFacts, Zenon
<1>5. PICK S2 : S2 = [k \in 0..n+1 |-> IF k <= n THEN S[k] ELSE S[n] + Size(p)]
  OBVIOUS
<1>6. PICK T2 : T2 = [x \in Nat |-> IF x <= S[n] THEN T[x] ELSE ByteOf(p, x - S[n])]
  OBVIOUS
<1>7. /\ S2 \in [0..n+1 -> Nat] /\ S2[n+1] = S[n] + Size(p)
      /\ \A k \in 0..n : S2[k] = S[k] /\ S2[k] <= S2[n+1]
  <2>1. S2[n+1] = S[n] + Size(p) /\ \A k \in 0..n : S2[k] = S[k]
    BY <1>2, <1>5
  <2>2. \A k \in 0..n+1 : k \in 0..n \/ k = n + 1
    BY <1>2
  <2>3. /\ S[n] + Size(p) \in Nat
        /\ \A k \in 0..n : S[k] \in Nat /\ S[k] <= S[n] + Size(p)
    <3>1. n \in 0..n /\ S[n] \in Nat
      BY <1>2
    <3> QED
      BY <1>2, <1>4, <3>1
  <2>4. S2 \in [0..n+1 -> Nat]
    BY <1>5, <2>2, <2>3
  <2> QED
    BY <2>1, <2>3, <2>4
<1>8. /\ \A x \in 0..S[n] : T2[x] = T[x]
      /\ \A j \in 1..Size(p) : T2[S[n] + j] = ByteOf(p, j)
  BY <1>2, <1>4, <1>6
<1>9. Laid(T2, S2)'
  <2>1. ASSUME NEW k \in 1..n+1
        PROVE  /\ S2[k] = S2[k-1] + Size(sent'[k])
               /\ S2[k] <= S2[n+1]
               /\ \A j \in 1..Size(sent'[k]) : T2[S2[k-1] + j] = ByteOf(sent'[k], j)
    <3>1. CASE k = n + 1
      BY <1>2, <1>3, <1>4, <1>7, <1>8, <3>1
    <3>2. CASE k \in 1..n
      <4>1. /\ S[k] = S[k-1] + Size(sent[k])
            /\ \A j \in 1..Size(sent[k]) : T[S[k-1] + j] = ByteOf(sent[k], j)
        BY <3>2 DEF StreamInv, Laid
      <4>2. /\ Size(sent[k]) \in Nat /\ k-1 \in 0..n /\ k \in 0..n
            /\ S[k] \in Nat /\ S[k-1] \in Nat /\ S[n] \in Nat /\ S[k] <= S[n]
        <5>1. Size(sent[k]) \in Nat
          BY <1>2, <3>2, SizeFacts, Zenon
        <5> QED
          BY <1>2, <3>2, <5>1
      <4>3. \A j \in 1..Size(sent[k]) : S[k-1] + j \in 0..S[n]
        BY <4>1, <4>2
      <4> QED
        BY <1>2, <1>3, <1>7, <1>8, <3>2, <4>1, <4>2, <4>3
    <3> QED
      BY <1>2, <3>1, <3>2
  <2>2. S2[0] = 0
    BY <1>2, <1>7 DEF StreamInv, Laid
  <2> QED
    BY <1>3, <1>7, <2>1, <2>2 DEF Laid, Size, ByteOf
<1>10. InOrder'
  BY <1>1, <1>2, <1>3 DEF StreamInv, InOrder
<1>11. ASSUME pc # "closed" PROVE AsmInv' /\ UnderWay(T2, S2)'
  <2>1. AsmInv /\ UnderWay(T, S) /\ Written(S) = S[n]
    BY <1>1, <1>2, <1>11, SizeFacts DEF StreamInv, UnderWay, PendingInv, WritesOf
  <2>2. Taken(S2)' = Taken(S) /\ Left' = Left /\ Written(S2)' = S[n]
    BY <1>1, <1>2, <1>7, <2>1 DEF Taken, Left, Written
  <2>3. /\ \A j \in 1..Left : Taken(S) + j \in 0..S[n]
        /\ \A j \in 1..Len(wire) : Taken(S) + Left + j \in 0..S[n]
    BY <1>2, <2>1 DEF Written
  <2>4. AsmInv'
    BY <1>1, <1>2, <1>3, <2>1 DEF AsmInv, Size, ByteOf
  <2>5. PendingInv(S2)'
    BY <1>1, <1>2, <1>3, <1>7, <2>2 DEF PendingInv, WritesOf
  <2> QED
    BY <1>1, <1>3, <1>7, <1>8, <2>1, <2>2, <2>3, <2>4, <2>5 DEF UnderWay, Left
<1>12. StreamInv(T2, S2)'
  BY <1>1, <1>9, <1>10, <1>11 DEF StreamInv
<1> QED
  BY <1>12

(* What the next write appends to the wire is what the stream has there. *)
LEMMA NextWrite ==
  ASSUME TypeInv, NEW T, NEW S, Laid(T, S), InOrder, PendingInv(S), pending # <<>>
  PROVE  \E h \in Seq(Digit) :
           /\ Head(pending) = h /\ Written(S) + Len(h) <= S[Len(sent)]
           /\ \A j \in 1..Len(h) : h[j] = T[Written(S) + j]
           /\ LET n == Len(sent)
                  p == sent[n]
                  w == Written(S) + Len(h)
              IN  \/ Tail(pending) = <<>> /\ w = S[n]
                  \/ /\ n > 0
                     /\ \/ Tail(pending) = Tail(WritesOf(p)) /\ w = S[n-1] + SizeWidth
                        \/ /\ Tail(pending) = <<p.payload>> /\ p.payload # <<>>
                           /\ w = S[n-1] + HeaderSize
<1>1. PICK n : n = Len(sent)
  OBVIOUS
<1>2. PICK p : p = sent[n]
  OBVIOUS
<1>3. PICK w : w = Written(S)
  OBVIOUS
<1>4. n \in Nat /\ n > 0 /\ w \in Nat
  BY <1>1, <1>3, Numbers DEF PendingInv
<1>5. p \in Packets /\ S[n-1] \in Nat /\ S[n] \in Nat
  BY <1>1, <1>2, <1>4, Numbers
<1>6. S[n] = S[n-1] + Size(p) /\ \A j \in 1..Size(p) : T[S[n-1] + j] = ByteOf(p, j)
  BY <1>1, <1>2, <1>4 DEF Laid
<1>7. PICK m \in Nat : m = Len(p.payload)
  BY <1>5, PacketFacts
<1>8. Size(p) = HeaderSize + m /\ HeaderSize = SizeWidth + 1 /\ SizeWidth \in Nat \ {0}
      /\ m \in Nat /\ HeaderSize \in Nat
  <2>1. Size(p) = HeaderSize + m
    BY <1>5, <1>7, SizeFacts, Zenon
  <2>2. HeaderSize = SizeWidth + 1 /\ SizeWidth \in Nat \ {0} /\ HeaderSize \in Nat
    BY Constants
  <2>3. m \in Nat
    BY <1>7
  <2> QED
    BY <2>1, <2>2, <2>3
<1>9. PICK word : word = Word[m]
  OBVIOUS
<1>10. word \in Seq(Digit) /\ Len(word) = SizeWidth
  BY <1>5, <1>7, <1>9, WritesTypes
<1>11. CASE pending = WritesOf(p) /\ w = S[n-1]
  <2>1. Head(pending) = word /\ Tail(pending) = Tail(WritesOf(p))
    BY <1>5, <1>7, <1>9, <1>11, WritesFacts
  <2>2. \A j \in 1..SizeWidth : word[j] = T[w + j]
    <3>1. \A j \in 1..SizeWidth : ByteOf(p, j) = word[j]
      BY <1>5, <1>7, <1>9, SizeFacts
    <3>2. \A j \in 1..SizeWidth : j \in 1..Size(p)
      BY <1>8
    <3> QED
      BY <1>6, <1>11, <3>1, <3>2
  <2>3. w + SizeWidth <= S[n] /\ w + SizeWidth = S[n-1] + SizeWidth
    BY <1>4, <1>5, <1>6, <1>8, <1>11
  <2> QED
    BY <1>1, <1>2, <1>3, <1>4, <1>10, <2>1, <2>2, <2>3
<1>12. CASE pending = Tail(WritesOf(p)) /\ w = S[n-1] + SizeWidth
  <2>1. PICK h : h = <<p.type>>
    OBVIOUS
  <2>2. h \in Seq(Digit) /\ Len(h) = 1 /\ h[1] = p.type
    BY <1>5, <2>1, PacketFacts
  <2>3. /\ Head(pending) = h
        /\ Tail(pending) = IF p.payload = <<>> THEN <<>> ELSE <<p.payload>>
    BY <1>5, <1>12, <2>1, WritesFacts
  <2>4. ByteOf(p, HeaderSize) = p.type /\ (p.payload = <<>> => Size(p) = HeaderSize)
    BY <1>5, SizeFacts
  <2>5. T[S[n-1] + HeaderSize] = ByteOf(p, HeaderSize)
    <3>1. HeaderSize \in 1..Size(p)
      BY <1>8
    <3> QED
      BY <1>6, <3>1
  <2>6. w + 1 <= S[n] /\ w + 1 = S[n-1] + HeaderSize
    BY <1>4, <1>5, <1>6, <1>8, <1>12
  <2>7. \A j \in 1..Len(h) : h[j] = T[w + j]
    BY <2>2, <2>4, <2>5, <2>6
  <2>8. p.payload = <<>> => w + 1 = S[n]
    BY <1>6, <2>4, <2>6
  <2> QED
    BY <1>1, <1>2, <1>3, <1>4, <2>2, <2>3, <2>6, <2>7, <2>8
<1>13. CASE pending = <<p.payload>> /\ w = S[n-1] + HeaderSize
  <2>1. PICK h : h = p.payload
    OBVIOUS
  <2>2. h \in Seq(Digit) /\ Len(h) = m /\ Head(pending) = h /\ Tail(pending) = <<>>
    BY <1>5, <1>7, <1>13, <2>1, PacketFacts
  <2>3. \A j \in 1..m : ByteOf(p, HeaderSize + j) = h[j]
    BY <1>5, <1>7, <2>1, SizeFacts
  <2>4. \A j \in 1..m : T[w + j] = ByteOf(p, HeaderSize + j)
    <3>1. \A j \in 1..m : HeaderSize + j \in 1..Size(p)
                          /\ w + j = S[n-1] + (HeaderSize + j)
      BY <1>5, <1>8, <1>13
    <3> QED
      BY <1>6, <3>1
  <2>5. w + m = S[n]
    BY <1>5, <1>6, <1>8, <1>13
  <2> QED
    BY <1>1, <1>3, <1>4, <1>5, <2>2, <2>3, <2>4, <2>5
<1> QED
  BY <1>1, <1>2, <1>3, <1>11, <1>12, <1>13 DEF PendingInv

LEMMA WriteStep ==
  ASSUME TypeInv, NEW T, NEW S, StreamInv(T, S), Write
  PROVE  StreamInv(T, S)'
<1>1. /\ peer = "open" /\ pending # <<>>
      /\ wire' = wire \o Head(pending) /\ pending' = Tail(pending)
      /\ UNCHANGED <<sent, peer, pc, buf, length, receiveHead, packetSize, asmBuffer, asmHead,
                     delivered>>
  BY DEF Write, asmVars
<1>2. Laid(T, S)' /\ InOrder'
  BY <1>1 DEF StreamInv, Laid, InOrder, Size, ByteOf
<1>3. ASSUME pc # "closed" PROVE AsmInv' /\ UnderWay(T, S)'
  <2>1. AsmInv /\ UnderWay(T, S) /\ PendingInv(S)
    BY <1>1, <1>3 DEF StreamInv, UnderWay
  <2>2. PICK h \in Seq(Digit) :
           /\ Head(pending) = h /\ Written(S) + Len(h) <= S[Len(sent)]
           /\ \A j \in 1..Len(h) : h[j] = T[Written(S) + j]
           /\ LET n == Len(sent)
                  p == sent[n]
                  w == Written(S) + Len(h)
              IN  \/ Tail(pending) = <<>> /\ w = S[n]
                  \/ /\ n > 0
                     /\ \/ Tail(pending) = Tail(WritesOf(p)) /\ w = S[n-1] + SizeWidth
                        \/ /\ Tail(pending) = <<p.payload>> /\ p.payload # <<>>
                           /\ w = S[n-1] + HeaderSize
    BY <1>1, <2>1, NextWrite DEF StreamInv
  <2>3. /\ Taken(S)' = Taken(S) /\ Left' = Left
        /\ Taken(S) \in Nat /\ Left \in Nat /\ Len(wire) \in Nat /\ Len(h) \in Nat
    BY <1>1, Numbers, LenProperties DEF StreamInv, Taken, Left
  <2>4. /\ Len(wire') = Len(wire) + Len(h)
        /\ \A j \in 1..Len(wire) : wire'[j] = wire[j]
        /\ \A j \in 1..Len(h) : wire'[Len(wire) + j] = h[j]
    <3>1. wire \in Seq(Digit) /\ wire' = wire \o h
      BY <1>1, <2>2 DEF TypeInv, FramingTypeOK
    <3>2. /\ Len(wire \o h) = Len(wire) + Len(h)
          /\ \A j \in 1..Len(wire) + Len(h) :
               (wire \o h)[j] = IF j <= Len(wire) THEN wire[j] ELSE h[j - Len(wire)]
      BY <3>1, ConcatProperties
    <3> QED
      BY <2>3, <3>1, <3>2
  <2>5. Written(S)' = Written(S) + Len(h)
    BY <2>3, <2>4 DEF Written
  <2>6. \A j \in 1..Len(wire') : wire'[j] = T[Taken(S) + Left + j]
    <3>1. ASSUME NEW j \in 1..Len(wire') PROVE wire'[j] = T[Taken(S) + Left + j]
      <4>1. CASE j \in 1..Len(wire)
        BY <2>1, <2>4, <4>1 DEF UnderWay
      <4>2. CASE j \notin 1..Len(wire)
        <5>1. PICK i \in 1..Len(h) : j = Len(wire) + i
          <6>1. j - Len(wire) \in 1..Len(h) /\ j = Len(wire) + (j - Len(wire))
            BY <2>3, <2>4, <4>2
          <6> QED
            BY <6>1
        <5>2. wire'[j] = h[i] /\ h[i] = T[Written(S) + i]
          BY <2>2, <2>4, <5>1
        <5>3. Written(S) + i = Taken(S) + Left + j
          BY <2>3, <5>1 DEF Written
        <5> QED
          BY <5>2, <5>3
      <4> QED
        BY <4>1, <4>2
    <3> QED
      BY <3>1
  <2>7. AsmInv'
    BY <1>1, <2>1 DEF AsmInv, Size, ByteOf
  <2>8. PendingInv(S)'
    BY <1>1, <2>2, <2>5 DEF PendingInv, WritesOf
  <2>9. \A j \in 1..Left : buf[receiveHead + j] = T[Taken(S) + j]
    BY <2>1 DEF UnderWay
  <2> QED
    BY <1>1, <2>2, <2>3, <2>5, <2>6, <2>7, <2>8, <2>9 DEF UnderWay, Left
<1> QED
  BY <1>1, <1>2, <1>3 DEF StreamInv

(* Once its end is not open the client has no writes left that matter. *)
LEMMA EndStep ==
  ASSUME TypeInv, NEW T, NEW S, StreamInv(T, S), Close \/ Lose
  PROVE  StreamInv(T, S)'
<1>1. /\ wire' \in {wire, <<>>} /\ peer' # "open"
      /\ UNCHANGED <<sent, pc, buf, length, receiveHead, packetSize, asmBuffer, asmHead,
                     delivered>>
  BY DEF Close, Lose, asmVars
<1>2. Laid(T, S)' /\ InOrder'
  BY <1>1 DEF StreamInv, Laid, InOrder, Size, ByteOf
<1>3. ASSUME pc # "closed" PROVE AsmInv' /\ UnderWay(T, S)'
  <2>1. AsmInv /\ UnderWay(T, S)
    BY <1>3 DEF StreamInv
  <2>2. AsmInv'
    BY <1>1, <2>1 DEF AsmInv, Size, ByteOf
  <2>3. Taken(S)' = Taken(S) /\ Left' = Left /\ Taken(S) \in Nat /\ Left \in Nat
        /\ Len(wire) \in Nat /\ S[Len(sent)] \in Nat
    BY <1>1, Numbers DEF StreamInv, Taken, Left
  <2>4. CASE wire' = wire
    BY <1>1, <2>1, <2>2, <2>3, <2>4 DEF UnderWay, Written, Left
  <2>5. CASE wire' = <<>>
    <3>1. Len(wire') = 0
      BY <2>5
    <3>2. Written(S)' <= S[Len(sent)]
      BY <2>1, <2>3, <3>1 DEF UnderWay, Written
    <3> QED
      BY <1>1, <2>1, <2>2, <2>3, <3>1, <3>2 DEF UnderWay, Left
  <2> QED
    BY <1>1, <2>4, <2>5
<1> QED
  BY <1>1, <1>2, <1>3 DEF StreamInv

-----------------------------------------------------------------------------
(* The coroutine's steps *)

LEMMA ReadStep ==
  ASSUME TypeInv, NEW T, NEW S, StreamInv(T, S), Read
  PROVE  StreamInv(T, S)'
<1>1. /\ pc = "reading" /\ receiveHead' = 0
      /\ UNCHANGED <<sent, pending, peer, packetSize, asmBuffer, asmHead, delivered>>
  BY DEF Read, clientVars, asmVars
<1>2. PICK n \in 1..Min({BufferSize, Len(wire)}) :
        /\ buf' = [k \in 1..BufferSize |-> IF k <= n THEN wire[k] ELSE buf[k]]
        /\ length' = n
        /\ wire' = SubSeq(wire, n + 1, Len(wire))
  BY DEF Read
<1>3. /\ Taken(S) \in Nat /\ Left = 0 /\ Len(wire) \in Nat /\ BufferSize \in Nat
  BY <1>1, Numbers, Constants DEF StreamInv, Left, TypeInv, FramingTypeOK
<1>4. n \in 1..BufferSize /\ n \in 1..Len(wire)
  BY <1>2, <1>3, ReadLength
<1>5. Left' = n /\ Taken(S)' = Taken(S)
  BY <1>1, <1>2, <1>4 DEF Left, Taken
<1>6. AsmInv /\ UnderWay(T, S)
  BY <1>1 DEF StreamInv
<1>7. Laid(T, S)' /\ InOrder' /\ AsmInv'
  BY <1>1, <1>6 DEF StreamInv, Laid, InOrder, AsmInv, Size, ByteOf
<1>8. Len(wire') = Len(wire) - n /\ \A j \in 1..Len(wire') : wire'[j] = wire[n + j]
  <2>1. \A i \in n+1..Len(wire) : wire[i] \in Digit
    BY <1>3, <1>4, ElementOfSeq DEF TypeInv, FramingTypeOK
  <2>2. n + 1 \in Int /\ Len(wire) \in Int
    BY <1>3, <1>4
  <2>3. /\ Len(wire') = IF n + 1 <= Len(wire) THEN Len(wire) - (n + 1) + 1 ELSE 0
        /\ \A i \in 1..Len(wire) - (n + 1) + 1 : wire'[i] = wire[n + 1 + i - 1]
    BY <1>2, <2>1, <2>2, SubSeqProperties
  <2> QED
    BY <1>3, <1>4, <2>3
<1>9. Written(S)' = Written(S)
  BY <1>3, <1>4, <1>5, <1>8 DEF Written
<1>10. \A j \in 1..n : buf'[j] = T[Taken(S) + j]
  <2>1. \A j \in 1..n : buf'[j] = wire[j] /\ j \in 1..Len(wire)
    BY <1>2, <1>3, <1>4
  <2>2. \A j \in 1..Len(wire) : wire[j] = T[Taken(S) + Left + j]
    BY <1>6 DEF UnderWay
  <2>3. Taken(S) + Left = Taken(S)
    BY <1>3
  <2> QED
    BY <2>1, <2>2, <2>3
<1>11. \A j \in 1..Len(wire') : wire'[j] = T[Taken(S) + n + j]
  <2>1. \A j \in 1..Len(wire') : n + j \in 1..Len(wire) /\ Taken(S) + n + j = Taken(S) + (n + j)
    BY <1>3, <1>4, <1>8
  <2> QED
    BY <1>3, <1>6, <1>8, <2>1 DEF UnderWay
<1>12. UnderWay(T, S)'
  <2>1. \A j \in 1..n : receiveHead' + j = j
    BY <1>1, <1>4
  <2>2. PendingInv(S) <=> PendingInv(S)'
    BY <1>1, <1>9 DEF PendingInv, WritesOf
  <2> QED
    BY <1>1, <1>5, <1>6, <1>9, <1>10, <1>11, <2>1, <2>2 DEF UnderWay
<1> QED
  BY <1>7, <1>12 DEF StreamInv

(* Where no size is cut, the packet being put together is the next to deliver *)
(* and its buffer has the size of it.                                         *)
LEMMA NextPacket ==
  ASSUME TypeInv, NEW T, NEW S, StreamInv(T, S), Assemble, ~cut',
         NEW size \in Nat, NEW head \in Nat, NEW len \in Nat, Round(size, head, len)
  PROVE  LET p == sent[Len(delivered) + 1]
         IN  /\ Len(delivered) < Len(sent)
             /\ size = Size(p) /\ Taken(S) = S[Len(delivered)] + head
             /\ \A j \in 1..head : ~Starting /\ asmBuffer[j] = ByteOf(p, j)
<1>1. PICK D : D = Len(delivered)
  OBVIOUS
<1>2. PICK p : p = sent[D + 1]
  OBVIOUS
<1>3. /\ Len(sent) \in Nat /\ D \in 0..Len(sent) /\ Left \in Nat /\ Len(wire) \in Nat
      /\ Taken(S) \in Nat /\ S[D] \in Nat /\ S[Len(sent)] \in Nat
  BY <1>1, Numbers DEF StreamInv
<1>4. AsmInv /\ UnderWay(T, S)
  BY DEF Assemble, StreamInv
<1>5. CASE Starting
  <2>1. packetSize = 0 /\ head = 0 /\ Taken(S) = S[D]
    <3>1. packetSize = 0 \/ asmHead < packetSize
      BY DEF Assemble, Incomplete
    <3>2. packetSize \in Int /\ asmHead \in Int /\ asmHead >= packetSize
      BY <1>5, Constants DEF Starting, TypeInv, FramingTypeOK
    <3>3. packetSize = 0
      BY <3>1, <3>2
    <3>4. head = 0
      BY <1>5 DEF Round
    <3> QED
      BY <1>1, <1>3, <3>3, <3>4 DEF Taken
  <2>2. Left > 0 /\ Left >= SizeWidth
    <3>1. receiveHead < length /\ ~(length - receiveHead < SizeWidth)
      BY <1>5 DEF Assemble
    <3>2. length \in Int /\ receiveHead \in Int /\ SizeWidth \in Int
      BY Constants DEF TypeInv, FramingTypeOK
    <3> QED
      BY <3>1, <3>2 DEF Left
  <2>3. S[D] + Left <= S[Len(sent)]
    BY <1>3, <1>4, <2>1 DEF UnderWay, Written
  <2>4. D < Len(sent)
    BY <1>3, <2>2, <2>3
  <2>5. p \in Packets
    BY <1>1, <1>2, <1>3, <2>4, Numbers DEF StreamInv
  <2>6. \A j \in 1..Size(p) : T[S[D] + j] = ByteOf(p, j)
    <3>1. D + 1 \in 1..Len(sent) /\ (D + 1) - 1 = D
      BY <1>3, <2>4
    <3> QED
      BY <1>2, <3>1 DEF StreamInv, Laid
  <2>7. \A k \in 1..SizeWidth : k \in 1..Size(p) /\ k \in 1..Left
    <3>1. Size(p) \in Nat /\ Size(p) >= HeaderSize
      BY <2>5, SizeFacts, Zenon
    <3> QED
      BY <1>3, <2>2, <3>1, Constants
  <2>8. \A k \in 1..SizeWidth : buf[receiveHead + k] = Word[Len(p.payload)][k]
    <3>1. \A k \in 1..SizeWidth : ByteOf(p, k) = Word[Len(p.payload)][k]
      BY <2>5, SizeFacts
    <3>2. \A k \in 1..SizeWidth : buf[receiveHead + k] = T[S[D] + k]
      BY <1>4, <2>1, <2>7 DEF UnderWay
    <3> QED
      BY <2>6, <2>7, <3>1, <3>2
  <2>9. WordAt(buf, receiveHead) = Len(p.payload)
    BY <2>5, <2>8, PacketFacts, WordFound
  <2>10. receiveHead + SizeWidth <= BufferSize
    BY <2>2, Constants DEF Left, TypeInv, FramingTypeOK
  <2>11. (HeaderSize + Len(p.payload)) % Modulus = Size(p)
    <3>1. HeaderSize + Len(p.payload) = Size(p) /\ Size(p) \in 1..Modulus-1
      BY <2>5, SizeFacts, Zenon
    <3>2. \A s \in 1..Modulus-1 : s % Modulus = s
      BY Constants
    <3> QED
      BY <3>1, <3>2, Zenon
  <2>12. size = Size(p)
    BY <1>5, <2>9, <2>10, <2>11 DEF Round, SizesHere
  <2> QED
    BY <1>1, <1>2, <1>3, <2>1, <2>4, <2>12
<1>6. CASE ~Starting
  <2>1. packetSize # 0 /\ size = packetSize /\ head = asmHead
    BY <1>6 DEF Starting, Round, TypeInv, FramingTypeOK
  <2>2. Taken(S) = S[D] + head
    BY <1>1, <2>1 DEF Taken
  <2> QED
    BY <1>1, <1>2, <1>4, <1>6, <2>1, <2>2 DEF AsmInv
<1> QED
  BY <1>5, <1>6

LEMMA AssembleStep ==
  ASSUME TypeInv, NEW T, NEW S, StreamInv(T, S), Assemble, ~cut'
  PROVE  StreamInv(T, S)'
<1>1. PICK size \in Nat, head \in Nat, len \in Nat : head <= size /\ Round(size, head, len)
  BY RoundFacts
<1>2. UNCHANGED <<sent, pending, peer, wire, pc, buf, length, delivered>> /\ pc # "closed"
  BY DEF Assemble, clientVars
<1>3. PICK D : D = Len(delivered)
  OBVIOUS
<1>4. PICK p : p = sent[D + 1]
  OBVIOUS
<1>5. /\ D < Len(sent) /\ size = Size(p) /\ Taken(S) = S[D] + head
      /\ \A j \in 1..head : ~Starting /\ asmBuffer[j] = ByteOf(p, j)
  BY <1>1, <1>3, <1>4, NextPacket
<1>6. /\ Len(sent) \in Nat /\ D \in 0..Len(sent) /\ Left \in Nat /\ Len(wire) \in Nat
      /\ Taken(S) \in Nat /\ S[D] \in Nat
  BY <1>3, Numbers DEF StreamInv
<1>7. AsmInv /\ UnderWay(T, S)
  BY <1>2 DEF StreamInv
<1>8. \A j \in 1..size : T[S[D] + j] = ByteOf(p, j)
  <2>1. D + 1 \in 1..Len(sent) /\ (D + 1) - 1 = D
    BY <1>5, <1>6
  <2> QED
    BY <1>4, <1>5, <2>1 DEF StreamInv, Laid
<1>9. size # 0
  <2>1. p \in Packets
    BY <1>3, <1>4, <1>5, <1>6, Numbers DEF StreamInv
  <2> QED
    BY <1>5, <2>1, SizeFacts, Zenon
<1>10. /\ packetSize' = size /\ asmHead' = head + len /\ receiveHead' = receiveHead + len
       /\ len <= Left /\ head + len <= size /\ receiveHead \in Nat /\ length \in Nat
  BY <1>1, Constants DEF Round, Left, TypeInv, FramingTypeOK
<1>11. Left' = Left - len /\ Taken(S)' = Taken(S) + len /\ Written(S)' = Written(S)
  <2>1. Left' = Left - len
    BY <1>2, <1>10 DEF Left
  <2>2. Taken(S)' = Taken(S) + len
    BY <1>2, <1>3, <1>5, <1>6, <1>9, <1>10 DEF Taken
  <2> QED
    BY <1>2, <1>6, <2>1, <2>2 DEF Written
<1>12. \A j \in 1..head+len : asmBuffer'[j] = ByteOf(p, j)
  <2>1. ASSUME NEW j \in 1..head+len PROVE asmBuffer'[j] = ByteOf(p, j)
    <3>1. j \in 1..size
      BY <1>10
    <3>2. CASE j \in head+1..head+len
      <4>1. asmBuffer'[j] = buf[receiveHead + j - head]
        BY <1>1, <3>1, <3>2 DEF Round
      <4>2. /\ j - head \in 1..Left /\ receiveHead + j - head = receiveHead + (j - head)
            /\ Taken(S) + (j - head) = S[D] + j
        BY <1>5, <1>6, <1>10, <3>2
      <4>3. buf[receiveHead + (j - head)] = T[Taken(S) + (j - head)]
        BY <1>7, <4>2 DEF UnderWay
      <4> QED
        BY <1>8, <3>1, <4>1, <4>2, <4>3
    <3>3. CASE j \notin head+1..head+len
      <4>1. j \in 1..head
        BY <3>3
      <4> QED
        BY <1>1, <1>5, <3>1, <3>3, <4>1 DEF Round
    <3> QED
      BY <3>2, <3>3
  <2> QED
    BY <2>1
<1>13. AsmInv'
  BY <1>2, <1>3, <1>4, <1>5, <1>10, <1>12 DEF AsmInv, Size, ByteOf
<1>14. UnderWay(T, S)'
  <2>1. ASSUME NEW j \in 1..Left' PROVE buf'[receiveHead' + j] = T[Taken(S)' + j]
    <3>1. /\ len + j \in 1..Left /\ receiveHead' + j = receiveHead + (len + j)
          /\ Taken(S)' + j = Taken(S) + (len + j)
      BY <1>6, <1>10, <1>11
    <3> QED
      BY <1>2, <1>7, <3>1 DEF UnderWay
  <2>2. Taken(S)' + Left' = Taken(S) + Left
    BY <1>6, <1>11
  <2>3. \A j \in 1..Len(wire) : wire[j] = T[Taken(S)' + Left' + j]
    BY <1>7, <2>2 DEF UnderWay
  <2>4. PendingInv(S) <=> PendingInv(S)'
    BY <1>2, <1>11 DEF PendingInv, WritesOf
  <2> QED
    BY <1>2, <1>7, <1>11, <2>1, <2>3, <2>4 DEF UnderWay
<1>15. Laid(T, S)' /\ InOrder'
  BY <1>2 DEF StreamInv, Laid, InOrder, Size, ByteOf
<1> QED
  BY <1>13, <1>14, <1>15 DEF StreamInv

(* A packet that is whole reads as the one that was sent. *)
LEMMA SeenIsSent ==
  ASSUME TypeInv, NEW T, NEW S, StreamInv(T, S), pc = "assembling", ~Incomplete
  PROVE  LET p == sent[Len(delivered) + 1]
         IN  /\ Len(delivered) < Len(sent) /\ p \in Packets
             /\ packetSize = Size(p) /\ asmHead = Size(p)
             /\ Seen = {p}
<1>1. PICK p : p = sent[Len(delivered) + 1]
  OBVIOUS
<1>2. packetSize # 0 /\ asmHead = packetSize /\ Len(asmBuffer) = packetSize
  BY Constants DEF Incomplete, TypeInv, FramingTypeOK
<1>3. /\ Len(delivered) < Len(sent) /\ packetSize = Size(p)
      /\ \A j \in 1..Size(p) : asmBuffer[j] = ByteOf(p, j)
  BY <1>1, <1>2 DEF StreamInv, AsmInv
<1>4. p \in Packets
  BY <1>1, <1>3, Numbers DEF StreamInv
<1>5. PICK m : m = Len(p.payload)
  OBVIOUS
<1>6. Size(p) = HeaderSize + m
  BY <1>4, <1>5, SizeFacts, Zenon
<1>7. m \in Nat
  BY <1>4, <1>5, PacketFacts
<1>8. HeaderSize \in Nat /\ SizeWidth \in Nat \ {0} /\ HeaderSize = SizeWidth + 1
  BY Constants
<1>9. /\ \A k \in 1..SizeWidth : k \in 1..Size(p)
      /\ HeaderSize \in 1..Size(p)
      /\ \A k \in 1..m : HeaderSize + k \in 1..Size(p)
  BY <1>6, <1>7, <1>8
<1>10. WordAt(asmBuffer, 0) = m
  <2>1. \A k \in 1..SizeWidth : asmBuffer[k] = Word[m][k]
    BY <1>3, <1>4, <1>5, <1>9, SizeFacts
  <2>2. \A k \in 1..SizeWidth : 0 + k = k
    BY <1>8
  <2>3. m \in 0..Modulus-1
    BY <1>4, <1>5, PacketFacts, Zenon
  <2> QED
    BY <2>1, <2>2, <2>3, WordFound
<1>11. asmBuffer[HeaderSize] = p.type
  BY <1>3, <1>4, <1>9, SizeFacts
<1>12. SubSeq(asmBuffer, HeaderSize + 1, HeaderSize + m) = p.payload
  <2>1. PICK d : d = p.payload
    OBVIOUS
  <2>2. d \in Seq(Digit) /\ Len(d) = m
    BY <1>4, <1>5, <2>1, PacketFacts, Zenon
  <2>3. \A k \in 1..m : asmBuffer[HeaderSize + k] = d[k]
    BY <1>3, <1>4, <1>5, <1>9, <2>1, SizeFacts
  <2>4. \A i \in HeaderSize+1..HeaderSize+m : asmBuffer[i] \in Digit
    <3>1. \A i \in HeaderSize+1..HeaderSize+m : i \in 1..Len(asmBuffer)
      BY <1>2, <1>3, <1>6, <1>7, <1>8
    <3> QED
      BY <3>1, ElementOfSeq DEF TypeInv
  <2>5. PICK a, b \in Int : a = HeaderSize + 1 /\ b = HeaderSize + m
    BY <1>7, <1>8
  <2>6. PICK e : e = SubSeq(asmBuffer, a, b)
    OBVIOUS
  <2>7. /\ e \in Seq(Digit)
        /\ Len(e) = IF a <= b THEN b - a + 1 ELSE 0
        /\ \A i \in 1..b - a + 1 : e[i] = asmBuffer[a + i - 1]
    <3>1. \A i \in a..b : asmBuffer[i] \in Digit
      BY <2>4, <2>5
    <3> QED
      BY <2>6, <3>1, SubSeqProperties
  <2>8. Len(e) = m /\ \A k \in 1..m : e[k] = asmBuffer[HeaderSize + k]
    <3>1. b - a + 1 = m /\ \A k \in 1..m : a + k - 1 = HeaderSize + k
      BY <1>7, <1>8, <2>5
    <3>2. Len(e) = m
      BY <1>7, <1>8, <2>5, <2>7
    <3> QED
      BY <2>7, <3>1, <3>2
  <2>9. e = d
    BY <2>2, <2>3, <2>7, <2>8, SeqEqual
  <2> QED
    BY <2>1, <2>5, <2>6, <2>9
<1>13. Seen = {[type |-> asmBuffer[HeaderSize],
                payload |-> SubSeq(asmBuffer, HeaderSize + 1, HeaderSize + m)]}
  <2>1. ~(packetSize < HeaderSize) /\ ~(Len(asmBuffer) < HeaderSize + m)
    BY <1>2, <1>3, <1>6, <1>7, <1>8
  <2> QED
    BY <1>10, <2>1 DEF Seen
<1>14. p = [type |-> p.type, payload |-> p.payload]
  BY <1>4, FramingAssumption
<1> QED
  BY <1>1, <1>2, <1>3, <1>4, <1>11, <1>12, <1>13, <1>14

LEMMA DeliverStep ==
  ASSUME TypeInv, NEW T, NEW S, StreamInv(T, S), Deliver
  PROVE  StreamInv(T, S)'
<1>1. /\ pc = "assembling" /\ ~Incomplete
      /\ UNCHANGED <<sent, pending, peer, wire, buf, length, receiveHead>>
  BY DEF Deliver, clientVars
<1>2. PICK D : D = Len(delivered)
  OBVIOUS
<1>3. PICK p : p = sent[D + 1]
  OBVIOUS
<1>4. /\ D < Len(sent) /\ p \in Packets /\ Seen = {p}
      /\ packetSize = Size(p) /\ asmHead = Size(p)
  BY <1>1, <1>2, <1>3, SeenIsSent
<1>5. /\ delivered' = Append(delivered, p)
      /\ \/ pc' = "closed"
         \/ packetSize' = 0 /\ UNCHANGED pc
  BY <1>4 DEF Deliver
<1>6. /\ Len(sent) \in Nat /\ D \in 0..Len(sent) /\ S[D] \in Nat
      /\ Taken(S) \in Nat /\ Left \in Nat /\ Len(wire) \in Nat
  BY <1>2, Numbers DEF StreamInv
<1>7. /\ delivered' \in Seq(Packets) /\ Len(delivered') = D + 1
      /\ \A k \in 1..D+1 : delivered'[k] = IF k <= D THEN delivered[k] ELSE p
  BY <1>2, <1>4, <1>5, <1>6 DEF StreamInv, InOrder
<1>8. InOrder'
  <2>1. \A k \in 1..D+1 : k \in 1..D \/ k = D + 1
    BY <1>6
  <2> QED
    BY <1>1, <1>2, <1>3, <1>4, <1>6, <1>7, <2>1 DEF StreamInv, InOrder
<1>9. Laid(T, S)'
  BY <1>1 DEF StreamInv, Laid, Size, ByteOf
<1>10. ASSUME pc' # "closed" PROVE AsmInv' /\ UnderWay(T, S)'
  <2>1. packetSize' = 0
    BY <1>5, <1>10
  <2>2. S[D + 1] = S[D] + Size(p)
    <3>1. D + 1 \in 1..Len(sent) /\ (D + 1) - 1 = D
      BY <1>4, <1>6
    <3> QED
      BY <1>3, <3>1 DEF StreamInv, Laid
  <2>3. Size(p) \in Nat /\ Size(p) # 0
    BY <1>4, SizeFacts, Zenon
  <2>4. Taken(S)' = Taken(S) /\ Left' = Left
    BY <1>1, <1>2, <1>4, <1>6, <1>7, <2>1, <2>2, <2>3 DEF Taken, Left
  <2>5. Written(S)' = Written(S)
    BY <1>1, <2>4 DEF Written
  <2>6. PendingInv(S) <=> PendingInv(S)'
    BY <1>1, <2>5 DEF PendingInv, WritesOf
  <2>7. UnderWay(T, S)
    BY <1>1 DEF StreamInv
  <2> QED
    BY <1>1, <2>1, <2>4, <2>5, <2>6, <2>7 DEF AsmInv, UnderWay
<1> QED
  BY <1>8, <1>9, <1>10 DEF StreamInv

-----------------------------------------------------------------------------
(* Packets arrive in order *)

LEMMA DeliveryStep == TypeInv /\ DeliveryInv /\ [Next]_vars => DeliveryInv'
<1> SUFFICES ASSUME TypeInv, DeliveryInv, [Next]_vars, ~cut' PROVE \E T, S : StreamInv(T, S)'
  BY DEF DeliveryInv
<1>1. ~cut
  BY DEF Next, Coroutine, SendPacket, Write, Close, Lose, Read, ReadFails, Assemble, ReadMore,
         Deliver, vars
<1>2. PICK T, S : StreamInv(T, S)
  BY <1>1 DEF DeliveryInv
<1>3. CASE \E p \in Packets : SendPacket(p)
  BY <1>2, <1>3, SendStep
<1>4. CASE Write
  BY <1>2, <1>4, WriteStep
<1>5. CASE Close \/ Lose
  BY <1>2, <1>5, EndStep
<1>6. CASE Read
  BY <1>2, <1>6, ReadStep
<1>7. CASE ReadFails \/ ReadMore \/ UNCHANGED vars
  <2>1. /\ UNCHANGED <<sent, pending, peer, wire, buf, length, receiveHead, packetSize,
                       asmBuffer, asmHead, delivered>>
        /\ pc' # "closed" => pc # "closed"
    BY <1>7 DEF ReadFails, ReadMore, vars, clientVars, asmVars
  <2>2. Laid(T, S)' /\ InOrder'
    BY <1>2, <2>1 DEF StreamInv, Laid, InOrder, Size, ByteOf
  <2>3. Taken(S)' = Taken(S) /\ Left' = Left /\ Written(S)' = Written(S)
    BY <2>1 DEF Taken, Left, Written
  <2>4. PendingInv(S) <=> PendingInv(S)'
    BY <2>1, <2>3 DEF PendingInv, WritesOf
  <2>5. AsmInv /\ UnderWay(T, S) => AsmInv' /\ UnderWay(T, S)'
    BY <2>1, <2>3, <2>4 DEF AsmInv, UnderWay, Size, ByteOf
  <2>6. StreamInv(T, S)'
    BY <1>2, <2>1, <2>2, <2>5 DEF StreamInv
  <2> QED
    BY <2>6
<1>8. CASE Assemble
  BY <1>2, <1>8, AssembleStep
<1>9. CASE Deliver
  BY <1>2, <1>9, DeliverStep
<1> QED
  BY <1>3, <1>4, <1>5, <1>6, <1>7, <1>8, <1>9 DEF Next, Coroutine

(* tcpsimpleserverimpl.cpp 37-67: whatever the packets, the sizes of the reads *)
(* and the buffer: as long as no read ends inside a size, func gets what was   *)
(* sent, each packet once, whole and in order.                                 *)
THEOREM PacketsArriveInOrder == Spec => []DeliveredIsSent
<1>1. Init => DeliveryInv
  BY StreamInit DEF DeliveryInv
<1>2. TypeInv /\ DeliveryInv => DeliveredIsSent
  <2> SUFFICES ASSUME TypeInv, DeliveryInv, ~cut PROVE IsPrefix(delivered, sent)
    BY DEF DeliveredIsSent
  <2>1. InOrder
    BY DEF DeliveryInv, StreamInv
  <2>2. /\ delivered \in Seq(Packets) /\ sent \in Seq(Packets) /\ Len(delivered) <= Len(sent)
        /\ \A k \in 1..Len(delivered) : delivered[k] = sent[k]
    BY <2>1 DEF InOrder, TypeInv, FramingTypeOK
  <2> QED
    BY <2>2 DEF IsPrefix
<1> QED
  BY <1>1, <1>2, TypeInductive, DeliveryStep, PTL DEF Spec

=============================================================================
