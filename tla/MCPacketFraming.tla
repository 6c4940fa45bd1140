--------------------------- MODULE MCPacketFraming ---------------------------
(* PacketFraming for TLC: bytes of three values, sizes of two bytes, little end *)
(* first.                                                                       *)
EXTENDS PacketFraming

LittleEnd == [n \in 0..Modulus-1 |->
                [k \in 1..SizeWidth |-> (n \div Base^(k-1)) % Base]]

MCPackets == {[type |-> 1, payload |-> <<2>>],
              [type |-> 0, payload |-> <<0, 1>>],
              [type |-> 2, payload |-> <<>>]}
=============================================================================
