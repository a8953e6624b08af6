------------------------------- MODULE Checksum -------------------------------
(***************************************************************************)
(* The checksum of a packet (zen/net/ip4.c): the sum of its half words in  *)
(* ones' complement, two bytes at a time or eight.  A byte has ChkBits     *)
(* bits, 8 in the code, and the machine keeps the lowest byte first.       *)
(***************************************************************************)
EXTENDS Integers, Sequences
LOCAL INSTANCE SequencesExt

CONSTANTS ChkBits,        \* bits of a byte
          Packets,        \* bytes of packets, with one byte behind the last
          NETIP4PKTSIZE   \* the longest packet that ip4chksum16 looks at

ASSUME ChecksumAssumption ==
    ChkBits \in Nat \ {0} /\ Packets \subseteq Seq(0 .. 2 ^ ChkBits - 1) /\ NETIP4PKTSIZE \in Nat

VARIABLES packet,  \* the bytes of a packet and the one behind it
          chksum   \* what the functions return for it

chkvars == <<packet, chksum>>

Room(bytes) == 2 ^ (ChkBits * bytes)
\* The word of n bytes at a place of the buffer, which counts from zero.
WordAt(buf, place, n) ==
    FoldLeft(LAMBDA w, k : w + buf[place + k] * Room(k - 1), 0, [k \in 1 .. n |-> k])
---------------------------------------------------------------------------
\* Carries are kept until the end.  Of no bytes at all the loop does not end: it
\* counts to one below zero.
ip4chksum16(buf, bytes) ==
    LET size == IF bytes < NETIP4PKTSIZE THEN bytes ELSE NETIP4PKTSIZE
        even == FoldLeft(LAMBDA sum, n : sum + WordAt(buf, 2 * (n - 1), 2), 0,
                         [n \in 1 .. size \div 2 |-> n])
        all == IF size % 2 = 1 THEN even + buf[size] ELSE even
        fold[k \in 0 .. 4] ==
            IF k = 0 THEN all ELSE (fold[k - 1] % Room(2)) + (fold[k - 1] \div Room(2))
    IN  IF size = 0 THEN <<"never returns">> ELSE <<Room(4) - 1 - fold[4]>>

\* A carry comes back in at the lowest bit.
AddCarry(sum, u, bytes) ==
    LET s == (sum + u) % Room(bytes) IN IF s < u THEN s + 1 ELSE s

\* Behind the words of eight bytes come one of four and one of two if the size has
\* those bits; and one byte if any of its three bits is set, which is the byte
\* behind the packet when the size is even.
ChkTail(buf, words, size) ==
    LET place == 8 * words
        place2 == place + 4 * ((size \div 4) % 2)
        place1 == place2 + 2 * ((size \div 2) % 2)
    IN  (IF (size \div 4) % 2 = 1 THEN <<WordAt(buf, place, 4)>> ELSE <<>>)
        \o (IF (size \div 2) % 2 = 1 THEN <<WordAt(buf, place2, 2)>> ELSE <<>>)
        \o (IF size > 0 THEN <<buf[place1 + 1]>> ELSE <<>>)

\* The halves are added until one half word is left, whose complement is widened.
FoldDown(sum) ==
    LET tmp1 == AddCarry(sum % Room(4), sum \div Room(4), 4)
        tmp3 == AddCarry(tmp1 % Room(2), tmp1 \div Room(2), 2)
    IN  <<Room(8) - 1 - tmp3>>

ip4chksum64(buf, bytes) ==
    LET words == bytes \div 8
        Whole(sum, n) == AddCarry(sum, WordAt(buf, 8 * (n - 1), 8), 8)
        sum8 == FoldLeft(Whole, 0, [n \in 1 .. words |-> n])
    IN  FoldDown(FoldLeft(LAMBDA sum, u : AddCarry(sum, u, 8), sum8, ChkTail(buf, words, bytes % 8)))

\* The same sum with its tests the other way round.
ip4chksum64_2(buf, bytes) ==
    LET words == bytes \div 8
        Whole(sum, n) == LET u == WordAt(buf, 8 * (n - 1), 8)  s == (sum + u) % Room(8)
                         IN  IF s >= u THEN s ELSE s + 1
        sum8 == FoldLeft(Whole, 0, [n \in 1 .. words |-> n])
    IN  FoldDown(FoldLeft(LAMBDA sum, u : AddCarry(sum, u, 8), sum8, ChkTail(buf, words, bytes % 8)))
---------------------------------------------------------------------------
\* Packets, one at a time.  One that has room for it is sent with its checksum in
\* front, and something else lies behind it where it comes in.
Sealed(buf, sum) ==
    IF Len(buf) < 3 THEN buf
    ELSE [buf EXCEPT ![1] = sum % Room(1), ![2] = (sum \div Room(1)) % Room(1)]
Moved(buf) == [buf EXCEPT ![Len(buf)] = Room(1) - 1 - @]

ChkInit == packet \in Packets /\ chksum = <<>>
TakeSum ==
    /\ chksum = <<>>
    /\ LET size == Len(packet) - 1
           blank == Sealed(packet, 0)
           sent == Sealed(packet, ip4chksum64(blank, size)[1])
       IN  chksum' = [two |-> ip4chksum16(packet, size), eight |-> ip4chksum64(packet, size),
                      again |-> ip4chksum64_2(packet, size), sent |-> ip4chksum64(sent, size),
                      came |-> ip4chksum64(Moved(sent), size)]
    /\ UNCHANGED packet
ChkSpec == ChkInit /\ [][TakeSum]_chkvars
---------------------------------------------------------------------------
\* The sums of eight bytes at a time have the half word that the sum of two at a time
\* has, and a packet that carries its sum adds up to zero there, unless the byte
\* behind it is taken in, which it is after a last word of two or four bytes.  A byte
\* that is zero does no harm.  Above the half word nothing agrees: all bits are ones
\* (ip4chksum16, ip4chksum64, ip4chksum64_2).
SumsAgree ==
    chksum # <<>> =>
    LET size == Len(packet) - 1
        alone == size % 8 = 0 \/ size % 2 = 1
        Low(sum) == sum[1] % Room(2)
    IN  /\ chksum.eight = chksum.again
        /\ size > 0 /\ size <= NETIP4PKTSIZE /\ (alone \/ packet[size + 1] = 0) =>
              Low(chksum.eight) = Low(chksum.two)
        /\ size >= 2 => Low(chksum.sent) = 0
        /\ size >= 2 => (Low(chksum.came) = 0 <=> alone)
        /\ chksum.eight[1] >= Room(8) - Room(2)
===============================================================================
