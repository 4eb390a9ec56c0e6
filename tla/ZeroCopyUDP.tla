----------------------------- MODULE ZeroCopyUDP -----------------------------
(***************************************************************************)
(* ZeroCopyUDP::recv of include/HFTPerf.h on a network that loses, repeats *)
(* and reorders packets.  A packet is whole (at least 64 bytes), torn (48  *)
(* to 63) or short (1 to 47).  recv drops the short ones only, and reads   *)
(* the sequence number from bytes 56 to 63: that of a torn packet is       *)
(* whatever was in the buffer.  Prices are left out, and so are empty      *)
(* packets and errors, for which recv returns before it changes anything.  *)
(***************************************************************************)
EXTENDS Integers, FiniteSetsExt, Sequences

CONSTANTS
  MaxSeq,     \* bound: the source numbers its packets from 0 to MaxSeq
  Garbage,    \* numbers that may be read from an unwritten buffer
  MaxPackets  \* bound: packets received

ASSUME UdpAssumption ==
  /\ MaxSeq \in Nat
  /\ Garbage \subseteq Nat
  /\ MaxPackets \in Nat

VARIABLES
  sent,     \* packets sent by the source
  lastSeq,  \* last_seq_
  rx,       \* rx_
  drop,     \* drop_
  outSeq,   \* out->seq, the caller's record
  given,    \* history: numbers recv returned 1 for
  arrived,  \* history: numbers of whole packets received
  torn      \* history: a torn packet was received

udpVars == <<sent, lastSeq, rx, drop, outSeq, given, arrived, torn>>

UdpInit ==
  /\ sent = 0
  /\ lastSeq = 0
  /\ rx = 0
  /\ drop = 0
  /\ outSeq = 0
  /\ given = << >>
  /\ arrived = {}
  /\ torn = FALSE

\* Mutant: a repeated packet is let through.
IsNewOrLast(seq) == seq >= lastSeq
IsNew(seq) == seq > lastSeq

\* The caller's record is overwritten before the number is looked at.
Deliver(seq) ==
  /\ outSeq' = seq
  /\ IF IsNew(seq)
     THEN /\ lastSeq' = seq
          /\ rx' = rx + 1
          /\ given' = Append(given, seq)
          /\ UNCHANGED drop
     ELSE drop' = drop + 1 /\ UNCHANGED <<lastSeq, rx, given>>

\* A packet that was sent may arrive at any time, again, or never.
ReceiveWhole(seq) ==
  /\ seq < sent
  /\ Deliver(seq)
  /\ arrived' = arrived \cup {seq}
  /\ UNCHANGED <<sent, torn>>

ReceiveTorn ==
  /\ \E seq \in Garbage : Deliver(seq)
  /\ torn' = TRUE
  /\ UNCHANGED <<sent, arrived>>

ReceiveShort ==
  /\ drop' = drop + 1
  /\ UNCHANGED <<sent, lastSeq, rx, outSeq, given, arrived, torn>>

Send ==
  /\ sent <= MaxSeq
  /\ sent' = sent + 1
  /\ UNCHANGED <<lastSeq, rx, drop, outSeq, given, arrived, torn>>

UdpNext ==
  \/ Send
  \/ /\ rx + drop < MaxPackets
     /\ \/ \E seq \in 0..MaxSeq : ReceiveWhole(seq)
        \/ ReceiveTorn
        \/ ReceiveShort

UdpSpec == UdpInit /\ [][UdpNext]_udpVars
-----------------------------------------------------------------------------
\* What the caller gets goes up strictly: nothing twice, nothing late.  Without
\* torn packets recv has handed over the newest one that arrived, except that
\* number 0 is always dropped; a torn one may shut out all that follow.
DeliversNewest ==
  /\ \A i, j \in DOMAIN given : i < j => given[i] < given[j]
  /\ given # << >> => given[Len(given)] = lastSeq
  /\ torn \/ lastSeq = Max(arrived \cup {0})
=============================================================================
