------------------------------- MODULE MusbRx -------------------------------
(***************************************************************************)
(* Bulk-OUT reception on the sunxi musb gadget: one single-buffered RX     *)
(* FIFO, the RX interrupt, and musb_ep_restart(), which runs for every     *)
(* request because raw-gadget queues its reads from user space.  The host  *)
(* forgets a packet once the FIFO has acknowledged it, so a packet that    *)
(* the driver drops afterwards is gone.                                    *)
(*                                                                         *)
(* Source: kernel patch 0001 (musb_ep_restart).  The FIFO, rxstate() and   *)
(* the interrupt handler around it are the stock driver, external to this  *)
(* repository and modelled as the patch's own text uses them.              *)
(***************************************************************************)
EXTENDS Naturals, Sequences

CONSTANTS
  Payloads,    \* what a packet can carry
  MaxPackets,  \* how many packets the host sends
  Capacity     \* how many full packets a read request takes

ASSUME PacketAssumption == MaxPackets \in Nat /\ Capacity \in Nat \ {0}

\* A packet is a payload and whether it is short, which ends a request.
Packet == [data : Payloads, short : BOOLEAN]

VARIABLES
  acked,    \* the packets the host has seen acknowledged
  rdy,      \* RXPKTRDY: the FIFO holds the last of them
  irq,      \* the RX interrupt is raised and has not been served
  room,     \* full packets the head request still takes, 0: none is queued
  restart,  \* where musb_ep_restart is: "no", or the RXPKTRDY it read
  stream    \* what rxstate has copied into requests so far

rxVars == <<acked, rdy, irq, room, restart, stream>>

Restart == {"no", "sawPacket", "sawNothing"}

RxInit ==
  /\ acked = << >> /\ stream = << >>
  /\ rdy = FALSE /\ irq = FALSE
  /\ room = 0 /\ restart = "no"

\* The controller receives and acknowledges a packet; a full FIFO answers NAK.
HostPacket(p) ==
  /\ ~rdy /\ Len(acked) < MaxPackets
  /\ acked' = Append(acked, p)
  /\ rdy' = TRUE /\ irq' = TRUE
  /\ UNCHANGED <<room, restart, stream>>

\* rxstate(): unload a ready packet into the head request; complete it when full.
RxState ==
  IF rdy
  THEN LET p == acked[Len(acked)] IN
       /\ stream' = Append(stream, p)
       /\ rdy' = FALSE
       /\ room' = IF p.short THEN 0 ELSE room - 1
  ELSE UNCHANGED <<stream, rdy, room>>

ServeHead == IF room > 0 THEN RxState ELSE UNCHANGED <<stream, rdy, room>>

\* The interrupt handler; the driver's lock keeps it out of musb_ep_restart.
RxInterrupt ==
  /\ irq /\ restart = "no"
  /\ irq' = FALSE
  /\ ServeHead
  /\ UNCHANGED <<acked, restart>>

\* A read is queued to the empty endpoint: musb_ep_restart reads RXCSR ...
QueueRead ==
  /\ room = 0 /\ restart = "no"
  /\ room' = Capacity
  /\ restart' = IF rdy THEN "sawPacket" ELSE "sawNothing"
  /\ UNCHANGED <<acked, rdy, irq, stream>>

\* Mutants: the stock flush of whatever is in the FIFO by now, and a requeue
\* that leaves a packet it saw to an interrupt that has long been served.
FlushFifo  == rdy' = FALSE /\ UNCHANGED <<stream, room>>
LeaveToIrq == UNCHANGED <<stream, rdy, room>>
\* Mutant: the flush meets a packet and leaves a phantom of no length.
ZeroLength == [data |-> << >>, short |-> TRUE]
FlushLeavesPhantom ==
  /\ rdy' = FALSE
  /\ IF rdy THEN stream' = Append(stream, ZeroLength) /\ room' = 0 ELSE UNCHANGED <<stream, room>>
\* ... and acts on the value it read, which the controller may have overtaken.
ServicePending ==
  IF restart = "sawPacket" THEN RxState ELSE UNCHANGED <<stream, rdy, room>>

EndRestart ==
  /\ restart # "no"
  /\ restart' = "no"
  /\ ServicePending
  /\ UNCHANGED <<acked, irq>>

Driver == RxInterrupt \/ EndRestart
RxNext == Driver \/ QueueRead \/ \E p \in Packet : HostPacket(p)

RxSpec == RxInit /\ [][RxNext]_rxVars

(***************************************************************************)
(* Interrupts are served, the restart path is straight-line code under a   *)
(* lock, and usb-proxy's reader thread queues its next read as soon as the *)
(* last one completed.  The host need not send anything.                   *)
(***************************************************************************)
FairRxSpec == RxSpec /\ WF_rxVars(RxInterrupt) /\ WF_rxVars(EndRestart) /\ WF_rxVars(QueueRead)

----------------------------------------------------------------------------
RxTypeOK ==
  /\ acked \in Seq(Packet) /\ stream \in Seq(Packet)
  /\ rdy \in BOOLEAN /\ irq \in BOOLEAN
  /\ room \in 0 .. Capacity
  /\ restart \in Restart

(***************************************************************************)
(* Nothing acknowledged is lost, doubled, reordered or made up: the reads  *)
(* have been given everything acknowledged but the packet in the FIFO      *)
(* (kernel patch 0001: "the ACKed packet is either lost outright ... or    *)
(* delivered as a phantom zero-length packet").                            *)
(***************************************************************************)
NothingLost ==
  /\ Len(acked) = Len(stream) + (IF rdy THEN 1 ELSE 0)
  /\ \A i \in 1 .. Len(stream) : stream[i] = acked[i]

(***************************************************************************)
(* A packet RXPKTRDY announces while no request takes it is noticed again  *)
(* later: with its interrupt already served and a request queued, some     *)
(* restart is on its way to service it.                                    *)
(***************************************************************************)
NoPacketForgotten == rdy /\ room > 0 => irq \/ restart = "sawPacket"

\* Every acknowledged packet reaches a read: the transfer does not deadlock.
EveryPacketIsRead == rdy ~> ~rdy

\* The endpoint is a reliable channel from the host to the reading thread.
Channel == INSTANCE ReliableChannel
             WITH Packets <- Packet, accepted <- acked, handed <- stream
IsReliableChannel == Channel!Spec
=============================================================================
