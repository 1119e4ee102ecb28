-------------------------- MODULE KernelUsbProofs --------------------------
(***************************************************************************)
(* The two kernel USB drivers the patches change, proved for any bounds.   *)
(*                                                                         *)
(* The gadget's RX path, for any packets, any request size and any number  *)
(* of packets: nothing acknowledged is lost, no packet is forgotten, and   *)
(* the endpoint implements the reliable channel.                           *)
(*                                                                         *)
(* The EHCI handoff, for any number of tries, reclaims and touches of the  *)
(* cable: no port is left without a controller, as long as the driver's    *)
(* tries stay below the hub driver's, which is what the patch asks of      *)
(* EHCI_FS_HANDOFF_TRIES.  The invariant says why: the hub driver has      *)
(* reset the port at most once more than the driver has counted (InStep),  *)
(* so the driver comes to its last try first.                              *)
(***************************************************************************)
EXTENDS MusbRx, EhciHandoff, TLAPS

LEMMA PacketRange == ASSUME NEW s \in Seq(Packet), Len(s) > 0
                     PROVE  s[Len(s)] \in Packet
  OBVIOUS

\* A request is armed while a restart runs, and what it saw stays in the FIFO.
RestartInv == restart # "no" => room > 0 /\ (restart = "sawPacket" => rdy)

RxInv == RxTypeOK /\ NothingLost /\ RestartInv

(***************************************************************************)
(* The one place a packet moves: with a request at the head and a packet   *)
(* in the FIFO, it is the next one the stream is waiting for.              *)
(***************************************************************************)
LEMMA RxStateKeeps ==
  ASSUME RxTypeOK, NothingLost, room > 0, RxState, UNCHANGED acked
  PROVE  /\ stream' \in Seq(Packet) /\ rdy' \in BOOLEAN /\ room' \in 0 .. Capacity
         /\ NothingLost'
         /\ ~rdy'
  <1> USE PacketAssumption DEF RxTypeOK, NothingLost
  <1>1. CASE ~rdy
    BY <1>1 DEF RxState
  <1>2. CASE rdy
    <2> DEFINE p == acked[Len(acked)]
    <2>1. Len(acked) = Len(stream) + 1 /\ Len(acked) > 0
      BY <1>2
    <2>2. p \in Packet /\ p.short \in BOOLEAN
      BY <2>1, PacketRange DEF Packet
    <2>3. /\ stream' = Append(stream, p) /\ rdy' = FALSE
          /\ room' = IF p.short THEN 0 ELSE room - 1
      BY <1>2 DEF RxState
    <2>4. stream' \in Seq(Packet) /\ Len(stream') = Len(acked')
      BY <2>1, <2>2, <2>3
    <2>5. \A i \in 1 .. Len(stream') : stream'[i] = acked'[i]
      BY <2>1, <2>2, <2>3
    <2>6. room' \in 0 .. Capacity
      BY <2>2, <2>3
    <2>7. rdy' \in BOOLEAN /\ ~rdy'
      BY <2>3
    <2>8. Len(stream') \in Nat
      BY <2>4
    <2>9. NothingLost'
      BY <2>4, <2>5, <2>7, <2>8
    <2> QED
      BY <2>4, <2>6, <2>7, <2>9
  <1> QED
    BY <1>1, <1>2

LEMMA InitRxInv == RxInit => RxInv
  <1> SUFFICES ASSUME RxInit PROVE RxInv
    OBVIOUS
  <1> USE PacketAssumption DEF RxInit
  <1>1. acked \in Seq(Packet) /\ stream \in Seq(Packet) /\ room \in 0 .. Capacity
    OBVIOUS
  <1>2. rdy \in BOOLEAN /\ irq \in BOOLEAN /\ restart \in Restart
    BY DEF Restart
  <1>3. NothingLost
    BY DEF NothingLost
  <1> QED
    BY <1>1, <1>2, <1>3 DEF RxInv, RxTypeOK, RestartInv

LEMMA RxInvStep == RxInv /\ [RxNext]_rxVars => RxInv'
  <1> SUFFICES ASSUME RxInv, [RxNext]_rxVars
               PROVE  RxInv'
    OBVIOUS
  <1>1. ASSUME NEW p \in Packet, HostPacket(p)
        PROVE  RxInv'
    BY <1>1, PacketAssumption DEF HostPacket, RxInv, RxTypeOK, NothingLost, RestartInv, Restart
  <1>2. CASE RxInterrupt
    <2>1. CASE room > 0
      <3>1. RxState /\ UNCHANGED acked
        BY <1>2, <2>1 DEF RxInterrupt, ServeHead
      <3>2. restart = "no" /\ UNCHANGED <<acked, restart>> /\ irq' = FALSE
        BY <1>2 DEF RxInterrupt
      <3> QED
        BY <2>1, <3>1, <3>2, RxStateKeeps DEF RxInv, RxTypeOK, RestartInv
    <2>2. CASE ~(room > 0)
      BY <1>2, <2>2 DEF RxInterrupt, ServeHead, RxInv, RxTypeOK, NothingLost, RestartInv
    <2> QED
      BY <2>1, <2>2
  <1>3. CASE QueueRead
    BY <1>3, PacketAssumption DEF QueueRead, RxInv, RxTypeOK, NothingLost, RestartInv, Restart
  <1>4. CASE EndRestart
    <2>1. CASE restart = "sawPacket"
      <3>1. RxState /\ UNCHANGED <<acked, irq>> /\ restart' = "no" /\ room > 0
        BY <1>4, <2>1 DEF EndRestart, ServicePending, RxInv, RestartInv
      <3> QED
        BY <3>1, RxStateKeeps DEF RxInv, RxTypeOK, RestartInv, Restart
    <2>2. CASE restart # "sawPacket"
      BY <1>4, <2>2 DEF EndRestart, ServicePending, RxInv, RxTypeOK, NothingLost, RestartInv, Restart
    <2> QED
      BY <2>1, <2>2
  <1>5. CASE UNCHANGED rxVars
    BY <1>5 DEF rxVars, RxInv, RxTypeOK, NothingLost, RestartInv
  <1> QED
    BY <1>1, <1>2, <1>3, <1>4, <1>5 DEF RxNext, Driver

LEMMA RxInvariance == RxSpec => []RxInv
  BY InitRxInv, RxInvStep, PTL DEF RxSpec

\* Every variable keeps its type; no request is filled beyond its size.
THEOREM RxTyping == RxSpec => []RxTypeOK
  <1>1. RxInv => RxTypeOK
    BY DEF RxInv
  <1> QED
    BY <1>1, RxInvariance, PTL

\* No acknowledged packet is lost, doubled, reordered or made up.
THEOREM NothingIsLost == RxSpec => []NothingLost
  <1>1. RxInv => NothingLost
    BY DEF RxInv
  <1> QED
    BY <1>1, RxInvariance, PTL

----------------------------------------------------------------------------
LEMMA ForgottenStep == RxInv /\ NoPacketForgotten /\ [RxNext]_rxVars => NoPacketForgotten'
  <1> SUFFICES ASSUME RxInv, NoPacketForgotten, [RxNext]_rxVars
               PROVE  NoPacketForgotten'
    OBVIOUS
  <1>1. ASSUME NEW p \in Packet, HostPacket(p)
        PROVE  NoPacketForgotten'
    BY <1>1 DEF HostPacket, NoPacketForgotten
  <1>2. CASE RxInterrupt
    <2>1. CASE room > 0
      <3>1. RxState /\ UNCHANGED acked
        BY <1>2, <2>1 DEF RxInterrupt, ServeHead
      <3> QED
        BY <2>1, <3>1, RxStateKeeps DEF RxInv, NoPacketForgotten
    <2>2. CASE ~(room > 0)
      BY <1>2, <2>2 DEF RxInterrupt, ServeHead, NoPacketForgotten
    <2> QED
      BY <2>1, <2>2
  <1>3. CASE QueueRead
    BY <1>3 DEF QueueRead, NoPacketForgotten
  <1>4. CASE EndRestart
    <2>1. CASE restart = "sawPacket"
      <3>1. RxState /\ UNCHANGED acked /\ room > 0
        BY <1>4, <2>1 DEF EndRestart, ServicePending, RxInv, RestartInv
      <3> QED
        BY <3>1, RxStateKeeps DEF RxInv, NoPacketForgotten
    <2>2. CASE restart # "sawPacket"
      BY <1>4, <2>2 DEF EndRestart, ServicePending, NoPacketForgotten
    <2> QED
      BY <2>1, <2>2
  <1>5. CASE UNCHANGED rxVars
    BY <1>5 DEF rxVars, NoPacketForgotten
  <1> QED
    BY <1>1, <1>2, <1>3, <1>4, <1>5 DEF RxNext, Driver

\* A packet in the FIFO with a request queued always has somebody coming for it.
THEOREM NothingIsForgotten == RxSpec => []NoPacketForgotten
  <1>1. RxInit => NoPacketForgotten
    BY DEF RxInit, NoPacketForgotten
  <1> QED
    BY <1>1, ForgottenStep, RxInvariance, PTL DEF RxSpec

----------------------------------------------------------------------------
\* A step hands the next packet over, accepts one, or leaves the channel alone.
LEMMA ChannelStep == RxInv /\ [RxNext]_rxVars => [Channel!Next]_<<acked, stream>>
  <1> SUFFICES ASSUME RxInv, [RxNext]_rxVars
               PROVE  Channel!Next \/ UNCHANGED <<acked, stream>>
    OBVIOUS
  <1>1. ASSUME NEW p \in Packet, HostPacket(p)
        PROVE  Channel!Next
    BY <1>1 DEF HostPacket, Channel!Next, Channel!Accept
  <1>2. ASSUME RxState, UNCHANGED acked
        PROVE  Channel!Next \/ UNCHANGED <<acked, stream>>
    BY <1>2 DEF RxState, Channel!Next, Channel!Hand, RxInv, RxTypeOK, NothingLost
  <1>3. CASE RxInterrupt
    BY <1>2, <1>3 DEF RxInterrupt, ServeHead
  <1>4. CASE QueueRead
    BY <1>4 DEF QueueRead
  <1>5. CASE EndRestart
    BY <1>2, <1>5 DEF EndRestart, ServicePending
  <1>6. CASE UNCHANGED rxVars
    BY <1>6 DEF rxVars
  <1> QED
    BY <1>1, <1>3, <1>4, <1>5, <1>6 DEF RxNext, Driver

\* The endpoint implements the reliable channel.
THEOREM ImplementsChannel == RxSpec => IsReliableChannel
  <1>1. RxInit => Channel!Init
    BY DEF RxInit, Channel!Init
  <1> QED
    BY <1>1, ChannelStep, RxInvariance, PTL DEF RxSpec, IsReliableChannel, Channel!Spec

-----------------------------------------------------------------------------
InStep ==
  /\ hub = "reset" => hubTry <= tries
  /\ hub = "status" => hubTry <= tries + 1

\* A reclaim is wanted only while the episode has one left.
DueInTime == due => reclaims < Reclaims

\* Also while the reclaim work is between its read and its write.
Served == hub = "idle" /\ Connected /\ ~csc => enabled

IInv == TypeOK /\ InStep /\ DueInTime /\ Served

-----------------------------------------------------------------------------
LEMMA InitIInv == Init => IInv
<1> SUFFICES ASSUME Init PROVE IInv
  OBVIOUS
<1>1. hubTry \in 0 .. HubTries /\ tries \in 0 .. Tries - 1 /\ reclaims \in 0 .. Reclaims
      /\ plugs \in 0 .. MaxPlugs /\ visit \in 0 .. Reclaims + 1
  BY TriesAssumption DEF Init
<1>2. TypeOK
  BY <1>1 DEF Init, TypeOK
<1> QED
  BY <1>2 DEF Init, IInv, InStep, DueInTime, Served, Connected

\* The cable, the watch and the clock.
LEMMA WorldStep == ASSUME IInv, World PROVE IInv'
<1>1. CASE Unplug
  BY <1>1 DEF Unplug, IInv, TypeOK, InStep, DueInTime, Served, Connected, hubVars, fsVars
<1>2. CASE WatchReady
  BY <1>2 DEF WatchReady, IInv, TypeOK, InStep, DueInTime, Served, Connected, hubVars, fsVars
<1>3. CASE EpisodeExpires
  BY <1>3 DEF EpisodeExpires, IInv, TypeOK, InStep, DueInTime, Served, Connected, hubVars
<1>4. ASSUME NEW kind \in {"high", "busy", "full"}, Plug(kind) PROVE IInv'
  <2>1. visit' \in 0 .. Reclaims + 1 /\ plugs' \in 0 .. MaxPlugs
    BY <1>4, TriesAssumption DEF Plug, IInv, TypeOK
  <2>2. dev' \in {"none", "high", "busy", "full"} /\ csc' /\ replugged'
    BY <1>4 DEF Plug
  <2> QED
    BY <1>4, <2>1, <2>2 DEF Plug, IInv, TypeOK, InStep, DueInTime, Served, hubVars, fsVars
<1> QED
  BY <1>1, <1>2, <1>3, <1>4 DEF World

\* What every connect change that is cleared leaves behind.
LEMMA Cleared ==
  ASSUME IInv, ClearConnection,
         hub' = IF Connected THEN "reset" ELSE "idle", hubTry' = 0,
         UNCHANGED <<dev, owner, enabled, work, old, plugs, visit>>
  PROVE  IInv'
<1>1. tries' \in 0 .. Tries - 1 /\ hubTry' \in 0 .. HubTries /\ tries' = 0 /\ hubTry' = 0
  BY TriesAssumption DEF ClearConnection
<1>2. reclaims' \in 0 .. Reclaims
  BY TriesAssumption DEF IInv, TypeOK, ClearConnection, EndEpisodeUnlessOurs
<1>3. due' \in BOOLEAN /\ ours' \in BOOLEAN /\ DueInTime'
  BY DEF IInv, TypeOK, ClearConnection, EndEpisodeUnlessOurs, DueInTime
<1>4. csc' = FALSE /\ replugged' = FALSE /\ hub' \in {"idle", "reset"}
  BY DEF ClearConnection
<1>5. TypeOK'
  BY <1>1, <1>2, <1>3, <1>4 DEF IInv, TypeOK
<1>6. InStep'
  BY <1>1, <1>4 DEF InStep
<1>7. Served'
  BY DEF Served, Connected
<1> QED
  BY <1>3, <1>5, <1>6, <1>7 DEF IInv

LEMMA HubStep == ASSUME IInv, Hub PROVE IInv'
<1>1. CASE HubConnectChange
  BY <1>1, Cleared DEF HubConnectChange
<1>2. CASE StatusChanged
  BY <1>2, Cleared DEF StatusChanged
<1>3. CASE PortReset
  <2>1. hubTry' \in 0 .. HubTries /\ hubTry' <= tries + 1 /\ tries' = tries
    BY <1>3, TriesAssumption DEF PortReset, IInv, TypeOK, InStep, fsVars
  <2>2. hub' = "status" /\ enabled' = FALSE
    BY <1>3 DEF PortReset
  <2>3. TypeOK'
    BY <1>3, <2>1, <2>2 DEF PortReset, IInv, TypeOK, fsVars
  <2>4. InStep' /\ Served'
    BY <2>1, <2>2 DEF InStep, Served
  <2> QED
    BY <1>3, <2>3, <2>4 DEF PortReset, IInv, DueInTime, fsVars
<1>4. CASE StatusGone
  <2>1. tries' \in 0 .. Tries - 1
    BY <1>4, TriesAssumption DEF StatusGone
  <2> QED
    BY <1>4, <2>1 DEF StatusGone, HubDone, IInv, TypeOK, InStep, DueInTime, Served, Connected
<1>5. CASE StatusHighSpeed
  <2>1. tries' \in 0 .. Tries - 1 /\ reclaims' \in 0 .. Reclaims
    BY <1>5, TriesAssumption DEF StatusHighSpeed
  <2>2. DueInTime'
    BY <1>5, TriesAssumption DEF StatusHighSpeed, IInv, TypeOK, DueInTime
  <2> QED
    BY <1>5, <2>1, <2>2 DEF StatusHighSpeed, HubDone, IInv, TypeOK, InStep, Served
<1>6. CASE StatusRetry
  <2>1. tries' \in 0 .. Tries - 1 /\ tries' = tries + 1 /\ hubTry <= tries + 1
    BY <1>6, TriesAssumption DEF StatusRetry, Retries, NoChirp, IInv, TypeOK, InStep
  <2>2. hubTry < HubTries
    BY <1>6, <2>1, TriesAssumption DEF IInv, TypeOK
  <2>3. hub' = "reset" /\ hubTry' = hubTry
    BY <1>6, <2>2 DEF StatusRetry, HubAgain
  <2>4. TypeOK'
    BY <1>6, <2>1, <2>3 DEF StatusRetry, IInv, TypeOK
  <2>5. InStep' /\ Served'
    BY <2>1, <2>3 DEF InStep, Served
  <2> QED
    BY <1>6, <2>4, <2>5 DEF StatusRetry, IInv, DueInTime
<1>7. CASE StatusHandoff
  <2>1. PICK spent \in 0 .. Reclaims :
          /\ spent = (IF old THEN 0 ELSE reclaims)
          /\ reclaims' = spent
          /\ due' = (due \/ MayReclaim(spent))
          /\ work' = IF MayReclaim(spent) /\ work = "no" THEN "pending" ELSE work
    BY <1>7, TriesAssumption DEF StatusHandoff, HandoffDone, IInv, TypeOK
  <2>2. MayReclaim(spent) \in BOOLEAN
    BY DEF MayReclaim
  <2>3. due' \in BOOLEAN /\ work' \in {"no", "pending", "read"}
    BY <2>1, <2>2 DEF IInv, TypeOK
  <2>4. due' => spent < Reclaims
    BY <2>1, TriesAssumption DEF IInv, TypeOK, DueInTime, MayReclaim
  <2>5. tries' \in 0 .. Tries - 1 /\ old' = FALSE /\ ours' \in BOOLEAN
    BY <1>7, TriesAssumption DEF StatusHandoff, HandoffDone, IInv, TypeOK
  <2>6. hub' = "idle" /\ hubTry' = hubTry /\ owner' = "companion"
    BY <1>7 DEF StatusHandoff, HubDone
  <2>7. TypeOK'
    BY <1>7, <2>1, <2>3, <2>5, <2>6 DEF StatusHandoff, IInv, TypeOK
  <2>8. InStep' /\ Served'
    BY <2>6 DEF InStep, Served, Connected
  <2> QED
    BY <2>1, <2>4, <2>7, <2>8 DEF IInv, DueInTime
<1> QED
  BY <1>1, <1>2, <1>3, <1>4, <1>5, <1>6, <1>7 DEF Hub

LEMMA WorkStep == ASSUME IInv, Work PROVE IInv'
<1>1. CASE ReclaimRead
  <2>1. reclaims' \in 0 .. Reclaims
    BY <1>1, TriesAssumption DEF ReclaimRead, IInv, TypeOK, DueInTime
  <2>2. due' = FALSE /\ ours' \in BOOLEAN /\ work' \in {"no", "pending", "read"}
    BY <1>1 DEF ReclaimRead, IInv, TypeOK
  <2> QED
    BY <1>1, <2>1, <2>2
    DEF ReclaimRead, IInv, TypeOK, InStep, DueInTime, Served, Connected, hubVars
<1>2. CASE ReclaimWrite
  <2>1. visit' \in 0 .. Reclaims + 1
    BY <1>2, TriesAssumption DEF ReclaimWrite, IInv, TypeOK
  <2>2. csc' \in BOOLEAN /\ owner' \in {"ehci", "companion"} /\ work' = "no"
    BY <1>2 DEF ReclaimWrite, TakeBack
  <2>3. TypeOK'
    BY <1>2, <2>1, <2>2 DEF ReclaimWrite, IInv, TypeOK, hubVars
  <2>4. Served'
    BY <1>2 DEF ReclaimWrite, TakeBack, IInv, TypeOK, Served, Connected, hubVars
  <2> QED
    BY <1>2, <2>3, <2>4 DEF ReclaimWrite, IInv, InStep, DueInTime, hubVars
<1> QED
  BY <1>1, <1>2 DEF Work

LEMMA IInvStep == IInv /\ [Next]_vars => IInv'
<1> SUFFICES ASSUME IInv, [Next]_vars PROVE IInv'
  OBVIOUS
<1>1. CASE UNCHANGED vars
  BY <1>1 DEF vars, hubVars, fsVars, IInv, TypeOK, InStep, DueInTime, Served, Connected
<1> QED
  BY <1>1, HubStep, WorkStep, WorldStep DEF Next

(***************************************************************************)
(* Type correctness: the counters of the driver and of the hub driver stay *)
(* within their limits.                                                    *)
(***************************************************************************)
THEOREM Typing == Spec => []TypeOK
<1>1. IInv => TypeOK
  BY DEF IInv
<1> QED
  BY <1>1, InitIInv, IInvStep, PTL DEF Spec

(***************************************************************************)
(* The hub driver never gives up on a connected port: whenever it is done  *)
(* with one, the device runs at high speed or belongs to the companion.    *)
(***************************************************************************)
THEOREM PortIsServed == Spec => []NoDeadPort
<1>1. IInv => NoDeadPort
  BY DEF IInv, Served, NoDeadPort
<1> QED
  BY <1>1, InitIInv, IInvStep, PTL DEF Spec

-----------------------------------------------------------------------------
(***************************************************************************)
(* The reclaims of a visit.  The driver counts them per episode, and an    *)
(* episode ends in more ways than a visit: after a success, after half a   *)
(* minute, at a connect change that is not the reclaim's own.  In each the *)
(* count drops to zero; the visit's must not lead it then, unless no       *)
(* further handoff can come in this visit.                                 *)
(***************************************************************************)
Round == csc \/ hub # "idle"

VisitInv ==
  /\ visit \in 0 .. Reclaims
  /\ old => work = "no"
  /\ work = "read" => ours /\ visit + 1 <= reclaims
  /\ owner = "companion" => dev # "none"
  /\ dev # "none" /\ csc /\ ~ours => visit = 0
  /\ dev # "none" /\ (Round \/ owner = "companion") => visit <= reclaims
  /\ dev # "none" /\ Round /\ old => visit = 0

LEMMA InitVisit == Init => VisitInv
<1> SUFFICES ASSUME Init PROVE VisitInv
  OBVIOUS
<1>1. visit \in 0 .. Reclaims
  BY TriesAssumption DEF Init
<1> QED
  BY <1>1 DEF Init, VisitInv, Round

LEMMA WorldVisit == ASSUME IInv, VisitInv, World PROVE VisitInv'
<1>1. CASE Unplug
  BY <1>1 DEF Unplug, VisitInv, Round, fsVars
<1>2. CASE WatchReady
  BY <1>2 DEF WatchReady, VisitInv, Round, hubVars, fsVars
<1>3. CASE EpisodeExpires
  BY <1>3 DEF EpisodeExpires, VisitInv, Round, hubVars
<1>4. ASSUME NEW kind \in {"high", "busy", "full"}, Plug(kind) PROVE VisitInv'
  <2>1. visit' = 0 /\ visit' \in 0 .. Reclaims /\ visit' <= reclaims
    BY <1>4, TriesAssumption DEF Plug, IInv, TypeOK
  <2>2. work = "read" => visit' + 1 <= reclaims
    BY <2>1, TriesAssumption DEF VisitInv, IInv, TypeOK
  <2> QED
    BY <1>4, <2>1, <2>2 DEF Plug, VisitInv, fsVars
<1> QED
  BY <1>1, <1>2, <1>3, <1>4 DEF World

LEMMA ClearedVisit ==
  ASSUME IInv, VisitInv, ClearConnection, csc, Unlocked,
         hub' = IF Connected THEN "reset" ELSE "idle",
         UNCHANGED <<dev, owner, enabled, work, old, plugs, visit>>
  PROVE  VisitInv'
<1>1. csc' = FALSE /\ work # "read"
  BY DEF ClearConnection, Unlocked
<1>2. reclaims' = reclaims \/ (reclaims' = 0 /\ ~ours)
  BY DEF ClearConnection, EndEpisodeUnlessOurs
<1>3. dev # "none" => visit <= reclaims'
  BY <1>2 DEF VisitInv, Round
<1> QED
  BY <1>1, <1>3 DEF VisitInv, Round

LEMMA HubVisit == ASSUME IInv, VisitInv, Hub PROVE VisitInv'
<1>1. CASE HubConnectChange
  BY <1>1, ClearedVisit DEF HubConnectChange, Hub
<1>2. CASE StatusChanged
  BY <1>2, ClearedVisit DEF StatusChanged, Hub
<1>3. CASE PortReset
  BY <1>3 DEF PortReset, VisitInv, Round, fsVars
<1>4. CASE StatusGone
  BY <1>4 DEF StatusGone, HubDone, VisitInv, Round
<1>5. CASE StatusHighSpeed
  <2>1. csc' = FALSE /\ hub' = "idle" /\ owner' = "ehci" /\ work # "read"
    BY <1>5 DEF StatusHighSpeed, HubDone, Connected, Hub, Unlocked
  <2> QED
    BY <1>5, <2>1 DEF StatusHighSpeed, VisitInv, Round
<1>6. CASE StatusRetry
  <2>1. csc = FALSE /\ csc' = FALSE /\ hub = "status"
    BY <1>6 DEF StatusRetry, Retries, NoChirp, IInv, TypeOK
  <2> QED
    BY <1>6, <2>1 DEF StatusRetry, VisitInv, Round
<1>7. CASE StatusHandoff
  <2>1. hub = "status" /\ dev # "none" /\ ~csc /\ work # "read"
    BY <1>7 DEF StatusHandoff, NoChirp, Connected, Hub, Unlocked
  <2>2. reclaims' = (IF old THEN 0 ELSE reclaims) /\ old' = FALSE
    BY <1>7 DEF StatusHandoff, HandoffDone
  <2>3. visit <= reclaims'
    BY <2>1, <2>2 DEF VisitInv, Round
  <2>4. work' # "read"
    BY <1>7, <2>1 DEF StatusHandoff, HandoffDone
  <2>5. csc' = csc /\ hub' = "idle" /\ dev' = dev /\ visit' = visit
    BY <1>7 DEF StatusHandoff, HubDone
  <2> QED
    BY <2>1, <2>2, <2>3, <2>4, <2>5 DEF VisitInv, Round
<1> QED
  BY <1>1, <1>2, <1>3, <1>4, <1>5, <1>6, <1>7 DEF Hub

LEMMA WorkVisit == ASSUME IInv, VisitInv, Work PROVE VisitInv'
<1>1. CASE ReclaimRead
  <2>1. CASE due /\ owner = "companion"
    <3>1. reclaims' = reclaims + 1 /\ ours' = TRUE /\ work' = "read" /\ ~old
      BY <1>1, <2>1 DEF ReclaimRead, VisitInv
    <3>2. dev # "none" /\ visit <= reclaims
      BY <2>1 DEF VisitInv
    <3>3. visit + 1 <= reclaims' /\ visit <= reclaims'
      BY <3>1, <3>2 DEF VisitInv, IInv, TypeOK
    <3> QED
      BY <1>1, <3>1, <3>3 DEF ReclaimRead, VisitInv, Round
  <2>2. CASE ~(due /\ owner = "companion")
    BY <1>1, <2>2 DEF ReclaimRead, VisitInv, Round, hubVars
  <2> QED
    BY <2>1, <2>2
<1>2. CASE ReclaimWrite
  <2>1. visit \in 0 .. Reclaims /\ reclaims \in 0 .. Reclaims /\ visit + 1 <= reclaims
    BY <1>2 DEF ReclaimWrite, VisitInv, IInv, TypeOK
  <2>2. work' = "no" /\ owner' = "ehci" /\ ours /\ ~old
    BY <1>2 DEF ReclaimWrite, TakeBack, VisitInv
  <2>3. visit' = IF visit > Reclaims THEN visit ELSE visit + 1
    BY <1>2 DEF ReclaimWrite
  <2>4. ~ visit > Reclaims /\ visit + 1 \in 0 .. Reclaims
    BY <2>1, TriesAssumption
  <2>5. visit' = visit + 1 /\ visit' <= reclaims /\ visit' \in 0 .. Reclaims
    BY <2>1, <2>3, <2>4
  <2> QED
    BY <1>2, <2>2, <2>5 DEF ReclaimWrite, VisitInv
<1> QED
  BY <1>1, <1>2 DEF Work

LEMMA VisitStep == IInv /\ VisitInv /\ [Next]_vars => VisitInv'
<1> SUFFICES ASSUME IInv, VisitInv, [Next]_vars PROVE VisitInv'
  OBVIOUS
<1>1. CASE UNCHANGED vars
  BY <1>1 DEF vars, hubVars, fsVars, VisitInv, Round
<1> QED
  BY <1>1, HubVisit, WorkVisit, WorldVisit DEF Next

(***************************************************************************)
(* A device is torn off the companion at most EHCI_FS_RECLAIMS times for   *)
(* each time it is plugged in.                                             *)
(***************************************************************************)
THEOREM ReclaimsAreBounded == Spec => []ReclaimsPerVisit
<1>1. VisitInv => ReclaimsPerVisit
  BY TriesAssumption DEF VisitInv, ReclaimsPerVisit
<1> QED
  BY <1>1, InitIInv, IInvStep, InitVisit, VisitStep, PTL DEF Spec
=============================================================================
