---------------------------- MODULE EhciHandoff ----------------------------
(***************************************************************************)
(* Who serves the host port: EHCI at high speed or its OHCI companion at   *)
(* full speed.  A watch that is re-running its gadget setup misses the     *)
(* chirp of a reset, so EHCI retries the reset, hands the port over after  *)
(* the last retry, and takes it back a second later for another round, a   *)
(* few times per episode.  A physical unplug ends the episode; the connect *)
(* change a reclaim itself produces must not.                              *)
(*                                                                         *)
(* Source: kernel patch 0012.  The SoC's EHCI has one root port, so the    *)
(* per-port arrays are plain variables.  The hub driver around the patched *)
(* functions is the stock kernel's, external here: it answers a connect    *)
(* change with up to PORT_RESET_TRIES resets.  A handoff raises no connect *)
(* change (the rounds the patch's text reports could not happen            *)
(* otherwise), and a device leaving the companion returns the port to      *)
(* EHCI.  The root hub is running whenever the work runs, which first      *)
(* resumes it; ehci_stop and suspend are left out.                         *)
(***************************************************************************)
EXTENDS Naturals

CONSTANTS
  Tries,       \* EHCI_FS_HANDOFF_TRIES: resets before a handoff
  Reclaims,    \* EHCI_FS_RECLAIMS: reclaims per episode
  HubTries,    \* PORT_RESET_TRIES of the hub driver
  MaxPlugs     \* how often somebody touches the cable

ASSUME TriesAssumption ==
  /\ Tries \in Nat \ {0} /\ Reclaims \in Nat /\ HubTries \in Nat /\ MaxPlugs \in Nat
  /\ Tries < HubTries   \* the patch: "so this must stay below that"

VARIABLES
  dev,       \* what is attached: "none", "high", "busy" (high speed, but deaf), "full"
  owner,     \* PORT_OWNER: "ehci" or "companion"
  csc,       \* EHCI's connect status change, not yet cleared by the hub driver
  enabled,   \* PORT_PE: the device answered the chirp
  hub,       \* the hub driver: "idle", about to "reset", or waiting for "status"
  hubTry,    \* resets it has done for this connect
  tries,     \* fs_handoff_tries
  reclaims,  \* fs_reclaims
  due,       \* fs_reclaim_ports: a reclaim is wanted
  ours,      \* fs_reclaimed_ports: the next connect change is the reclaim's
  work,      \* fs_reclaim_work: "no", "pending", or "read" (between read and write)
  old,       \* the last handoff is more than EHCI_FS_EPISODE_MS ago
  plugs,     \* budget
  visit,     \* history: reclaims since the device was attached, counted up to Reclaims + 1
  replugged  \* history: attached since the hub driver last cleared the change

hubVars == <<hub, hubTry>>
fsVars  == <<tries, reclaims, due, ours, work, old>>
vars    == <<dev, owner, csc, enabled, hubVars, fsVars, plugs, visit, replugged>>

Init ==
  /\ dev = "none" /\ owner = "ehci" /\ csc = FALSE /\ enabled = FALSE
  /\ hub = "idle" /\ hubTry = 0
  /\ tries = 0 /\ reclaims = 0 /\ due = FALSE /\ ours = FALSE
  /\ work = "no" /\ old = TRUE
  /\ plugs = MaxPlugs /\ visit = 0 /\ replugged = FALSE

Connected == dev # "none" /\ owner = "ehci"

(***************************************************************************)
(* The cable and the watch.                                                *)
(***************************************************************************)
Plug(kind) ==
  /\ dev = "none" /\ plugs > 0
  /\ dev' = kind /\ csc' = TRUE
  /\ plugs' = plugs - 1 /\ visit' = 0 /\ replugged' = TRUE
  /\ UNCHANGED <<owner, enabled, hubVars, fsVars>>

Unplug ==
  /\ dev # "none"
  /\ dev' = "none" /\ owner' = "ehci" /\ enabled' = FALSE
  /\ csc' = (csc \/ owner = "ehci")
  /\ UNCHANGED <<hubVars, fsVars, plugs, visit, replugged>>

\* The watch is done with its gadget setup and hears the next chirp.
WatchReady ==
  /\ dev = "busy"
  /\ dev' = "high"
  /\ UNCHANGED <<owner, csc, enabled, hubVars, fsVars, plugs, visit, replugged>>

(***************************************************************************)
(* ehci_hub_control, C_CONNECTION: a change that is not the reclaim's own  *)
(* ends the episode.                                                       *)
(***************************************************************************)
\* Mutant: the reclaim's own change ends the episode too.
AlwaysEnds  == reclaims' = 0 /\ due' = FALSE /\ UNCHANGED ours
EndEpisodeUnlessOurs ==
  IF ours THEN ours' = FALSE /\ UNCHANGED <<reclaims, due>>
          ELSE reclaims' = 0 /\ due' = FALSE /\ UNCHANGED ours

ClearConnection ==
  /\ csc' = FALSE
  /\ tries' = 0
  /\ EndEpisodeUnlessOurs
  /\ replugged' = FALSE

HubConnectChange ==
  /\ hub = "idle" /\ csc
  /\ ClearConnection
  /\ hub' = IF Connected THEN "reset" ELSE "idle"
  /\ hubTry' = 0
  /\ UNCHANGED <<dev, owner, enabled, work, old, plugs, visit>>

(***************************************************************************)
(* SetPortFeature(RESET), whatever the line state shows.                   *)
(***************************************************************************)
PortReset ==
  /\ hub = "reset"
  /\ enabled' = FALSE
  /\ hub' = "status" /\ hubTry' = hubTry + 1
  /\ UNCHANGED <<dev, owner, csc, fsVars, plugs, visit, replugged>>

(***************************************************************************)
(* GetPortStatus after a reset: check_reset_complete.                      *)
(***************************************************************************)
HubAgain == hub' = (IF hubTry < HubTries THEN "reset" ELSE "idle") /\ UNCHANGED hubTry
HubDone  == hub' = "idle" /\ UNCHANGED hubTry

\* The wait finds a new connect change: it is cleared and the loop starts over
\* (hub_port_connect gives a port that failed this way another hub_port_init).
StatusChanged ==
  /\ hub = "status" /\ csc
  /\ ClearConnection
  /\ hub' = IF Connected THEN "reset" ELSE "idle"
  /\ hubTry' = 0
  /\ UNCHANGED <<dev, owner, enabled, work, old, plugs, visit>>

StatusGone ==
  /\ hub = "status" /\ ~csc /\ ~Connected
  /\ tries' = 0
  /\ HubDone
  /\ UNCHANGED <<dev, owner, csc, enabled, reclaims, due, ours, work, old, plugs, visit,
                 replugged>>

StatusHighSpeed ==
  /\ hub = "status" /\ ~csc /\ Connected /\ dev = "high"
  /\ enabled' = TRUE
  /\ tries' = 0 /\ reclaims' = 0
  /\ HubDone
  /\ UNCHANGED <<dev, owner, csc, due, ours, work, old, plugs, visit, replugged>>

NoChirp == hub = "status" /\ ~csc /\ Connected /\ dev # "high"

\* Mutant: a missed chirp is never counted as the last one.
RetryForever == NoChirp
Retries == NoChirp /\ tries + 1 < Tries

StatusRetry ==
  /\ Retries
  /\ tries' = tries + 1
  /\ HubAgain
  /\ UNCHANGED <<dev, owner, csc, enabled, reclaims, due, ours, work, old, plugs, visit,
                 replugged>>

\* ehci_fs_handoff_done.  schedule_delayed_work leaves pending work as it is.
\* Mutant: the bound on the reclaims is off.
Unbounded(spent) == TRUE
MayReclaim(spent) == spent < Reclaims
HandoffDone ==
  LET spent == IF old THEN 0 ELSE reclaims IN
  /\ reclaims' = spent
  /\ ours' = (ours /\ ~old)
  /\ old' = FALSE
  /\ tries' = 0
  /\ due' = (due \/ MayReclaim(spent))
  /\ work' = IF MayReclaim(spent) /\ work = "no" THEN "pending" ELSE work

StatusHandoff ==
  /\ NoChirp /\ ~Retries
  /\ HandoffDone
  /\ owner' = "companion"
  /\ HubDone
  /\ UNCHANGED <<dev, csc, enabled, plugs, visit, replugged>>

(***************************************************************************)
(* ehci_fs_reclaim_work, a second after a handoff.  It holds ehci->lock,   *)
(* but the port register belongs to the hardware: the cable may come out   *)
(* between the read of PORT_OWNER and the write.                           *)
(***************************************************************************)
ReclaimRead ==
  /\ work = "pending"
  /\ due' = FALSE
  /\ IF due /\ owner = "companion"
     THEN reclaims' = reclaims + 1 /\ ours' = TRUE /\ work' = "read"
     ELSE work' = "no" /\ UNCHANGED <<reclaims, ours>>
  /\ UNCHANGED <<dev, owner, csc, enabled, hubVars, tries, old, plugs, visit, replugged>>

\* Mutant: the register is written back as it was read.
WriteBackStatus == UNCHANGED owner
TakeBack == owner' = "ehci"

ReclaimWrite ==
  /\ work = "read"
  /\ work' = "no"
  /\ TakeBack
  /\ csc' = (csc \/ (dev # "none" /\ owner = "companion"))
  /\ visit' = IF visit > Reclaims THEN visit ELSE visit + 1
  /\ UNCHANGED <<dev, enabled, hubVars, tries, reclaims, due, ours, old, plugs, replugged>>

\* Half a minute without a handoff; a round takes far less.
EpisodeExpires ==
  /\ ~old /\ work = "no" /\ hub = "idle" /\ ~csc
  /\ old' = TRUE
  /\ UNCHANGED <<dev, owner, csc, enabled, hubVars, tries, reclaims, due, ours, work,
                 plugs, visit, replugged>>

\* ehci->lock is held from ReclaimRead to ReclaimWrite.
Unlocked == work # "read"

Hub == /\ Unlocked
       /\ \/ HubConnectChange \/ PortReset
          \/ StatusChanged \/ StatusGone \/ StatusHighSpeed \/ StatusRetry \/ StatusHandoff
Work == ReclaimRead \/ ReclaimWrite
World == Unplug \/ WatchReady \/ EpisodeExpires
         \/ \E kind \in {"high", "busy", "full"} : Plug(kind)

Next == Hub \/ Work \/ World
Spec == Init /\ [][Next]_vars

(***************************************************************************)
(* The hub thread and the work queue run; cables and watches need not do   *)
(* anything.                                                               *)
(***************************************************************************)
FairSpec == Spec /\ WF_vars(Hub) /\ WF_vars(Work)

----------------------------------------------------------------------------
TypeOK ==
  /\ dev \in {"none", "high", "busy", "full"}
  /\ owner \in {"ehci", "companion"}
  /\ csc \in BOOLEAN /\ enabled \in BOOLEAN /\ due \in BOOLEAN
  /\ ours \in BOOLEAN /\ old \in BOOLEAN /\ replugged \in BOOLEAN
  /\ hub \in {"idle", "reset", "status"} /\ hubTry \in 0 .. HubTries
  /\ tries \in 0 .. Tries - 1
  /\ reclaims \in 0 .. Reclaims
  /\ work \in {"no", "pending", "read"}
  /\ plugs \in 0 .. MaxPlugs /\ visit \in 0 .. Reclaims + 1

(***************************************************************************)
(* A device is torn off the companion at most EHCI_FS_RECLAIMS times for   *)
(* each time it is plugged in, however hub driver, reclaims and cable      *)
(* interleave.                                                             *)
(***************************************************************************)
ReclaimsPerVisit == visit <= Reclaims

(***************************************************************************)
(* The retries fit into the hub driver's loop: it never gives up on a      *)
(* connected port, leaving the device with neither controller.             *)
(***************************************************************************)
NoDeadPort == hub = "idle" /\ Connected /\ ~csc /\ work # "read" => enabled

\* A device that cannot chirp ends up with the companion and stays there.
FullSpeedSettles == <>[](dev = "full") => <>[](owner = "companion")

(***************************************************************************)
(* A watch that is ready before the last reclaim of the episode runs ends  *)
(* up at high speed (or is unplugged).                                     *)
(***************************************************************************)
StillHasAChance == dev = "high" /\ (owner = "ehci" \/ (due /\ work = "pending"))
ReadyInTimeIsHighSpeed == StillHasAChance ~> (enabled \/ dev = "none")

(***************************************************************************)
(* The patch's own words: "A real unplug or replug ends the episode and    *)
(* cancels a pending reclaim".                                             *)
(***************************************************************************)
ReplugEndsEpisode == [][replugged /\ ~replugged' => reclaims' = 0 /\ ~due']_vars
=============================================================================
