----------------------------- MODULE HostTools -----------------------------
(***************************************************************************)
(* The Mac runs one tool at a time: a console script (Sessions) or one of  *)
(* the tools for the bare-metal firmware (RigSoak).  Each step of one      *)
(* leaves the other's state alone.                                         *)
(***************************************************************************)
EXTENDS Sessions, RigSoak

StartUp == Init /\ RigInit(program = "none")

Same == UNCHANGED rigVars
Script ==
  \/ (Type /\ Same) \/ (Sanity /\ Same) \/ (Remove /\ Same) \/ (Quiet /\ Same)
  \/ (SendChunk /\ Same) \/ (Loud /\ Same) \/ (ShowSum /\ Same) \/ (Login /\ Same)
  \/ (Before /\ Same) \/ (Install /\ Same) \/ (Kill /\ Same) \/ (After /\ Same) \/ (Rerun /\ Same)
  \/ (Shell /\ Same) \/ (AskRow /\ Same) \/ (CatchPrompt /\ Same) \/ (BootText /\ Same)
  \/ (Kick /\ Same) \/ (Watch /\ Same) \/ (Follow /\ Same) \/ (Summary /\ Same)
  \/ (OpenShell /\ Same) \/ (List /\ Same) \/ (Copy /\ Same) \/ (ClearRecords /\ Same)
Appliance ==
  \/ (Looks /\ Same) \/ (RemovesFile /\ Same) \/ (AppendsChunk /\ Same) \/ (Installs /\ Same)
  \/ (Kills /\ Same) \/ (RemovesRecords /\ Same) \/ (Respawns /\ Same) \/ (ProxyDies /\ Same)

Away == UNCHANGED vars
Soaking ==
  \/ (RigStart /\ Away) \/ (RebootBoard /\ Away) \/ (Fel /\ Away) \/ (WaitConsole /\ Away)
  \/ (Prompt /\ Away) \/ (Status /\ Away) \/ (Look /\ Away) \/ (Unwedge /\ Away)
  \/ (LookAgain /\ Away) \/ (Verdict /\ Away) \/ (Idle /\ Away)
Transfers ==
  \/ (Seed /\ Away) \/ (StartTransfer /\ Away)
  \/ (\E t \in {"push", "pull"} : Begin(t) /\ Away) \/ (\E t \in {"push", "pull"} : End(t) /\ Away)
  \/ (GradeConcurrent /\ Away) \/ (SumPushed /\ Away) \/ (GradeBench /\ Away) \/ (Trace /\ Away)
FastbootCycle ==
  \/ (ToBootloader /\ Away) \/ (WaitFastboot /\ Away) \/ (GetVars /\ Away)
  \/ (Leave /\ Away) \/ (LeaveImage /\ Away) \/ (WaitBack /\ Away)
World ==
  \/ (BoardBoots /\ Away) \/ (BoardDies /\ Away) \/ (WatchMoves /\ Away) \/ (WatchResets /\ Away)

Over == Finished /\ at \in {"off", "over"} /\ Same

Next ==
  \/ Script \/ Appliance \/ Over
  \/ Soaking \/ Transfers \/ FastbootCycle \/ World

Spec == StartUp /\ [][Next]_<<vars, rigVars>>

-----------------------------------------------------------------------------
(* The type invariant of both kinds of tools.                              *)
ToolsTypeOK == TypeOK /\ RigTypeOK
=============================================================================
