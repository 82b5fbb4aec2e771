------------------------------ MODULE Workspace ------------------------------
(***************************************************************************)
(* What the server keeps in a workspace besides its stores of runs: the    *)
(* files it publishes, its index, and the settings of providers.           *)
(*                                                                         *)
(* The index is read from the files; a published file is a change of the   *)
(* workspace.  A restart of the server ends what the index and the         *)
(* settings hold in memory; writers of files die one by one.               *)
(***************************************************************************)
EXTENDS WorkspaceFiles, ProviderSettings, WorkspaceIndex

workspace == <<files, settings, index>>

WorkspaceInit == FilesInit /\ SettingsInit /\ IndexInit

Restart ==
  /\ Reopen
  /\ \E fromFile \in BOOLEAN : Launch(fromFile)
  /\ UNCHANGED files

WorkspaceNext ==
  \/ FilesNext /\ UNCHANGED <<settings, index>>
  \/ SettingsNext /\ UNCHANGED <<files, index>>
  \/ IndexNext /\ UNCHANGED <<files, settings>>
  \/ Restart

WorkspaceSpec == WorkspaceInit /\ [][WorkspaceNext]_workspace
=============================================================================
