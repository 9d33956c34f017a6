----------------------------- MODULE MCServer -------------------------------
(***************************************************************************)
(* The server process, for TLC: its requests, its start and stop, the      *)
(* Janitor process it starts, the disks it mounts and the notifications it *)
(* sends.  `part' says which of them is looked at in a behaviour; the      *)
(* others stay in one initial state.                                       *)
(***************************************************************************)
EXTENDS MCNgamsServer, Janitor, Startup, Disks, Notification

CONSTANTS
    d1, d2, d3, h1, h2

VARIABLE part

Parts ==
    {"requests", "janitor", "startup", "disks", "notification"}

lifeVars ==
    <<part,
      vars, jVars, stVars, dkVars, nfVars>>

\* A part that is not looked at has one fixed initial state.
LifeInit ==
    /\ part \in Parts
    /\ Init
    /\ (part = "janitor" \/ (work = "requests" /\ backend = "memory")) /\ JInit
    /\ StInit
    /\ DkInit /\ dkAt[d1] = <<h1, "M">> /\ dkAt[d2] = <<h1, "R">>
    /\ NfInit

NgamsServerPart ==
    /\ part = "requests" /\ Next
    /\ UNCHANGED <<part, jVars, stVars, dkVars, nfVars>>

JanitorPart ==
    /\ part = "janitor" /\ JNext
    /\ UNCHANGED <<part, vars, stVars, dkVars, nfVars>>

StartupPart ==
    /\ part = "startup" /\ StNext
    /\ UNCHANGED <<part, vars, jVars, dkVars, nfVars>>

DisksPart ==
    /\ part = "disks" /\ DkNext
    /\ UNCHANGED <<part, vars, jVars, stVars, nfVars>>

NotificationPart ==
    /\ part = "notification" /\ NfNext
    /\ UNCHANGED <<part, vars, jVars, stVars, dkVars>>

LifeNext ==
    \/ NgamsServerPart \/ JanitorPart \/ StartupPart \/ DisksPart \/ NotificationPart

LifeSpec == LifeInit /\ [][LifeNext]_lifeVars

\* Temporary files in use stay, and completed disks stay completed.
NothingTakenBack == TempFileKept /\ CompletedStays

=============================================================================
