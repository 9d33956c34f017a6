----------------------------- MODULE MCServices -----------------------------
(***************************************************************************)
(* The services and tools that share nothing but the archive itself, in    *)
(* one model: `part' says which of them is looked at in a behaviour; the   *)
(* others stay in one initial state.                                       *)
(***************************************************************************)
EXTENDS Database, Config, XmlConfig, DataObjects, Snapshot, Cluster, Containers, Multipart,
        MirrorQueue, XSync, AsyncRetrieve, RtsJobs, FileMonitor, ClientRequests,
        Registration, Listing, Compression, ArchiveTool, TLC

CONSTANTS
    c1, c2, h1, h2, d1, d2, cl1, cl2, cl3, cf1, cf2, s1, s2, af1, af2, ag1, ag2, rf1, rf2, rh1,
    rh2, pf1, pf2, e1, a1, pw, v1

\* Database: each thread belongs to one of two servers.
HostOf == (c1 :> h1) @@ (c2 :> h2)

\* XmlConfig: no element; a password; None; as many elements as have an index of two digits.
XmlElement(attrs) == [name |-> e1, attrs |-> attrs]
SomeXml ==
    {<<>>, <<XmlElement(pw :> v1)>>, <<XmlElement((a1 :> XNull) @@ (pw :> XNull)), XmlElement(<<>>)>>,
     <<XmlElement(a1 :> v1), XmlElement(<<>>), XmlElement(a1 :> XNull)>>}

\* DataObjects: an object with usual values.
UsualObject == [f \in Names(kind) |-> Usual(Fields[kind][f][2])]

\* Cluster: two hosts have the first version, the third the second one.
OneRow == (cl1 :> 1) @@ (cl2 :> 1) @@ (cl3 :> 2)
SomeRows == {OneRow}

\* Containers: files of different sizes.
CoSizes == (cf1 :> 1) @@ (cf2 :> 2)

\* Multipart: a container in a container between files of several lengths, the empty one
\* included, three containers in each other, and an empty container.
SomeDocs ==
    {<<MpOpen(1), MpFile(1, n), MpOpen(2), MpFile(2, k), MpClose(2), MpFile(3, 1), MpClose(1)>> : n \in 0..3, k \in 1..6}
    \cup {<<MpOpen(1), MpOpen(2), MpOpen(3), MpFile(1, 2), MpClose(3), MpClose(2), MpClose(1)>>, <<MpOpen(1), MpClose(1)>>}

\* AsyncRetrieve: a session asks for a file that is archived and for two that are not.
Want == (s1 :> {af1, ag1, ag2}) @@ (s2 :> {af2})

\* RtsJobs: two tasks with a file each, one of which is archived.
TaskFiles == <<{rf1}, {rf2}>>
SomeStored == {<<rf1, rh1>>}

\* Registration: two of the paths have the same File ID.
PathIds == <<"x", "x", "y">>

\* Compression: an observation with files on two hosts.
OneObs == (pf1 :> 1) @@ (pf2 :> 1)
TwoHosts == (pf1 :> h1) @@ (pf2 :> h2)

VARIABLE part

Parts ==
    {"database", "configuration", "xml", "objects", "snapshot", "cluster", "containers",
     "multipart", "mirrorqueue", "xsync", "asyncretrieve", "rtsjobs", "filemonitor",
     "clientrequests", "registration", "listing", "compression", "archivetool"}

vars ==
    <<part,
      dbVars, cfgVars, xVars, objVars, snVars, clVars, coVars, mpVars, mqVars, xsVars, alVars,
      rjVars, fmVars, crVars, rgVars, lsVars, cpVars, atVars>>

\* A part that is not looked at has one fixed initial state.
Init ==
    /\ part \in Parts
    /\ DbInit /\ nd[d1] # DbNone /\ nd[d1].host = h1
    /\ CfgInit
    /\ (part = "xml" \/ (file = <<>>)) /\ XInit
    /\ (part = "objects" \/ (kind = "Subscriber" /\ field = "HostId" /\ orig = UsualObject)) /\ ObjInit
    /\ SnInit
    /\ (part = "cluster" \/ (clCfg = [proxy |-> FALSE, partner |-> "available", check |-> TRUE] /\ clRow = OneRow /\ clDisk = {cl3})) /\ ClInit /\ cl2 \notin clDisk /\ cl3 \in clDisk
    /\ CoInit
    /\ (part = "multipart" \/ (mpDoc = <<MpOpen(1), MpClose(1)>> /\ mpBlock = 1 /\ mpSent = <<>>)) /\ MpInit
    /\ MqInit
    /\ XsInit
    /\ AlInit
    /\ RjInit
    /\ FmInit
    /\ (part = "clientrequests" \/ (crCmd = "OFFLINE" /\ crOpts = {})) /\ CrInit
    /\ RgInit
    /\ LsInit
    /\ CpInit
    /\ AtInit

DatabasePart ==
    /\ part = "database" /\ DbNext
    /\ UNCHANGED <<part, cfgVars, xVars, objVars, snVars, clVars, coVars, mpVars, mqVars, xsVars,
                   alVars, rjVars, fmVars, crVars, rgVars, lsVars, cpVars, atVars>>

ConfigPart ==
    /\ part = "configuration" /\ CfgNext
    /\ UNCHANGED <<part, dbVars, xVars, objVars, snVars, clVars, coVars, mpVars, mqVars, xsVars,
                   alVars, rjVars, fmVars, crVars, rgVars, lsVars, cpVars, atVars>>

XmlConfigPart ==
    /\ part = "xml" /\ XNext
    /\ UNCHANGED <<part, dbVars, cfgVars, objVars, snVars, clVars, coVars, mpVars, mqVars, xsVars,
                   alVars, rjVars, fmVars, crVars, rgVars, lsVars, cpVars, atVars>>

DataObjectsPart ==
    /\ part = "objects" /\ ObjNext
    /\ UNCHANGED <<part, dbVars, cfgVars, xVars, snVars, clVars, coVars, mpVars, mqVars, xsVars,
                   alVars, rjVars, fmVars, crVars, rgVars, lsVars, cpVars, atVars>>

SnapshotPart ==
    /\ part = "snapshot" /\ SnNext
    /\ UNCHANGED <<part, dbVars, cfgVars, xVars, objVars, clVars, coVars, mpVars, mqVars, xsVars,
                   alVars, rjVars, fmVars, crVars, rgVars, lsVars, cpVars, atVars>>

ClusterPart ==
    /\ part = "cluster" /\ ClNext
    /\ UNCHANGED <<part, dbVars, cfgVars, xVars, objVars, snVars, coVars, mpVars, mqVars, xsVars,
                   alVars, rjVars, fmVars, crVars, rgVars, lsVars, cpVars, atVars>>

ContainersPart ==
    /\ part = "containers" /\ CoNext
    /\ UNCHANGED <<part, dbVars, cfgVars, xVars, objVars, snVars, clVars, mpVars, mqVars, xsVars,
                   alVars, rjVars, fmVars, crVars, rgVars, lsVars, cpVars, atVars>>

MultipartPart ==
    /\ part = "multipart" /\ MpNext
    /\ UNCHANGED <<part, dbVars, cfgVars, xVars, objVars, snVars, clVars, coVars, mqVars, xsVars,
                   alVars, rjVars, fmVars, crVars, rgVars, lsVars, cpVars, atVars>>

MirrorQueuePart ==
    /\ part = "mirrorqueue" /\ MqNext
    /\ UNCHANGED <<part, dbVars, cfgVars, xVars, objVars, snVars, clVars, coVars, mpVars, xsVars,
                   alVars, rjVars, fmVars, crVars, rgVars, lsVars, cpVars, atVars>>

XSyncPart ==
    /\ part = "xsync" /\ XsNext
    /\ UNCHANGED <<part, dbVars, cfgVars, xVars, objVars, snVars, clVars, coVars, mpVars, mqVars,
                   alVars, rjVars, fmVars, crVars, rgVars, lsVars, cpVars, atVars>>

AsyncRetrievePart ==
    /\ part = "asyncretrieve" /\ AlNext
    /\ UNCHANGED <<part, dbVars, cfgVars, xVars, objVars, snVars, clVars, coVars, mpVars, mqVars,
                   xsVars, rjVars, fmVars, crVars, rgVars, lsVars, cpVars, atVars>>

RtsJobsPart ==
    /\ part = "rtsjobs" /\ RjNext
    /\ UNCHANGED <<part, dbVars, cfgVars, xVars, objVars, snVars, clVars, coVars, mpVars, mqVars,
                   xsVars, alVars, fmVars, crVars, rgVars, lsVars, cpVars, atVars>>

FileMonitorPart ==
    /\ part = "filemonitor" /\ FmNext
    /\ UNCHANGED <<part, dbVars, cfgVars, xVars, objVars, snVars, clVars, coVars, mpVars, mqVars,
                   xsVars, alVars, rjVars, crVars, rgVars, lsVars, cpVars, atVars>>

ClientRequestsPart ==
    /\ part = "clientrequests" /\ CrNext
    /\ UNCHANGED <<part, dbVars, cfgVars, xVars, objVars, snVars, clVars, coVars, mpVars, mqVars,
                   xsVars, alVars, rjVars, fmVars, rgVars, lsVars, cpVars, atVars>>

RegistrationPart ==
    /\ part = "registration" /\ RgNext
    /\ UNCHANGED <<part, dbVars, cfgVars, xVars, objVars, snVars, clVars, coVars, mpVars, mqVars,
                   xsVars, alVars, rjVars, fmVars, crVars, lsVars, cpVars, atVars>>

ListingPart ==
    /\ part = "listing" /\ LsNext
    /\ UNCHANGED <<part, dbVars, cfgVars, xVars, objVars, snVars, clVars, coVars, mpVars, mqVars,
                   xsVars, alVars, rjVars, fmVars, crVars, rgVars, cpVars, atVars>>

CompressionPart ==
    /\ part = "compression" /\ CpNext
    /\ UNCHANGED <<part, dbVars, cfgVars, xVars, objVars, snVars, clVars, coVars, mpVars, mqVars,
                   xsVars, alVars, rjVars, fmVars, crVars, rgVars, lsVars, atVars>>

ArchiveToolPart ==
    /\ part = "archivetool" /\ AtNext
    /\ UNCHANGED <<part, dbVars, cfgVars, xVars, objVars, snVars, clVars, coVars, mpVars, mqVars,
                   xsVars, alVars, rjVars, fmVars, crVars, rgVars, lsVars, cpVars>>

Next ==
    \/ DatabasePart \/ ConfigPart \/ XmlConfigPart \/ DataObjectsPart \/ SnapshotPart
    \/ ClusterPart \/ ContainersPart \/ MultipartPart \/ MirrorQueuePart \/ XSyncPart
    \/ AsyncRetrievePart \/ RtsJobsPart \/ FileMonitorPart \/ ClientRequestsPart
    \/ RegistrationPart \/ ListingPart \/ CompressionPart \/ ArchiveToolPart

Spec == Init /\ [][Next]_vars

\* The NGAS DB and its snapshot on the disks: counters, rows and queries agree with each other,
\* and what was archived or removed is known so, unless its document was removed unread.
DatabaseSound ==
    /\ CountsKept /\ NoRowWithoutDisk /\ QueriesAgree /\ ArchivedFound /\ RemovedForgotten
    /\ SnapshotAgrees

\* A configuration that was checked is usable and a sound one accepted, and its file and its rows
\* say what it says.
ConfigurationSound ==
    /\ CheckedConsistent /\ SoundAccepted /\ SavedIsRead /\ DbKeepsConfiguration
    /\ SavesElements

\* What one side writes the other reads: data objects as rows, documents and copies, multipart
\* messages in any blocks, and the parameters of commands.
ObjectsTravel ==
    /\ InformationKept /\ NoWayFails /\ SettledAfterOne /\ ReadBack /\ BrokenNotTaken
    /\ LengthTold /\ UnderstoodAsMeant /\ BodyArrivesWhole /\ FormAccepted

\* Files to mirror or to synchronise are listed, worked on and accounted for, over failures,
\* restarts and kills.
RequestsNotLost ==
    /\ RequestsKept /\ NothingFallsBetween /\ QuietWhileListing /\ NoFileForgotten
    /\ SyncedIsThere /\ WorkedOn


\* REGISTER registers, counts and reports each file once, and STATUS lists each once.
FilesAccounted ==
    /\ RegisteredOnce /\ ReportedIsThere /\ ReportComplete /\ RegisteredCounted /\ AllReceived
    /\ NoneRepeated /\ RemainingTold


=============================================================================
