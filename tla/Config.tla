------------------------------- MODULE Config -------------------------------
(***************************************************************************)
(* The server configuration: the parameters as the getters of ngamsConfig  *)
(* return them, the Storage Sets, Streams and mime-types taken from the    *)
(* document, and the check made of all of it before a server starts.       *)
(* A value of the document is a string; "absent" is a parameter that is    *)
(* not in it.                                                              *)
(***************************************************************************)
EXTENDS Integers, Sequences, FiniteSets, TLC

CONSTANTS
    CfgSlots,  \* Slot IDs
    CfgSetIds, \* Storage Set IDs
    CfgMimes,  \* mime-types
    CfgEdits   \* bound on the parameters with an unusual value, and on the elements of a list

ASSUME CfgConfig == CfgEdits \in Nat

VARIABLES
    unusual,  \* the parameters with an unusual value
    sets,     \* __storageSetList
    streams,  \* __streamList
    mimes     \* the mime-type maps

cfgVars == <<unusual, sets, streams, mimes>>

NoValue == "absent"
Raises == "exception"
Nothing == [id |-> NoValue]

-----------------------------------------------------------------------------
(***************************************************************************)
(* The getters, by how they convert the value: "int" is -1 when it is no   *)
(* integer, a number is the default in that case, and so is None for       *)
(* "none"; "path" is put under the root directory; "must" raises when it   *)
(* is empty; "number" raises when it is no integer.                        *)
(***************************************************************************)

ServerGetters == [ArchiveName |-> "str", RootDirectory |-> "must", VolumeDirectory |-> "path", ProcessingDirectory |-> "path",
                  PortNo |-> "int", IpAddress |-> "str", TimeOut |-> "none", PluginsPath |-> "str"]
SystemPlugInGetters == [OnlinePlugIn |-> "str", OfflinePlugIn |-> "str", LabelPrinterPlugIn |-> "str", DiskSyncPlugIn |-> "str"]
RequestGetters == [Replication |-> "int", CRCVariant |-> "0", BlockSize |-> "int", MaxSimReqs |-> "int", MinSpaceSysDirMb |-> "int"]
PermissionGetters == [AllowArchiveReq |-> "int", AllowRetrieveReq |-> "int", AllowProcessingReq |-> "int", AllowRemoveReq |-> "int",
                      ProxyMode |-> "int", ProxyCRC |-> "0", ArchiveUnits |-> "str"]
JanitorGetters == [JanitorSuspensionTime |-> "str", BackLogBuffering |-> "int", BackLogBufferDirectory |-> "path"]
DbGetters == [DbSnapshot |-> "int", DbInterface |-> "str", DbMaxPoolCons |-> "7"]
DataCheckGetters == [PathPrefix |-> "str", DataCheckActive |-> "int", DataCheckForceNotif |-> "int", DataCheckMaxProcs |-> "int",
                     DataCheckScan |-> "1", DataCheckMinCycle |-> "str"]
SpaceGetters == [MinFreeSpaceWarningMb |-> "int", FreeSpaceDiskChangeMb |-> "int"]
LogGetters == [SysLog |-> "int", SysLogPrefix |-> "str", LocalLogFile |-> "path", LocalLogLevel |-> "int", LogRotateInt |-> "str",
               LogRotateCache |-> "int", ArchiveRotatedLogfiles |-> "0"]
NotificationGetters == [NotifSmtpHost |-> "str", NotifSmtpPort |-> "25", NotifActive |-> "int", MaxRetentionTime |-> "str", Sender |-> "str",
                        MaxRetentionSize |-> "int"]
SuspensionGetters == [IdleSuspension |-> "int", IdleSuspensionTime |-> "int", WakeUpServerHost |-> "str", SuspensionPlugIn |-> "str",
                      WakeUpPlugIn |-> "str", WakeUpCallTimeOut |-> "int"]
SubscriptionGetters == [AutoUnsubscribe |-> "int", SubscrSuspTime |-> "str", BackLogExpTime |-> "str", SubscrEnable |-> "int"]
AuthorizationGetters == [FileStagingEnable |-> "0", FileStagingPlugIn |-> "str", Authorize |-> "int"]
MirroringGetters == [MirroringActive |-> "0", MirroringThreads |-> "number", MirroringErrorRetryPeriod |-> "number",
                     MirroringErrorRetryTimeOut |-> "number"]
CachingGetters == [CachingEnabled |-> "0", CachingPeriod |-> "0"]

Getters == ServerGetters @@ SystemPlugInGetters @@ RequestGetters @@ PermissionGetters @@ JanitorGetters @@ DbGetters
           @@ DataCheckGetters @@ SpaceGetters @@ LogGetters @@ NotificationGetters @@ SuspensionGetters @@ SubscriptionGetters
           @@ AuthorizationGetters @@ MirroringGetters @@ CachingGetters

Numbers == ("0" :> 0) @@ ("1" :> 1) @@ ("7" :> 7) @@ ("25" :> 25) @@ ("-1" :> -1)

\* What a document usually says
UsualValue(p) == IF Getters[p] \in {"str", "must", "path"} THEN "text"
            ELSE IF p \in {"DataCheckActive", "IdleSuspension", "AllowProcessingReq"} THEN "0" ELSE "1"

CfgVal(p) == IF p \in DOMAIN unusual THEN unusual[p] ELSE UsualValue(p)

\* Mutant: 0 is taken for a value that is missing.
getIntZero(val, retValOnFailure) == IF val \in DOMAIN Numbers \ {"0"} THEN Numbers[val] ELSE retValOnFailure
getInt(val, retValOnFailure) == IF val \in DOMAIN Numbers THEN Numbers[val] ELSE retValOnFailure

\* The root directory itself when nothing is given.  An exception of the getter is an empty
\* string.
relative_to_root(p, val) == IF val # NoValue THEN "under the root" ELSE IF p = "ProcessingDirectory" THEN "" ELSE "the root"

getIdleSuspensionTime ==
    LET t == getInt(CfgVal("IdleSuspensionTime"), -1)
    IN IF t <= 0 /\ getInt(CfgVal("IdleSuspension"), -1) # 0 THEN 60 ELSE t

Get(p) ==
    LET v == CfgVal(p) k == Getters[p] IN
    CASE p = "IdleSuspensionTime" -> getIdleSuspensionTime
      [] k = "str" -> v
      [] k = "must" -> IF v \in {NoValue, ""} THEN Raises ELSE v
      [] k = "path" -> relative_to_root(p, v)
      [] k = "int" -> getInt(v, -1)
      [] k = "none" -> getInt(v, NoValue)
      [] k = "number" -> getInt(v, Raises)
      [] OTHER -> getInt(v, Numbers[k])

On(p) == Get(p) # 0     \* a flag that is missing, -1, is on

-----------------------------------------------------------------------------
(***************************************************************************)
(* Storage Sets, Streams, mime-types.                                      *)
(***************************************************************************)

\* ngamsStorageSet and ngamsStream, as far as anything depends on them
StorageSet == [id : CfgSetIds, main : CfgSlots, rep : CfgSlots \cup {""}, mutex : {0, 7}]
Stream == [mime : CfgMimes, sets : SUBSET CfgSetIds, hosts : {{}, {"host"}}]

Elements(s) == {s[i] : i \in DOMAIN s}
FirstOf(s, P(_)) == s[CHOOSE i \in DOMAIN s : P(s[i]) /\ \A j \in 1 .. i - 1 : ~P(s[j])]

\* None when there is none
getStorageSetFromId(id) == IF \E x \in Elements(sets) : x.id = id THEN FirstOf(sets, LAMBDA x : x.id = id) ELSE Nothing

HasSlot(x, slot) == slot \in {x.main, x.rep}
getStorageSetFromSlotId(slot) ==
    IF \E x \in Elements(sets) : HasSlot(x, slot) THEN FirstOf(sets, LAMBDA x : HasSlot(x, slot)) ELSE Nothing

\* The other slot of the set
getAssocSlotId(slot) ==
    LET x == getStorageSetFromSlotId(slot) IN IF x = Nothing THEN "" ELSE IF x.main = slot THEN x.rep ELSE x.main

getSlotIds == UNION {{x.main, x.rep} : x \in Elements(sets)} \ {""}

\* None when there is none
getStreamFromMimeType(mt) ==
    IF \E x \in Elements(streams) : x.mime = mt THEN FirstOf(streams, LAMBDA x : x.mime = mt) ELSE Nothing

\* A later map of the same mime-type replaces the earlier one, in each direction on its own.
LastOf(s, P(_)) == s[CHOOSE i \in DOMAIN s : P(s[i]) /\ \A j \in i + 1 .. Len(s) : ~P(s[j])]
getExtFromMimeType(mt) ==
    IF \E x \in Elements(mimes) : x.mime = mt THEN LastOf(mimes, LAMBDA x : x.mime = mt).ext ELSE "unknown"
getMimeTypeMappings == {<<x.mime, getExtFromMimeType(x.mime)>> : x \in Elements(mimes)}

-----------------------------------------------------------------------------
(***************************************************************************)
(* _check.                                                                 *)
(***************************************************************************)

_check_str(v) == v # NoValue         \* an empty string is only logged
_check_int(v) == v \in Int /\ v # -1
_check_0_1(v) == v \in {0, 1}

check_duplicate(s, field) == \A i, j \in DOMAIN s : s[i][field] = s[j][field] => i = j

StrChecked == {"ArchiveName", "OnlinePlugIn", "OfflinePlugIn", "JanitorSuspensionTime", "DbInterface", "SysLogPrefix", "LocalLogFile",
               "LogRotateInt", "NotifSmtpHost", "Sender", "MaxRetentionTime", "SuspensionPlugIn", "WakeUpPlugIn", "SubscrSuspTime", "BackLogExpTime"}
              \cup (IF On("AllowArchiveReq") THEN {"PathPrefix", "BackLogBufferDirectory"} ELSE {})
              \cup (IF On("AllowProcessingReq") THEN {"ProcessingDirectory"} ELSE {})
              \cup (IF On("DataCheckActive") THEN {"DataCheckMinCycle"} ELSE {})
              \cup (IF On("IdleSuspension") THEN {"WakeUpServerHost"} ELSE {})

IntChecked == {"MaxSimReqs", "PortNo", "BlockSize", "LocalLogLevel", "LogRotateCache", "MaxRetentionSize", "IdleSuspensionTime", "WakeUpCallTimeOut"}
              \cup (IF On("AllowArchiveReq") THEN {"MinFreeSpaceWarningMb", "FreeSpaceDiskChangeMb"} ELSE {})
              \cup (IF On("DataCheckActive") THEN {"DataCheckMaxProcs"} ELSE {})

FlagChecked == {"ProxyMode", "AllowArchiveReq", "AllowRetrieveReq", "AllowProcessingReq", "AllowRemoveReq", "DbSnapshot", "DataCheckActive",
                "SysLog", "NotifActive", "IdleSuspension", "AutoUnsubscribe", "SubscrEnable"}
               \cup (IF On("AllowArchiveReq") THEN {"Replication", "BackLogBuffering"} ELSE {})
               \cup (IF On("DataCheckActive") THEN {"DataCheckForceNotif", "DataCheckScan"} ELSE {})

ParametersOk == /\ \A p \in StrChecked : _check_str(Get(p))
                /\ \A p \in IntChecked : _check_int(Get(p))
                /\ \A p \in FlagChecked : _check_0_1(Get(p))

\* Mutant: the same Storage Set ID twice is not noticed.
StorageSetsSameId == /\ check_duplicate(sets, "main")
                     /\ check_duplicate(SelectSeq(sets, LAMBDA x : x.rep # ""), "rep")
                     /\ \A x \in Elements(sets) : _check_0_1(x.mutex)

StorageSetsOk == /\ check_duplicate(sets, "id") /\ check_duplicate(sets, "main")
                 /\ check_duplicate(SelectSeq(sets, LAMBDA x : x.rep # ""), "rep")
                 /\ \A x \in Elements(sets) : _check_0_1(x.mutex)

StreamsOk == On("AllowArchiveReq") =>
                /\ check_duplicate(streams, "mime")
                /\ \A x \in Elements(streams) : /\ x.sets # {} \/ x.hosts # {}
                                                /\ \A id \in x.sets : \E y \in Elements(sets) : y.id = id

\* With removal switched off the check asks for getCachingActive, which the configuration
\* does not have.
_check == /\ Get("RootDirectory") # Raises /\ ParametersOk /\ getMimeTypeMappings # {}
          /\ StorageSetsOk /\ StreamsOk /\ On("AllowRemoveReq")

-----------------------------------------------------------------------------
(***************************************************************************)
(* _unpackCfg: the document is gone through, element by element.           *)
(***************************************************************************)

CfgInit == unusual = <<>> /\ sets = <<>> /\ streams = <<>> /\ mimes = <<>>

Values == {NoValue, "", "text", "0", "7", "-1"}

\* The parameters others depend on
Switches == {"AllowArchiveReq", "AllowProcessingReq", "DataCheckActive", "IdleSuspension"}

CfgStore(p, v) ==
    /\ Cardinality(DOMAIN unusual) < CfgEdits /\ DOMAIN unusual \subseteq Switches /\ p \notin DOMAIN unusual
    /\ v # UsualValue(p) /\ sets = <<>> /\ streams = <<>> /\ Len(mimes) = 1
    /\ unusual' = (p :> v) @@ unusual /\ UNCHANGED <<sets, streams, mimes>>

\* The lists are varied with the parameters as they usually are, and without archiving.
Plain == unusual \in {<<>>, "AllowArchiveReq" :> "0"}

addStorageSetObj ==
    /\ Len(sets) < CfgEdits /\ streams = <<>> /\ Plain /\ Len(mimes) = 1
    /\ \E x \in StorageSet : /\ sets # <<>> => x.mutex = 0
                             /\ sets' = Append(sets, x)
    /\ UNCHANGED <<unusual, streams, mimes>>

addStreamObj ==
    /\ Len(sets) + Len(streams) <= CfgEdits /\ Plain /\ Len(mimes) = 1
    /\ \E x \in Stream : streams' = Append(streams, x)
    /\ UNCHANGED <<unusual, sets, mimes>>

addMimeTypeMap ==
    /\ Len(mimes) < CfgEdits /\ unusual = <<>> /\ sets = <<>> /\ streams = <<>>
    /\ \E mt \in CfgMimes, e \in IF mimes = <<>> THEN {"fits"} ELSE {"fits", "tar"} : mimes' = Append(mimes, [mime |-> mt, ext |-> e])
    /\ UNCHANGED <<unusual, sets, streams>>

\* loaded anew
clear == unusual' = <<>> /\ sets' = <<>> /\ streams' = <<>> /\ mimes' = <<>>

CfgNext == (\E p \in DOMAIN Getters, v \in Values : CfgStore(p, v)) \/ addStorageSetObj \/ addStreamObj \/ addMimeTypeMap \/ clear

-----------------------------------------------------------------------------
(***************************************************************************)
(* Properties.                                                             *)
(***************************************************************************)

\* What passes the check is consistent: the Stream of a mime-type is the only one, each of
\* its Storage Sets is found and is the only one of its ID, and every slot is found in a
\* set whose other slot leads back to it, unless a slot is the main one of a set and the
\* replication one of another, or of the same, which the check does not look for.
CheckedConsistent ==
    _check =>
       /\ On("AllowArchiveReq") => \A x \in Elements(streams) : /\ getStreamFromMimeType(x.mime) = x
                                                                /\ \A id \in x.sets : getStorageSetFromId(id) # Nothing
       /\ \A x \in Elements(sets) : getStorageSetFromId(x.id) = x
       /\ \A s \in getSlotIds : /\ getStorageSetFromSlotId(s) # Nothing
                                /\ \/ getAssocSlotId(s) = "" \/ getAssocSlotId(getAssocSlotId(s)) = s
                                   \/ \E x, y \in Elements(sets) : x.main = y.rep

\* A parameter of an installation that is switched on is there
Sound(p) == \/ p \notin DOMAIN unusual
            \/ Getters[p] \in {"str", "must", "path"} /\ unusual[p] = "text"
            \/ p \in IntChecked /\ unusual[p] \in {"0", "1", "7"}

\* A sound configuration is accepted: numbers, flags and strings as the parameters want
\* them, at least one mime-type, no ID and no slot twice, no Stream without a target.  Only
\* with AllowRemoveReq 0, which is a value the documentation allows, it is refused.
SoundAccepted ==
    /\ \A p \in DOMAIN unusual : Sound(p) \/ (p = "AllowProcessingReq" /\ unusual[p] = "0")
    /\ mimes # <<>>
    /\ \A i, j \in DOMAIN sets : i # j => sets[i].id # sets[j].id /\ {sets[i].main, sets[i].rep} \cap {sets[j].main, sets[j].rep} = {}
    /\ \A x \in Elements(sets) : x.mutex = 0
    /\ \A i, j \in DOMAIN streams : i # j => streams[i].mime # streams[j].mime
    /\ \A x \in Elements(streams) : x.sets \subseteq {y.id : y \in Elements(sets)} /\ (x.sets # {} \/ x.hosts # {})
    => _check

=============================================================================
