---------------------------- MODULE DataObjects ----------------------------
(***************************************************************************)
(* The data objects that carry what the server knows of files, disks,      *)
(* hosts, Subscribers and requests, and the ways they travel: as a row of  *)
(* the DB, as an XML element of a status reply, as a copy.  Every setter   *)
(* and every way converts the values.  A value has a type and a content;   *)
(* "text" and 7 stand for any proper string and number.                    *)
(***************************************************************************)
EXTENDS Integers, Sequences, FiniteSets, TLC

CONSTANT ObjHops   \* bound on the number of times an object travels

ASSUME ObjConfig == ObjHops \in Nat

VARIABLES
    kind,   \* the class of the object
    field,  \* the field that has an unusual value
    orig,   \* the object as it was
    obj,    \* the object now, or Raised
    hops    \* the ways it has travelled

objVars == <<kind, field, orig, obj, hops>>

Val(t, v) == [t |-> t, v |-> v]
None == Val("none", "None")
Empty == Val("str", "")
Text == Val("str", "text")
N(n) == Val("int", n)
R(n) == Val("float", n)
Date == Val("date", "date")
Raised == Val("raised", "")
Numerals == {"0", "1", "-1", "7", "10", "7000", "-1000"}

-----------------------------------------------------------------------------
(***************************************************************************)
(* Conversions.                                                            *)
(***************************************************************************)

Str(v) == Val("str", IF v.t = "float" THEN v.v \o ".0" ELSE v.v)
ToInt(v) == IF v.t \in {"int", "float"} \/ (v.t = "str" /\ v.v \in Numerals) THEN N(v.v) ELSE Raised
ToFloat(v) == IF v.t \in {"int", "float"} \/ (v.t = "str" /\ v.v \in Numerals) THEN R(v.v)
              ELSE IF v.t = "str" /\ \E n \in Numerals : v.v = n \o ".0" THEN R(CHOOSE n \in Numerals : v.v = n \o ".0")
              ELSE Raised
Truthy(v) == v \notin {None, Empty, N("0"), R("0")}
\* toiso8601 and fromiso8601
toiso8601(v) == IF v.t \in {"date", "float", "int"} THEN Val("str", v.v) ELSE Raised
fromiso8601(v) == IF v = Val("str", "date") THEN Date ELSE Raised
convertTimeStamp(v) == IF v.t = "str" THEN v ELSE IF v = None THEN Val("str", "date") ELSE toiso8601(v)
asTimestamp(v) == IF v = None THEN None ELSE convertTimeStamp(v)

\* ignoreValue: -1 and blank strings are left out of a document, if asked for
ignoreValue(ign, v) == ign /\ (v = N("-1") \/ (v.t # "int" /\ Str(v) = Empty))

Strip(v) == IF v.t = "str" THEN v ELSE Raised

\* What a setter makes of v, given the value the field has
Setter(how, old, v) ==
    CASE how = "plain" -> v
      [] how = "strip" -> Strip(v)
      [] how = "str" -> Str(v)
      [] how = "int" -> ToInt(v)
      [] how = "float" -> ToFloat(v)
      [] how = "int unless blank" -> IF Str(v) = Empty THEN old ELSE ToInt(v)
      [] how = "int if" -> IF Truthy(v) THEN ToInt(v) ELSE old
      [] how = "int or none" -> IF v = None THEN None ELSE ToInt(v)
      [] how = "float if" -> IF Truthy(v) THEN ToFloat(v) ELSE old
      [] how = "float or none" -> IF Truthy(v) THEN ToFloat(v) ELSE None
      [] how = "plain if" -> IF Truthy(v) THEN v ELSE old
      [] how = "strip or empty" -> IF Truthy(v) THEN Strip(v) ELSE Empty
      [] how = "str or empty" -> IF Truthy(v) THEN Str(v) ELSE Empty
      [] how = "strip or None" -> IF v = None THEN Empty ELSE Strip(v)
      [] how = "compression" -> IF ~Truthy(v) \/ v = Val("str", "None") THEN Empty ELSE Strip(v)
      [] how = "ignore" -> IF v = None THEN N("0") ELSE v
      [] how = "boolean" -> IF v.v \in {"0", "1"} THEN v ELSE Raised
      [] how = "now" -> Date

-----------------------------------------------------------------------------
(***************************************************************************)
(* The fields of the classes, in the order of the source: the setter and   *)
(* the type.                                                               *)
(***************************************************************************)

FileIdentity == [DiskId |-> <<"strip", "text">>, FileName |-> <<"strip", "text">>, FileId |-> <<"strip", "text">>,
                 FileVersion |-> <<"int unless blank", "int">>, Format |-> <<"strip", "text">>]
FileSizes == [FileSize |-> <<"int", "int">>, UncompressedFileSize |-> <<"plain", "int">>, Compression |-> <<"compression", "text">>,
              IngestionDate |-> <<"plain", "date">>, Ignore |-> <<"ignore", "int">>]
FileChecks == [Checksum |-> <<"plain", "checksum">>, ChecksumPlugIn |-> <<"plain", "text">>, FileStatus |-> <<"str", "text">>,
               CreationDate |-> <<"plain", "date">>, Tag |-> <<"str", "text">>]
FileAccess == [Permissions |-> <<"str", "text">>, Owner |-> <<"str", "text">>, Group |-> <<"str", "text">>,
               ModificationDate |-> <<"plain", "date">>, AccessDate |-> <<"plain", "date">>]
FileIngestion == [TotalIoTime |-> <<"float if", "float">>, IngestionRate |-> <<"plain if", "float">>, ContainerId |-> <<"plain if", "null">>]
FileFields == FileIdentity @@ FileSizes @@ FileChecks @@ FileAccess @@ FileIngestion

DiskIdentity == [Archive |-> <<"strip", "text">>, DiskId |-> <<"strip", "text">>, LogicalName |-> <<"strip", "text">>,
                 HostId |-> <<"strip or empty", "text">>, SlotId |-> <<"strip or empty", "text">>, Mounted |-> <<"int", "int">>,
                 MountPoint |-> <<"strip or empty", "text">>]
DiskCounts == [NumberOfFiles |-> <<"int", "int">>, AvailableMb |-> <<"int", "int">>, BytesStored |-> <<"float", "float">>,
               Completed |-> <<"int", "flag">>, CompletionDate |-> <<"plain", "date">>, Type |-> <<"strip", "text">>]
DiskHistory == [Manufacturer |-> <<"strip or None", "text">>, InstallationDate |-> <<"plain", "instdate">>, Checksum |-> <<"str or empty", "text">>,
                TotalDiskWriteTime |-> <<"plain", "time">>, LastCheck |-> <<"plain", "date">>, LastHostId |-> <<"plain", "null">>]
DiskFields == DiskIdentity @@ DiskCounts @@ DiskHistory

HostIdentity == [HostId |-> <<"plain", "text">>, Domain |-> <<"plain", "text">>, IpAddress |-> <<"plain", "text">>, MacAddress |-> <<"plain", "text">>,
                 NSlots |-> <<"int", "int">>, ClusterName |-> <<"plain", "text">>, InstallationDate |-> <<"plain", "date">>]
HostServices == [SrvVersion |-> <<"plain", "text">>, SrvPort |-> <<"int", "int">>, SrvArchive |-> <<"int", "int">>, SrvRetrieve |-> <<"int", "int">>,
                 SrvProcess |-> <<"int", "int">>, SrvRemove |-> <<"int", "int">>]
HostState == [SrvDataChecking |-> <<"int", "int">>, SrvState |-> <<"plain", "text">>, SrvSuspended |-> <<"int", "int">>,
              SrvReqWakeUpSrv |-> <<"plain", "text">>, SrvReqWakeUpTime |-> <<"plain", "date">>]
HostFields == HostIdentity @@ HostServices @@ HostState

SubscriberIdentity == [HostId |-> <<"strip", "text">>, PortNo |-> <<"int", "flag">>, Priority |-> <<"int", "priority">>, Id |-> <<"strip", "text">>,
                       Url |-> <<"plain", "text">>]
SubscriberFilter == [StartDate |-> <<"plain", "date">>, ConcurrentThreads |-> <<"int if", "threads">>, FilterPi |-> <<"strip or empty", "text">>,
                     FilterPiPars |-> <<"strip or empty", "text">>, LastFileIngDate |-> <<"plain", "instdate">>]
SubscriberFields == SubscriberIdentity @@ SubscriberFilter

SummaryFields == [SlotId |-> <<"plain", "null">>, MountPoint |-> <<"plain", "null">>, FileName |-> <<"plain", "null">>, Checksum |-> <<"plain", "null">>,
                  ChecksumPlugIn |-> <<"plain", "null">>]
SummaryFile == [FileId |-> <<"plain", "null">>, FileVersion |-> <<"int", "version">>, FileSize |-> <<"int", "version">>, FileStatus |-> <<"plain", "null">>,
                DiskId |-> <<"plain", "null">>, Ignore |-> <<"boolean", "bool">>, HostId |-> <<"plain", "null">>]

RequestProgress == [RequestId |-> <<"plain", "null">>, RequestTime |-> <<"now", "time now">>, CompletionPercent |-> <<"float if", "percent">>,
                    ExpectedCount |-> <<"int if", "count">>, ActualCount |-> <<"int if", "count">>]
RequestTimes == [EstTotalTime |-> <<"plain", "estimate">>, RemainingTime |-> <<"plain", "estimate">>,
                 LastRequestStatUpdate |-> <<"plain", "date">>, CompletionTime |-> <<"now", "date">>]
RequestHttp == [HttpMethod |-> <<"str", "text">>, Cmd |-> <<"str", "text">>, MimeType |-> <<"str", "text">>, Size |-> <<"int", "int">>,
                FileUri |-> <<"str", "text">>]
RequestIo == [BytesReceived |-> <<"plain", "flag">>, StagingFilename |-> <<"str", "text">>, IoTime |-> <<"plain", "flag">>,
              Authorization |-> <<"plain", "null">>, NoReplication |-> <<"int", "flag">>]

StatusText == [Date |-> <<"str", "text">>, Version |-> <<"str", "text">>, HostId |-> <<"str", "text">>, Status |-> <<"str", "text">>, Message |-> <<"str", "text">>,
               State |-> <<"str", "text">>, SubState |-> <<"str", "text">>]
StatusProgress == [RequestId |-> <<"plain", "null">>, RequestTime |-> <<"plain", "date">>, CompletionPercent |-> <<"float or none", "percent">>,
                   ExpectedCount |-> <<"int or none", "count">>, ActualCount |-> <<"int or none", "count">>]
StatusTimes == [EstTotalTime |-> <<"plain", "estimate">>, RemainingTime |-> <<"plain", "estimate">>, LastRequestStatUpdate |-> <<"plain", "date">>,
                CompletionTime |-> <<"plain", "date">>]
StatusRequest == StatusProgress @@ StatusTimes

Fields == [File |-> FileFields, Disk |-> DiskFields, Host |-> HostFields, Subscriber |-> SubscriberFields, Summary |-> SummaryFields @@ SummaryFile,
           Request |-> RequestProgress @@ RequestTimes @@ RequestHttp @@ RequestIo, Status |-> StatusText @@ StatusRequest]
Names(c) == DOMAIN Fields[c]

\* What a new object holds
Default(type) ==
    CASE type = "text" -> Empty [] type = "checksum" -> Empty [] type = "instdate" -> Empty [] type = "int" -> N("-1") [] type = "float" -> R("-1")
      [] type = "flag" -> N("0") [] type = "time" -> R("0") [] type = "priority" -> N("10") [] type = "threads" -> N("7") [] type = "time now" -> Date
      [] OTHER -> None
New(c) == [f \in Names(c) |-> Default(Fields[c][f][2])]

\* The values a field has in a server that is running
Inputs(type) ==
    CASE type = "text" -> {Text, Empty} [] type = "null" -> {Text, None} [] type = "checksum" -> {Text, N("7")}
      [] type \in {"int", "version"} -> {N("7"), N("0")} [] type \in {"float", "time"} -> {R("7"), R("0"), R("-1")}
      [] type \in {"date"} -> {Date, None} [] type = "instdate" -> {Date} [] type = "flag" -> {N("0"), N("7")} [] type = "priority" -> {N("10"), N("7")}
      [] type = "threads" -> {N("7")} [] type = "bool" -> {N("0"), N("1")} [] type = "time now" -> {Date}
      [] type = "percent" -> {None, R("0"), R("7")} [] type = "count" -> {None, N("0"), N("7")} [] type = "estimate" -> {None, R("0"), R("7")}
Usual(type) == CHOOSE v \in Inputs(type) : v \in {Text, N("7"), R("7"), Date, N("1")}

-----------------------------------------------------------------------------
(***************************************************************************)
(* As an XML element.  Absent is an attribute that is not in the document. *)
(***************************************************************************)

Absent == Val("absent", "")
Attr(v) == IF v = Absent THEN Empty ELSE v
Iso(v) == IF v = None THEN Empty ELSE toiso8601(v)
IsDate(c, f) == Fields[c][f][2] \in {"date", "instdate"}
Set(c, f, v) == Setter(Fields[c][f][1], New(c)[f], v)
Unpacked(c, f, v) == IF IsDate(c, f) THEN (IF v = Empty THEN New(c)[f] ELSE fromiso8601(v)) ELSE Set(c, f, v)

\* An object, or Raised if one of the setters raises
Made(o) == IF \E f \in DOMAIN o : o[f] = Raised THEN Raised ELSE o

\* ngamsFileInfo.getObjStatus and genXml; in a FileList the Disk ID is stored and undefined
\* fields are left out
FileObjStatus(o) == [f \in Names("File") |-> IF IsDate("File", f) THEN Iso(o[f]) ELSE o[f]]
FileXml(o, ign) == [f \in Names("File") |-> IF ignoreValue(ign, FileObjStatus(o)[f]) THEN Absent ELSE Str(FileObjStatus(o)[f])]
\* Mutant: dates are taken as they are written.
FileFromDomDates(a) == Made([f \in Names("File") |-> Set("File", f, Attr(a[f]))])

\* unpackFromDomNode: the access date is read from the modification date
FileFromDom(a) == Made([f \in Names("File") |-> Unpacked("File", f, Attr(a[IF f = "AccessDate" THEN "ModificationDate" ELSE f]))])

\* ngamsDiskInfo: LastHostId is not in the document, LastCheck is not read from it
DiskObjStatus(o) == [f \in Names("Disk") \ {"LastHostId"} |-> IF IsDate("Disk", f) THEN Iso(o[f])
                                                              ELSE IF f = "BytesStored" THEN Val("str", o[f].v) ELSE o[f]]
DiskXml(o) == [f \in DOMAIN DiskObjStatus(o) |-> Str(DiskObjStatus(o)[f])]
DiskFromDom(a) == Made([f \in Names("Disk") |-> IF f \in {"LastHostId", "LastCheck"} THEN New("Disk")[f]
                                                ELSE IF f = "TotalDiskWriteTime" THEN Set("Disk", f, ToFloat(a[f])) ELSE Unpacked("Disk", f, a[f])])

\* ngamsStatus: what is not known is not in the document
StatusXml(o) == [f \in Names("Status") |->
                   IF f \in DOMAIN StatusText THEN o[f]
                   ELSE IF o[f] = None \/ (f \in {"RequestId", "CompletionPercent"} /\ ~Truthy(o[f])) THEN Absent
                   ELSE IF IsDate("Status", f) THEN toiso8601(o[f]) ELSE Str(o[f])]
StatusFromDom(a) == Made([f \in Names("Status") |->
                       IF a[f] = Absent THEN New("Status")[f]
                       ELSE IF f \in {"EstTotalTime", "RemainingTime"} THEN ToFloat(a[f]) ELSE Unpacked("Status", f, a[f])])

-----------------------------------------------------------------------------
(***************************************************************************)
(* As a row of the DB: written by column names, read by position.          *)
(***************************************************************************)

_ngasFilesDef == <<"disk_id", "file_name", "file_id", "file_version", "format", "file_size", "uncompressed_file_size", "compression",
                   "ingestion_date", "file_ignore", "checksum", "checksum_plugin", "file_status", "creation_date", "io_time", "ingestion_rate",
                   "container_id">>
_ngasDisksDef == <<"disk_id", "archive", "logical_name", "host_id", "slot_id", "mounted", "mount_point", "number_of_files", "available_mb",
                   "bytes_stored", "type", "capacity_mb", "manufacturer", "installation_date", "checksum", "total_disk_write_time", "completed",
                   "completion_date", "last_check", "last_host_id">>
_ngasHostsDef == <<"host_id", "domain", "ip_address", "mac_address", "n_slots", "cluster_name", "installation_date", "srv_version", "srv_port",
                   "srv_archive", "srv_retrieve", "srv_process", "srv_remove", "srv_data_checking", "srv_state", "srv_suspended",
                   "srv_req_wake_up_srv", "srv_req_wake_up_time">>
_ngasSubscribersDef == <<"host_id", "srv_port", "subscr_prio", "subscr_id", "subscr_url", "subscr_start_date", "subscr_filter_plugin",
                         "subscr_filter_plugin_pars", "last_file_ingestion_date", "concurrent_threads">>
_sum1Def == <<"slot_id", "mount_point", "file_name", "checksum", "checksum_plugin", "file_id", "file_version", "file_size", "file_status",
              "disk_id", "file_ignore", "host_id">>

Milliseconds(v) == CASE v.v = "7" -> N("7000") [] v.v = "0" -> N("0") [] OTHER -> N("-1000")

\* Mutant: the two sizes are swapped.
writeFileEntrySizes(o) ==
    [disk_id |-> o.DiskId, file_name |-> o.FileName, file_id |-> o.FileId, file_version |-> o.FileVersion, format |-> o.Format,
     file_size |-> o.UncompressedFileSize, uncompressed_file_size |-> o.FileSize, compression |-> o.Compression,
     ingestion_date |-> convertTimeStamp(o.IngestionDate), file_ignore |-> o.Ignore, checksum |-> o.Checksum, checksum_plugin |-> o.ChecksumPlugIn,
     file_status |-> o.FileStatus, creation_date |-> convertTimeStamp(o.CreationDate), io_time |-> o.TotalIoTime,
     ingestion_rate |-> o.IngestionRate, container_id |-> None]

\* writeFileEntry: a new row.  The I/O time is written in milliseconds; the container is not
\* written, a date that is missing is the current time.
writeFileEntry(o) ==
    [disk_id |-> o.DiskId, file_name |-> o.FileName, file_id |-> o.FileId, file_version |-> o.FileVersion, format |-> o.Format,
     file_size |-> o.FileSize, uncompressed_file_size |-> o.UncompressedFileSize, compression |-> o.Compression,
     ingestion_date |-> convertTimeStamp(o.IngestionDate), file_ignore |-> IF o.Ignore = N("-1") THEN N("0") ELSE o.Ignore,
     checksum |-> IF Truthy(o.Checksum) THEN Str(o.Checksum) ELSE None, checksum_plugin |-> o.ChecksumPlugIn, file_status |-> o.FileStatus,
     creation_date |-> convertTimeStamp(o.CreationDate), io_time |-> Milliseconds(o.TotalIoTime), ingestion_rate |-> o.IngestionRate,
     container_id |-> None]

\* writeDiskEntry: a new row.  The date of the last check is not written.
NewDiskRow(o) ==
    [disk_id |-> o.DiskId, archive |-> o.Archive, logical_name |-> o.LogicalName, host_id |-> o.HostId, slot_id |-> o.SlotId, mounted |-> o.Mounted,
     mount_point |-> o.MountPoint, number_of_files |-> o.NumberOfFiles, available_mb |-> o.AvailableMb, bytes_stored |-> ToInt(o.BytesStored),
     type |-> o.Type, capacity_mb |-> None, manufacturer |-> o.Manufacturer, installation_date |-> convertTimeStamp(o.InstallationDate),
     checksum |-> o.Checksum, total_disk_write_time |-> o.TotalDiskWriteTime, completed |-> o.Completed,
     completion_date |-> asTimestamp(o.CompletionDate), last_check |-> None, last_host_id |-> o.LastHostId]

OrNull(v) == IF Truthy(v) THEN v ELSE None
\* writeHostInfo, and updateSrvHostInfo and reqWakeUpCall on the row
writeHostInfo(o) ==
    [host_id |-> OrNull(o.HostId), domain |-> OrNull(o.Domain), ip_address |-> OrNull(o.IpAddress), mac_address |-> OrNull(o.MacAddress),
     n_slots |-> OrNull(o.NSlots), cluster_name |-> OrNull(o.ClusterName), installation_date |-> asTimestamp(o.InstallationDate)]
updateSrvHostInfo(o) ==
    [srv_version |-> o.SrvVersion, srv_port |-> o.SrvPort, srv_archive |-> o.SrvArchive, srv_retrieve |-> o.SrvRetrieve, srv_process |-> o.SrvProcess,
     srv_remove |-> o.SrvRemove, srv_data_checking |-> o.SrvDataChecking, srv_state |-> o.SrvState]
reqWakeUpCall(o) ==
    [srv_suspended |-> o.SrvSuspended, srv_req_wake_up_srv |-> o.SrvReqWakeUpSrv, srv_req_wake_up_time |-> asTimestamp(o.SrvReqWakeUpTime)]

insertSubscriberEntry(o) ==
    [host_id |-> o.HostId, srv_port |-> o.PortNo, subscr_prio |-> o.Priority, subscr_id |-> o.Id, subscr_url |-> o.Url,
     subscr_start_date |-> asTimestamp(o.StartDate), subscr_filter_plugin |-> o.FilterPi, subscr_filter_plugin_pars |-> o.FilterPiPars,
     last_file_ingestion_date |-> asTimestamp(o.LastFileIngDate), concurrent_threads |-> o.ConcurrentThreads]

Select(cols, row) == [i \in DOMAIN cols |-> row[cols[i]]]

\* Reading a row: the field at each position ("" is not read); a date that is not there is
\* not set.
FromRow(c, order, row) ==
    Made([f \in Names(c) |->
       IF \E i \in DOMAIN order : order[i] = f
       THEN LET v == row[CHOOSE i \in DOMAIN order : order[i] = f] IN
            IF IsDate(c, f) /\ f # "SrvReqWakeUpTime" THEN (IF Truthy(v) THEN fromiso8601(v) ELSE New(c)[f])
            ELSE IF f = "LastHostId" /\ ~Truthy(v) THEN New(c)[f] ELSE Set(c, f, v)
       ELSE New(c)[f]])

\* Mutant: two columns of one type are swapped.
FileUnpackSwapped(row) ==
    FromRow("File", <<"DiskId", "FileName", "FileId", "FileVersion", "Format", "FileSize", "UncompressedFileSize", "Compression", "IngestionDate",
                      "Ignore", "ChecksumPlugIn", "Checksum", "FileStatus", "CreationDate", "TotalIoTime", "IngestionRate", "ContainerId">>, row)

FileUnpackSqlResult(row) ==
    FromRow("File", <<"DiskId", "FileName", "FileId", "FileVersion", "Format", "FileSize", "UncompressedFileSize", "Compression", "IngestionDate",
                      "Ignore", "Checksum", "ChecksumPlugIn", "FileStatus", "CreationDate", "TotalIoTime", "IngestionRate", "ContainerId">>, row)
DiskUnpackSqlResult(row) ==
    FromRow("Disk", <<"DiskId", "Archive", "LogicalName", "HostId", "SlotId", "Mounted", "MountPoint", "NumberOfFiles", "AvailableMb", "BytesStored",
                      "Type", "", "Manufacturer", "InstallationDate", "Checksum", "TotalDiskWriteTime", "Completed", "CompletionDate", "LastCheck",
                      "LastHostId">>, row)
HostUnpackFromSqlQuery(row) ==
    FromRow("Host", <<"HostId", "Domain", "IpAddress", "MacAddress", "NSlots", "ClusterName", "InstallationDate", "SrvVersion", "SrvPort", "SrvArchive",
                      "SrvRetrieve", "SrvProcess", "SrvRemove", "SrvDataChecking", "SrvState", "SrvSuspended", "SrvReqWakeUpSrv",
                      "SrvReqWakeUpTime">>, row)
SubscriberUnpackSqlResult(row) ==
    FromRow("Subscriber", <<"HostId", "PortNo", "Priority", "Id", "Url", "StartDate", "FilterPi", "FilterPiPars", "LastFileIngDate",
                            "ConcurrentThreads">>, row)
SummaryUnpackSqlInfo(row) ==
    FromRow("Summary", <<"SlotId", "MountPoint", "FileName", "Checksum", "ChecksumPlugIn", "FileId", "FileVersion", "FileSize", "FileStatus", "DiskId",
                         "Ignore", "HostId">>, row)

\* ngamsFileInfo.genSqlResult
genSqlResult(o) ==
    <<o.DiskId, o.FileName, o.FileId, ToInt(o.FileVersion), o.Format, ToInt(o.FileSize), ToInt(o.UncompressedFileSize), o.Compression,
      Iso(o.IngestionDate), ToInt(o.Ignore), o.Checksum, o.ChecksumPlugIn, o.FileStatus, Iso(o.CreationDate), o.TotalIoTime, o.IngestionRate,
      o.ContainerId>>
SummaryRow(o) ==
    [slot_id |-> o.SlotId, mount_point |-> o.MountPoint, file_name |-> o.FileName, checksum |-> o.Checksum, checksum_plugin |-> o.ChecksumPlugIn,
     file_id |-> o.FileId, file_version |-> o.FileVersion, file_size |-> o.FileSize, file_status |-> o.FileStatus, disk_id |-> o.DiskId,
     file_ignore |-> o.Ignore, host_id |-> o.HostId]

-----------------------------------------------------------------------------
(***************************************************************************)
(* As a copy, and from one class to another.                               *)
(***************************************************************************)

Copied(c, fs, o) == Made([f \in Names(c) |-> IF f \in fs THEN Set(c, f, o[f]) ELSE New(c)[f]])

FileClone(o) == Copied("File", Names("File") \ DOMAIN FileAccess, o)

\* ngamsReqProps.clone, which the request DB stores: the time of the request and the
\* completion time are those of the copy; the update time is set only if the request was
\* complete.
RequestClone(o) ==
    [Copied("Request", {"HttpMethod", "Cmd", "MimeType", "Size", "FileUri", "BytesReceived", "StagingFilename", "NoReplication", "RequestId",
                        "CompletionPercent", "ExpectedCount", "ActualCount", "EstTotalTime", "RemainingTime", "CompletionTime"}, o)
     EXCEPT !.LastRequestStatUpdate = IF Truthy(o.CompletionTime) THEN Date ELSE None]

\* setReqStatFromReqPropsObj
ReqStat(o) == [f \in Names("Status") |-> IF f \in DOMAIN StatusRequest THEN o[f] ELSE Text]
setReqStatFromReqPropsObj(o) == Made([f \in Names("Status") |-> Set("Status", f, ReqStat(o)[f])])

\* The ways an object of a class travels
Ways == [File |-> {"row", "sql", "reply", "list", "clone"}, Disk |-> {"row", "reply"}, Host |-> {"row"}, Subscriber |-> {"row"}, Summary |-> {"row"},
         Request |-> {"clone"}, Status |-> {"reply"}]
Travel(c, way, o) ==
    CASE c = "File" /\ way = "row" -> FileUnpackSqlResult(Select(_ngasFilesDef, writeFileEntry(o)))
      [] c = "File" /\ way = "sql" -> FileUnpackSqlResult(genSqlResult(o))
      [] c = "File" /\ way = "reply" -> FileFromDom(FileXml(o, FALSE))
      [] c = "File" /\ way = "list" -> FileFromDom(FileXml(o, TRUE))
      [] c = "File" /\ way = "clone" -> FileClone(o)
      [] c = "Disk" /\ way = "row" -> DiskUnpackSqlResult(Select(_ngasDisksDef, NewDiskRow(o)))
      [] c = "Disk" /\ way = "reply" -> DiskFromDom(DiskXml(o))
      [] c = "Host" -> HostUnpackFromSqlQuery(Select(_ngasHostsDef, writeHostInfo(o) @@ updateSrvHostInfo(o) @@ reqWakeUpCall(o)))
      [] c = "Subscriber" -> SubscriberUnpackSqlResult(Select(_ngasSubscribersDef, insertSubscriberEntry(o)))
      [] c = "Summary" -> SummaryUnpackSqlInfo(Select(_sum1Def, SummaryRow(o)))
      [] c = "Request" -> RequestClone(o)
      [] c = "Status" -> StatusFromDom(StatusXml(o))

-----------------------------------------------------------------------------

ObjInit ==
    /\ kind \in DOMAIN Fields /\ field \in Names(kind)
    /\ \E v \in Inputs(Fields[kind][field][2]) : orig = [f \in Names(kind) |-> IF f = field THEN v ELSE Usual(Fields[kind][f][2])]
    /\ obj = orig /\ hops = <<>>

TravelStep(way) ==
    /\ Len(hops) < ObjHops /\ obj # Raised /\ way \in Ways[kind]
    /\ obj' = Travel(kind, way, obj) /\ hops' = Append(hops, way) /\ UNCHANGED <<kind, field, orig>>

\* The status of a request that is asked for
StatusOfRequest ==
    /\ kind = "Request" /\ hops = <<>> /\ kind' = "Status" /\ field' = "RequestId"
    /\ obj' = setReqStatFromReqPropsObj(obj) /\ orig' = ReqStat(orig) /\ UNCHANGED hops

ObjNext == StatusOfRequest \/ \E way \in UNION {Ways[c] : c \in DOMAIN Ways} : TravelStep(way)

-----------------------------------------------------------------------------
(***************************************************************************)
(* Properties.                                                             *)
(***************************************************************************)

\* A number and the string of it are the same information; nothing and the word "None" are not.
Content(v) == IF v = None \/ v = Empty THEN "nothing"
              ELSE IF \E n \in Numerals : v.v = n \o ".0" THEN CHOOSE n \in Numerals : v.v = n \o ".0" ELSE v.v

\* What a way does not carry
NotCarried(c, way) ==
    CASE c = "File" /\ way \in {"row", "sql"} -> DOMAIN FileAccess \cup {"Tag", "TotalIoTime", "IngestionRate"} \cup IF way = "row" THEN {"ContainerId"} ELSE {}
      [] c = "File" /\ way = "clone" -> DOMAIN FileAccess
      [] c = "File" -> {"AccessDate", "ContainerId"}
      [] c = "Disk" -> {"LastCheck", "LastHostId"}
      [] c = "Request" -> {"RequestTime", "CompletionTime", "LastRequestStatUpdate", "IoTime", "Authorization"}
      [] OTHER -> {}

\* The information in an object survives every sequence of ways it may travel: row, reply,
\* list and copy change types, never values.  Lost or changed are the fields NotCarried
\* names; a file without a date has one after it was a row; 0 of a count is as good as none.
InformationKept ==
    obj # Raised =>
    \A f \in Names(kind) :
       \/ Content(obj[f]) = Content(orig[f])
       \/ \E i \in DOMAIN hops : f \in NotCarried(kind, hops[i])
       \/ IsDate(kind, f) /\ orig[f] = None /\ "row" \in {hops[i] : i \in DOMAIN hops}
       \/ orig[f] \in {N("0"), R("0")} /\ Fields[kind][f][1] \in {"int if", "float if", "plain if", "float or none"}

\* No way fails on an object that holds what a running server puts into it, also after other
\* ways have changed the types of its fields.  A host with 0 slots cannot be read back: its
\* n_slots is NULL.
NoWayFails == obj # Raised \/ (kind = "Host" /\ field = "NSlots")

\* Travelling the same way again changes nothing any more: copies of copies do not drift.
\* The I/O time does, which each row multiplies by 1000, and so does the completion time.
SettledAfterOne ==
    Len(hops) >= 1 /\ obj # Raised /\ Travel(kind, hops[Len(hops)], obj) # Raised =>
    \A f \in Names(kind) \ {"TotalIoTime", "LastRequestStatUpdate", "AccessDate"} : Content(Travel(kind, hops[Len(hops)], obj)[f]) = Content(obj[f])

=============================================================================
