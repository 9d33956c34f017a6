--------------------------- MODULE ClientRequests ---------------------------
(***************************************************************************)
(* A command from the command line of ngamsPClient to the handler in the   *)
(* server: main picks a method of the client, the method turns options     *)
(* into HTTP parameters, _get and _post look for a server that answers,    *)
(* and the handler makes what it can of the parameters.                    *)
(*                                                                         *)
(* An option is there or not.  A parameter value is "given" for what the   *)
(* user wrote, or what Python makes of an option that is not there.        *)
(***************************************************************************)
EXTENDS Integers, FiniteSets, TLC

CONSTANTS
    CrServers,   \* the servers the client knows
    CrFaults     \* bound on connections that fail

ASSUME CrConfig == CrServers # {} /\ CrFaults \in Nat

VARIABLES
    crCmd, crOpts,   \* the command line
    crStep,          \* "start", "send", "redirected", "done", "refused", "raised"
    crPars,          \* the HTTP parameters
    crLeft,          \* servers not tried yet
    crHops,          \* redirections so far
    crRead,          \* how much of the body has been read: 0, 1 (part), 2
    crSeen,          \* crSeen[o]: what the handler made of an option
    crBody,          \* how much of the body the server that handled the request got, or -1
    crFaults

crVars == <<crCmd, crOpts, crStep, crPars, crLeft, crHops, crRead, crSeen, crBody, crFaults>>

\* The options of every command.
Options ==
    [ARCHIVE |-> {"uri", "async", "nover", "version"}, CARCHIVE |-> {"uri"},
     CLONE |-> {"file", "disk", "version", "async"}, REGISTER |-> {"path", "async"},
     REMDISK |-> {"disk", "execute"}, REMFILE |-> {"disk", "file", "version", "execute"},
     RETRIEVE |-> {"file", "version", "plugin", "pluginpars"}, CACHEDEL |-> {"disk", "file", "version"},
     OFFLINE |-> {"force"}, LABEL |-> {"slot", "host"}, SUBSCRIBE |-> {"url", "priority", "start", "filter", "filterpars"},
     UNSUBSCRIBE |-> {"url"}, CAPPEND |-> {"file", "list", "cid", "cname", "force", "close"},
     CREMOVE |-> {"file", "list", "cid", "cname"}, CCREATE |-> {"cname", "parent", "hierarchy"},
     CDESTROY |-> {"cid", "cname", "recursive"}, CLIST |-> {"cid", "cname"}, CRETRIEVE |-> {"cid", "cname"}]

Flags == {"async", "nover", "execute", "force", "close", "recursive"}

Has(o) == o \in crOpts
NoPars == [p \in {} |-> ""]
Xor(a, b) == Has(a) # Has(b)

CrInit ==
    /\ crCmd \in DOMAIN Options /\ crOpts \in SUBSET Options[crCmd]
    /\ crStep = "start" /\ crPars = NoPars /\ crLeft = CrServers /\ crHops = 0
    /\ crRead = 0 /\ crSeen = NoPars /\ crBody = -1 /\ crFaults = 0

CrFault == crFaults < CrFaults /\ crFaults' = crFaults + 1

-----------------------------------------------------------------------------
(***************************************************************************)
(* The methods of ngamsPClient.                                            *)
(***************************************************************************)

\* What goes with urlencode: an option that is not there is None, a flag True or False.
CrPlain(o) == IF Has(o) THEN "given" ELSE "None"
Python(o) == IF Has(o) THEN "True" ELSE "False"
Bit(o) == IF Has(o) THEN "1" ELSE "0"
Version == IF Has("version") THEN "given" ELSE "-1"

\* A parameter that is there only when the option is.
When(o, par, val) == IF Has(o) THEN par :> val ELSE NoPars

Container == When("cid", "container_id", "given") @@ When("cname", "container_name", "given")

archive == ("async" :> Bit("async")) @@ ("no_versioning" :> Bit("nover")) @@ ("filename" :> "given")
           @@ ("file_version" :> Version)
\* main passes the async option as the target disk.
clone == ("async" :> "0") @@ When("file", "file_id", "given") @@ When("disk", "disk_id", "given")
         @@ When("version", "file_version", "given") @@ When("async", "target_disk_id", "True")

\* Mutant: async goes as Python has it.
registerPython == ("path" :> CrPlain("path")) @@ ("async" :> Python("async"))

register == ("path" :> CrPlain("path")) @@ ("async" :> Bit("async"))
remDisk == ("disk_id" :> CrPlain("disk")) @@ ("execute" :> Python("execute"))

\* Mutant: execute is always on.
remFileAlways == ("disk_id" :> CrPlain("disk")) @@ ("file_id" :> CrPlain("file")) @@ ("execute" :> "1")
                 @@ When("version", "file_version", "given")

remFile == ("disk_id" :> CrPlain("disk")) @@ ("file_id" :> CrPlain("file")) @@ ("execute" :> Bit("execute"))
           @@ When("version", "file_version", "given")
retrieve == ("file_id" :> CrPlain("file")) @@ When("version", "file_version", "given") @@ When("plugin", "processing", "given")
            @@ (IF Has("plugin") THEN When("pluginpars", "processingPars", "list") ELSE NoPars)
cachedel == ("disk_id" :> CrPlain("disk")) @@ ("file_id" :> CrPlain("file")) @@ ("file_version" :> Version)
offline == "force" :> Bit("force")
label == ("slot_id" :> CrPlain("slot")) @@ ("host_id" :> CrPlain("host"))
subscribe == ("url" :> "given") @@ When("priority", "priority", "given") @@ When("start", "start_date", "given")
             @@ When("filter", "filter_plug_in", "given") @@ When("filterpars", "plug_in_pars", "list")
cappend == Container @@ When("force", "force", "1") @@ When("close", "close_container", "1") @@ When("file", "file_id", "given")
cremove == Container @@ When("file", "file_id", "given")
ccreate == When("cname", "container_name", "given") @@ (IF Has("cname") THEN When("parent", "parent_container_id", "given") ELSE NoPars)
cdestroy == Container @@ When("recursive", "recursive", "1")

Pars ==
    [ARCHIVE |-> archive, CARCHIVE |-> NoPars, CLONE |-> clone, REGISTER |-> register, REMDISK |-> remDisk,
     REMFILE |-> remFile, RETRIEVE |-> retrieve, CACHEDEL |-> cachedel, OFFLINE |-> offline, LABEL |-> label,
     SUBSCRIBE |-> subscribe, UNSUBSCRIBE |-> "url" :> CrPlain("url"), CAPPEND |-> cappend, CREMOVE |-> cremove,
     CCREATE |-> ccreate, CDESTROY |-> cdestroy, CLIST |-> Container, CRETRIEVE |-> Container]

\* What main and the methods refuse.
CrRaises ==
    \/ crCmd \in {"ARCHIVE", "CARCHIVE"} /\ ~Has("uri")
    \/ crCmd = "SUBSCRIBE" /\ ~Has("url")
    \/ crCmd \in {"CAPPEND", "CREMOVE"} /\ ~(Xor("cid", "cname") /\ Xor("file", "list"))
    \/ crCmd \in {"CDESTROY", "CLIST"} /\ ~Xor("cid", "cname")
    \/ crCmd = "CRETRIEVE" /\ ~Has("cid") /\ ~Has("cname")
    \/ crCmd = "CCREATE" /\ ~Xor("cname", "hierarchy")

\* Requests with a body: a file, a document, or a stream that is read once.
BodyOf ==
    CASE crCmd = "ARCHIVE" -> "file"
      [] crCmd = "CARCHIVE" -> "stream"
      [] crCmd \in {"CAPPEND", "CREMOVE"} /\ Has("list") -> "document"
      [] crCmd = "CCREATE" /\ Has("hierarchy") -> "document"
      [] OTHER -> "none"

CrMain ==
    /\ crStep = "start"
    /\ IF CrRaises
       THEN crStep' = "raised" /\ UNCHANGED crPars
       ELSE crStep' = "send" /\ crPars' = Pars[crCmd]
    /\ UNCHANGED <<crCmd, crOpts, crLeft, crHops, crRead, crSeen, crBody, crFaults>>

-----------------------------------------------------------------------------
(***************************************************************************)
(* The handlers: <<option, parameter, how it is read>>.                    *)
(***************************************************************************)
Reads ==
    [ARCHIVE |-> {<<"uri", "filename", "text">>, <<"async", "async", "never">>,
                  <<"nover", "no_versioning", "int">>, <<"version", "file_version", "number">>},
     CARCHIVE |-> {},
     CLONE |-> {<<"file", "file_id", "text">>, <<"disk", "disk_id", "text">>, <<"version", "file_version", "number">>,
                <<"async", "async", "int">>},
     REGISTER |-> {<<"path", "path", "text">>, <<"async", "async", "int">>},
     REMDISK |-> {<<"disk", "disk_id", "text">>, <<"execute", "execute", "int">>},
     REMFILE |-> {<<"disk", "disk_id", "text">>, <<"file", "file_id", "text">>, <<"version", "file_version", "number">>,
                  <<"execute", "execute", "int">>},
     RETRIEVE |-> {<<"file", "file_id", "text">>, <<"version", "file_version", "number">>, <<"plugin", "processing", "text">>,
                   <<"pluginpars", "processing_pars", "text">>},
     CACHEDEL |-> {<<"disk", "disk_id", "text">>, <<"file", "file_id", "text">>, <<"version", "file_version", "number">>},
     OFFLINE |-> {<<"force", "force", "there">>},
     LABEL |-> {<<"slot", "slot_id", "text">>, <<"host", "host_id", "text">>},
     SUBSCRIBE |-> {<<"url", "url", "text">>, <<"priority", "priority", "text">>, <<"start", "start_date", "text">>,
                    <<"filter", "filter_plug_in", "text">>, <<"filterpars", "plug_in_pars", "text">>},
     UNSUBSCRIBE |-> {<<"url", "url", "text">>},
     CAPPEND |-> {<<"cid", "container_id", "text">>, <<"cname", "container_name", "text">>, <<"file", "file_id", "text">>,
                  <<"force", "force", "one">>, <<"close", "close_container", "one">>},
     CREMOVE |-> {<<"cid", "container_id", "text">>, <<"cname", "container_name", "text">>, <<"file", "file_id", "text">>},
     CCREATE |-> {<<"cname", "container_name", "text">>, <<"parent", "parent_container_id", "header">>},
     CDESTROY |-> {<<"cid", "container_id", "text">>, <<"cname", "container_name", "text">>, <<"recursive", "recursive", "one">>},
     CLIST |-> {<<"cid", "container_id", "text">>, <<"cname", "container_name", "text">>},
     CRETRIEVE |-> {<<"cid", "container_id", "text">>, <<"cname", "container_name", "text">>}]

\* A parameter as it is read; no header of that name is ever sent.
Got(par, how) ==
    CASE how = "never" -> "0"
      [] how = "there" -> IF par \in DOMAIN crPars THEN "1" ELSE "0"
      [] how \in {"one", "int"} -> IF par \in DOMAIN crPars THEN crPars[par] ELSE "0"
      [] how = "number" /\ par \in DOMAIN crPars /\ crPars[par] = "-1" -> "absent"
      [] how # "header" /\ par \in DOMAIN crPars -> crPars[par]
      [] OTHER -> "absent"

\* int() of True and False raises.
Refused == \E r \in Reads[crCmd] : r[3] = "int" /\ Got(r[2], r[3]) \notin {"0", "1"}

Understood ==
    [o \in {r[1] : r \in Reads[crCmd]} |->
        LET r == CHOOSE x \in Reads[crCmd] : x[1] = o IN Got(r[2], r[3])]

-----------------------------------------------------------------------------
(***************************************************************************)
(* _get and _post.                                                         *)
(***************************************************************************)

\* Mutant: the file is sent from where the last attempt left it.
BodyFromHere == crRead = 0

\* sendfile starts at offset 0 and a document is in memory; a stream goes on where it is.
BodyWhole == BodyOf # "stream" \/ crRead = 0

\* No connection, or it breaks while the body is sent: the next server, an error after the last.
CrNoAnswer(s, part) ==
    /\ crStep = "send" /\ s \in crLeft /\ CrFault
    /\ part > 0 => BodyOf # "none"
    /\ crLeft' = crLeft \ {s}
    /\ crRead' = IF part > crRead THEN part ELSE crRead
    /\ crStep' = IF crLeft = {s} THEN "raised" ELSE "send"
    /\ UNCHANGED <<crCmd, crOpts, crPars, crHops, crSeen, crBody>>

\* A server answers, having handled the request.  After five redirections the answer is
\* not looked at.
CrHandled(s) ==
    /\ \/ crStep = "send" /\ s \in crLeft
       \/ crStep = "redirected"
    /\ crSeen' = Understood
    /\ crBody' = IF BodyOf = "none" \/ BodyWhole THEN 2 ELSE 1
    /\ crRead' = IF BodyOf = "none" THEN crRead ELSE 2
    /\ crStep' = IF crHops = 5 THEN "raised" ELSE IF Refused THEN "refused" ELSE "done"
    /\ UNCHANGED <<crCmd, crOpts, crPars, crLeft, crHops, crFaults>>

\* CACHEDEL and RETRIEVE (CHECKFILE and STATUS of a file too) may be redirected to the host
\* that has the file; at most five times.
CrRedirect(s) ==
    /\ crCmd \in {"CACHEDEL", "RETRIEVE"}
    /\ \/ crStep = "send" /\ s \in crLeft
       \/ crStep = "redirected"
    /\ IF crHops = 5 THEN crStep' = "raised" /\ UNCHANGED crHops
                     ELSE crStep' = "redirected" /\ crHops' = crHops + 1
    /\ UNCHANGED <<crCmd, crOpts, crPars, crLeft, crRead, crSeen, crBody, crFaults>>

\* After a redirection there is no other server to try.
CrLost ==
    /\ crStep = "redirected" /\ CrFault
    /\ crStep' = "raised"
    /\ UNCHANGED <<crCmd, crOpts, crPars, crLeft, crHops, crRead, crSeen, crBody>>

CrNext ==
    \/ CrMain \/ CrLost
    \/ \E s \in CrServers :
          \/ \E part \in 0..2 : CrNoAnswer(s, part)
          \/ CrHandled(s) \/ CrRedirect(s)

CrSpec == CrInit /\ [][CrNext]_crVars

-----------------------------------------------------------------------------
Meant(o) == IF o \in Flags THEN Bit(o) ELSE IF Has(o) THEN "given" ELSE "absent"

\* Options the handlers are known to take otherwise than they were meant: OFFLINE is always
\* forced; ARCHIVE and CLONE are never asynchronous; parameters of plug-ins and the parent of a container
\* do not arrive; an option left out arrives as "None" where the method passes it on.
Misread(o) ==
    \/ <<crCmd, o>> \in {<<"OFFLINE", "force">>, <<"CLONE", "async">>, <<"ARCHIVE", "async">>, <<"RETRIEVE", "pluginpars">>,
                         <<"SUBSCRIBE", "filterpars">>, <<"CCREATE", "parent">>}
    \/ crSeen[o] = "None" /\ ~Has(o)

\* A request that is handled is understood the way the user meant it, flags that let something
\* be removed included, except as just said.
UnderstoodAsMeant ==
    crStep = "done" => \A o \in DOMAIN crSeen : crSeen[o] = Meant(o) \/ Misread(o)

\* A server that handles a request with a body has got the whole body, also when the client had
\* begun to send it to another server; not so for the stream of a container.
BodyArrivesWhole == crBody = 1 => BodyOf = "stream"

\* What the client sends is not refused for its form, whatever options there are; REMDISK always is.
FormAccepted == crStep = "refused" => crCmd = "REMDISK"

=============================================================================
