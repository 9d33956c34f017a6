------------------------------ MODULE Cluster -------------------------------
(***************************************************************************)
(* The hosts of a cluster looking for a file together.  RETRIEVE finds the *)
(* copy to send from ngas_files alone (quick location), or tries the       *)
(* copies in turn, asking the other hosts by STATUS?file_access, which     *)
(* look for it in the same way.  A host is suspended when it has nothing   *)
(* to do, and woken by who needs it or by the host it asked to.            *)
(***************************************************************************)
EXTENDS Integers, Sequences, FiniteSets, SequencesExt

CONSTANTS
    ClHosts,   \* the hosts
    ClWaker,   \* WakeUpServerHost of the configuration
    ClPool,    \* MaxSimReqs
    ClRows,    \* the rows of ngas_files to begin with (see clRow)
    ClFaults   \* bound on suspensions, crashes and lost files

ASSUME ClConfig == ClWaker \in ClHosts /\ ClPool \in Nat \ {0} /\ ClFaults \in Nat /\ ClRows \subseteq [ClHosts -> 0..2]

VARIABLES
    clCfg,    \* the configuration: proxy mode, partner sites, data checking
    clRow,    \* clRow[h]: the version of the file h has a row for, 0 for none
    clDisk,   \* the hosts that have the file of their row
    clState,  \* clState[h]: "online", "suspended", "starting" or "down"
    clSusp,   \* the hosts with srv_suspended set
    clReqWake,\* the hosts with srv_req_wake_up_srv set (to ClWaker)
    clJan,    \* the hosts whose Janitor is about to call the Suspension Plug-In
    clStack,  \* the requests waiting for each other, the client's first
    clAnswer, \* the answer to the last request but one of clStack, or NoAnswer
    clGot,    \* what the client has: "nothing yet", "failed", "data" or "redirect"
    clQuick,  \* quick_location of the client's request
    clExcuse, \* a host was out of reach or refused, or a copy was lost during the client's
              \* request
    clFaults  \* suspensions, crashes and lost files so far

clVars == <<clCfg, clRow, clDisk, clState, clSusp, clReqWake, clJan, clStack, clAnswer, clGot,
           clQuick, clExcuse, clFaults>>
clHostVars == <<clCfg, clRow, clDisk, clState, clSusp, clReqWake, clJan, clQuick, clFaults>>

NoAnswer == [kind |-> "none", host |-> ClWaker, ver |-> 0]
Failed == [NoAnswer EXCEPT !.kind = "failed"]

\* A request in a thread of a host: the command, the version asked for (0: the
\* latest), quick_location, and how far it has come.
ClFrame(h, cmd, ver, quick) ==
    [at |-> h, cmd |-> cmd, ver |-> ver, quick |-> quick, step |-> "locate", left |-> <<>>]

ClInit ==
    /\ clCfg \in [proxy : BOOLEAN, partner : {"unavailable", "available"}, check : BOOLEAN]
    /\ clRow \in ClRows
    /\ clDisk \in SUBSET {h \in ClHosts : clRow[h] > 0}
    /\ clState = [h \in ClHosts |-> "online"] /\ clSusp = {} /\ clReqWake = {} /\ clJan = {}
    /\ clStack = <<>> /\ clAnswer = NoAnswer /\ clGot = [NoAnswer EXCEPT !.kind = "nothing yet"]
    /\ clQuick = FALSE /\ clExcuse = FALSE /\ clFaults = 0

-----------------------------------------------------------------------------
(***************************************************************************)
(* Requests and answers.                                                   *)
(***************************************************************************)
Top == Last(clStack)
Threads(h) == Cardinality({i \in DOMAIN clStack : clStack[i].at = h})
Reachable(h) == clState[h] = "online" /\ Threads(h) < ClPool

\* The top request goes on with another step, or with other candidates.
ClStep(step) == clStack' = [clStack EXCEPT ![Len(clStack)].step = step]
ClTry(left) == clStack' = [clStack EXCEPT ![Len(clStack)].step = "try", ![Len(clStack)].left = left]

\* The top request is answered: the one below it goes on, or the client has it.
ClReply(answer) ==
    /\ clStack' = Front(clStack)
    /\ IF Len(clStack) = 1 THEN clGot' = answer /\ clAnswer' = NoAnswer
                           ELSE clAnswer' = answer /\ UNCHANGED clGot

\* The top request sends one to another host and waits in that step for the answer; a
\* host that is down, or whose threads are all used, makes it fail as Otherwise says.
Send(frame, step, Otherwise) ==
    IF Reachable(frame.at)
    THEN /\ clStack' = Append([clStack EXCEPT ![Len(clStack)].step = step], frame)
         /\ UNCHANGED <<clAnswer, clGot, clExcuse>>
    ELSE clExcuse' = TRUE /\ Otherwise

\* A client asks for the file (the excuses start anew).
Retrieve(h, quick) ==
    /\ clStack = <<>> /\ clGot.kind = "nothing yet" /\ clState[h] = "online"
    /\ clStack' = <<ClFrame(h, "RETRIEVE", 0, quick)>>
    /\ clExcuse' = FALSE /\ clQuick' = quick
    /\ UNCHANGED <<clAnswer, clGot, clCfg, clRow, clDisk, clState, clSusp, clReqWake, clJan, clFaults>>

\* The client follows the redirection, with the same parameters.
Follow ==
    /\ clStack = <<>> /\ clGot.kind = "redirect" /\ clState[clGot.host] = "online"
    /\ clStack' = <<ClFrame(clGot.host, "RETRIEVE", 0, clQuick)>>
    /\ clGot' = [NoAnswer EXCEPT !.kind = "nothing yet"]
    /\ UNCHANGED <<clAnswer, clExcuse, clHostVars>>

-----------------------------------------------------------------------------
(***************************************************************************)
(* Locating the file.                                                      *)
(***************************************************************************)

\* quickFileLocate: one of the rows with the latest version, without looking whether
\* its file is there.
quickFileLocate ==
    /\ Top.step = "locate" /\ Top.quick
    /\ \E h \in ClHosts :
          /\ clRow[h] > 0 /\ \A g \in ClHosts : clRow[g] <= clRow[h]
          /\ clStack' = [clStack EXCEPT ![Len(clStack)].step = "found",
                            ![Len(clStack)].left = <<[host |-> h, ver |-> clRow[h], susp |-> FALSE]>>]
    /\ UNCHANGED <<clAnswer, clGot, clExcuse, clHostVars>>

\* The rows that are candidates, with the Suspended flag each host has now.
Candidates(f) ==
    {[host |-> h, ver |-> clRow[h], susp |-> h \in clSusp] :
        h \in {g \in ClHosts : clRow[g] > 0 /\ f.ver \in {0, clRow[g]}}}

\* resolveHostAddress: the host itself, or another one of its cluster (hosts of other
\* clusters of the domain are not modelled).
resolveHostAddress(h, here) == IF h = here THEN "LOCAL" ELSE "CLUSTER"

\* The latest version first; of one version the copy of this host first.
Preferred(c, d, here) == c.ver > d.ver \/ (c.ver = d.ver /\ (resolveHostAddress(d.host, here) = "LOCAL" => c.host = here))

\* _locateArchiveFile up to the list of the candidates in the order they are tried.
locateArchiveFile ==
    /\ Top.step = "locate"
    /\ Top.quick => \A h \in ClHosts : clRow[h] = 0
    /\ \E order \in SetToSeqs(Candidates(Top)) :
          /\ \A i, j \in DOMAIN order : i < j => Preferred(order[i], order[j], Top.at)
          /\ ClTry(order)
    /\ UNCHANGED <<clAnswer, clGot, clExcuse, clHostVars>>

\* The candidate is on this host: its file is there or not.
TryLocal ==
    /\ Top.step = "try" /\ Top.left # <<>> /\ resolveHostAddress(Head(Top.left).host, Top.at) = "LOCAL"
    /\ IF Top.at \in clDisk THEN ClStep("found") ELSE ClTry(Tail(Top.left))
    /\ UNCHANGED <<clAnswer, clGot, clExcuse, clHostVars>>

\* The candidate is on a host that was suspended: the Wake-Up Plug-In, and pings until
\* the host answers ...
WakeUpCandidate ==
    /\ Top.step = "try" /\ Top.left # <<>> /\ Head(Top.left).host # Top.at /\ Head(Top.left).susp
    /\ ClStep("waking")
    /\ clState' = [clState EXCEPT ![Head(Top.left).host] = IF @ = "suspended" THEN "starting" ELSE @]
    /\ UNCHANGED <<clAnswer, clGot, clExcuse, clCfg, clRow, clDisk, clSusp, clReqWake, clJan, clQuick, clFaults>>

\* ... or until the time is over, which makes the next candidate be tried.
Woken ==
    /\ Top.step = "waking"
    /\ \/ /\ clState[Head(Top.left).host] = "online"
          /\ ClTry([Top.left EXCEPT ![1].susp = FALSE])
          /\ UNCHANGED clExcuse
       \/ /\ ClTry(Tail(Top.left))
          /\ clExcuse' = TRUE
    /\ UNCHANGED <<clAnswer, clGot, clHostVars>>

\* The candidate is on another host: it is asked.  When that fails, so does the lookup,
\* although other candidates may be left.
TryRemote ==
    /\ Top.step = "try" /\ Top.left # <<>> /\ Head(Top.left).host # Top.at /\ ~Head(Top.left).susp
    /\ Send(ClFrame(Head(Top.left).host, "STATUS", Head(Top.left).ver, FALSE), "asked",
            ClStep("partner") /\ UNCHANGED <<clAnswer, clGot>>)
    /\ UNCHANGED clHostVars

\* Mutant: a host that does not have the file ends the lookup.
AskedGivesUp ==
    /\ Top.step = "asked" /\ clAnswer # NoAnswer
    /\ ClStep(IF clAnswer.kind = "available" THEN "found" ELSE "partner")
    /\ clAnswer' = NoAnswer
    /\ UNCHANGED <<clGot, clExcuse, clHostVars>>

\* Its answer: the file is available (there, or somewhere it knows of), or not; a broken
\* connection ends the lookup.
Asked ==
    /\ Top.step = "asked" /\ clAnswer # NoAnswer
    /\ CASE clAnswer.kind = "available" -> ClStep("found")
         [] clAnswer.kind = "broken" -> ClStep("partner")
         [] OTHER -> ClTry(Tail(Top.left))
    /\ clAnswer' = NoAnswer
    /\ UNCHANGED <<clGot, clExcuse, clHostVars>>

NoneLeft ==
    /\ Top.step = "try" /\ Top.left = <<>>
    /\ ClStep("partner")
    /\ UNCHANGED <<clAnswer, clGot, clExcuse, clHostVars>>

\* lookup_partner_site_file_status: the partner sites are asked, which do not ask
\* further (partner_site_redirect), and RETRIEVE passes on what they send.  STATUS
\* always fails here (an argument is missing in the call).
AskPartners ==
    /\ Top.step = "partner"
    /\ ClReply(IF Top.cmd = "RETRIEVE" /\ clCfg.partner = "available"
             THEN [NoAnswer EXCEPT !.kind = "remote"] ELSE Failed)
    /\ UNCHANGED <<clExcuse, clHostVars>>

-----------------------------------------------------------------------------
(***************************************************************************)
(* What is done with the copy that was found.                              *)
(***************************************************************************)
Chosen == Head(Top.left)

\* STATUS: the copy is here; or the other host is asked again and its message passed on.
StatusFound ==
    /\ Top.step = "found" /\ Top.cmd = "STATUS"
    /\ IF Chosen.host = Top.at
       THEN ClReply([kind |-> "available", host |-> Top.at, ver |-> Chosen.ver]) /\ UNCHANGED clExcuse
       ELSE Send(ClFrame(Chosen.host, "STATUS", Chosen.ver, FALSE), "relayed", ClReply(Failed))
    /\ UNCHANGED clHostVars

\* RETRIEVE of a copy here: it is sent, if it is still there.
RetrieveLocal ==
    /\ Top.step = "found" /\ Top.cmd = "RETRIEVE" /\ Chosen.host = Top.at
    /\ ClReply(IF Top.at \in clDisk THEN [kind |-> "data", host |-> Top.at, ver |-> Chosen.ver] ELSE Failed)
    /\ UNCHANGED <<clExcuse, clHostVars>>

\* RETRIEVE of a copy elsewhere without proxy mode: the client is sent there.
RetrieveRedirect ==
    /\ Top.step = "found" /\ Top.cmd = "RETRIEVE" /\ Chosen.host # Top.at /\ ~clCfg.proxy
    /\ ClReply([kind |-> "redirect", host |-> Chosen.host, ver |-> Chosen.ver])
    /\ UNCHANGED <<clExcuse, clHostVars>>

\* With proxy mode the request is passed on as it is.  A host that is marked as
\* suspended is woken first; a wake-up in vain makes the request fail.
ProxyWake ==
    /\ Top.step = "found" /\ Top.cmd = "RETRIEVE" /\ Chosen.host # Top.at /\ clCfg.proxy
    /\ Chosen.host \in clSusp
    /\ ClStep("proxy waking")
    /\ clState' = [clState EXCEPT ![Chosen.host] = IF @ = "suspended" THEN "starting" ELSE @]
    /\ UNCHANGED <<clAnswer, clGot, clExcuse, clCfg, clRow, clDisk, clSusp, clReqWake, clJan, clQuick, clFaults>>

ProxyRequest ==
    /\ \/ Top.step = "found" /\ Chosen.host \notin clSusp
       \/ Top.step = "proxy waking" /\ clState[Chosen.host] = "online"
    /\ Top.cmd = "RETRIEVE" /\ Chosen.host # Top.at /\ clCfg.proxy
    /\ Send(ClFrame(Chosen.host, "RETRIEVE", 0, Top.quick), "relayed", ClReply(Failed))
    /\ UNCHANGED clHostVars

ProxyGivesUp ==
    /\ Top.step = "proxy waking"
    /\ clExcuse' = TRUE
    /\ ClReply(Failed)
    /\ UNCHANGED clHostVars

\* The answer of the other host is passed on.
Relayed ==
    /\ Top.step = "relayed" /\ clAnswer # NoAnswer
    /\ clStack' = Front(clStack)
    /\ IF Len(clStack) = 1 THEN clGot' = clAnswer /\ clAnswer' = NoAnswer
                           ELSE UNCHANGED <<clGot, clAnswer>>
    /\ UNCHANGED <<clExcuse, clHostVars>>

-----------------------------------------------------------------------------
(***************************************************************************)
(* Suspension, wake-up, start and faults.                                  *)
(***************************************************************************)
ClFault == clFaults < ClFaults /\ clFaults' = clFaults + 1

\* The host stops: the requests from its first one on are broken off.
Broken(h) ==
    LET at == {i \in DOMAIN clStack : clStack[i].at = h}
    IN IF at = {} THEN UNCHANGED <<clStack, clAnswer, clGot, clExcuse>>
       ELSE LET i == CHOOSE j \in at : \A k \in at : j <= k
            IN /\ clStack' = SubSeq(clStack, 1, i - 1)
               /\ clExcuse' = TRUE
               /\ IF i = 1 THEN clGot' = Failed /\ clAnswer' = NoAnswer
                  ELSE clAnswer' = [NoAnswer EXCEPT !.kind = "broken"] /\ UNCHANGED clGot

\* host_suspender of the Janitor: with data checking the host asks to be woken for the
\* next check, and it is marked as suspended.  The Janitor is another process: it does
\* not see the requests under way.
MarkHostSuspended(h) ==
    /\ ClFault
    /\ clState[h] = "online" /\ h \notin clJan
    /\ clSusp' = clSusp \cup {h}
    /\ clReqWake' = IF clCfg.check THEN clReqWake \cup {h} ELSE clReqWake
    /\ clJan' = clJan \cup {h}
    /\ UNCHANGED <<clCfg, clRow, clDisk, clState, clStack, clAnswer, clGot, clQuick, clExcuse>>

\* The Suspension Plug-In turns it off ...
SuspensionPlugIn(h) ==
    /\ h \in clJan
    /\ clState' = [clState EXCEPT ![h] = "suspended"]
    /\ clJan' = clJan \ {h}
    /\ Broken(h)
    /\ UNCHANGED <<clCfg, clRow, clDisk, clSusp, clReqWake, clQuick, clFaults>>

\* ... or fails, and the marks stay.
SuspensionFails(h) ==
    /\ h \in clJan
    /\ clJan' = clJan \ {h}
    /\ UNCHANGED <<clCfg, clRow, clDisk, clState, clSusp, clReqWake, clStack, clAnswer, clGot, clQuick, clExcuse, clFaults>>

\* wake_up_request_processor: the hosts whose time has come are woken.
WakeUpRequest(h) ==
    /\ clState[ClWaker] = "online" /\ h \in clReqWake \cap clSusp /\ clState[h] = "suspended"
    /\ clState' = [clState EXCEPT ![h] = "starting"]
    /\ UNCHANGED <<clCfg, clRow, clDisk, clSusp, clReqWake, clJan, clStack, clAnswer, clGot, clQuick, clExcuse, clFaults>>

\* Mutant: the marks of every host are reset.
StartResetsAll(h) ==
    /\ clState[h] \in {"starting", "down"}
    /\ clState' = [clState EXCEPT ![h] = "online"]
    /\ clSusp' = {} /\ clReqWake' = {}
    /\ UNCHANGED <<clCfg, clRow, clDisk, clJan, clStack, clAnswer, clGot, clQuick, clExcuse, clFaults>>

\* Start-up: the marks are reset (resetWakeUpCall) before requests are served.
StartUp(h) ==
    /\ clState[h] \in {"starting", "down"}
    /\ clState' = [clState EXCEPT ![h] = "online"]
    /\ clSusp' = clSusp \ {h} /\ clReqWake' = clReqWake \ {h}
    /\ UNCHANGED <<clCfg, clRow, clDisk, clJan, clStack, clAnswer, clGot, clQuick, clExcuse, clFaults>>

\* The host crashes, with the Janitor.
ClCrash(h) ==
    /\ ClFault
    /\ clState[h] = "online"
    /\ clState' = [clState EXCEPT ![h] = "down"]
    /\ clJan' = clJan \ {h}
    /\ Broken(h)
    /\ UNCHANGED <<clCfg, clRow, clDisk, clSusp, clReqWake, clQuick>>

\* A copy disappears.
ClLose(h) ==
    /\ ClFault
    /\ h \in clDisk
    /\ clDisk' = clDisk \ {h} /\ clExcuse' = TRUE
    /\ UNCHANGED <<clCfg, clRow, clState, clSusp, clReqWake, clJan, clStack, clAnswer, clGot, clQuick>>

ClNext ==
    \/ \E h \in ClHosts :
          \/ \E quick \in BOOLEAN : Retrieve(h, quick)
          \/ MarkHostSuspended(h) \/ SuspensionPlugIn(h) \/ SuspensionFails(h) \/ WakeUpRequest(h) \/ StartUp(h)
          \/ ClCrash(h) \/ ClLose(h)
    \/ Follow
    \/ /\ clStack # <<>>
       /\ \/ quickFileLocate \/ locateArchiveFile \/ TryLocal \/ WakeUpCandidate \/ Woken
          \/ TryRemote \/ Asked \/ NoneLeft \/ AskPartners
          \/ StatusFound \/ RetrieveLocal \/ RetrieveRedirect
          \/ ProxyWake \/ ProxyRequest \/ ProxyGivesUp \/ Relayed

-----------------------------------------------------------------------------
(***************************************************************************)
(* Properties.                                                             *)
(***************************************************************************)

\* On a cluster of which no host failed, refused (for a full pool) or was woken in vain
\* meanwhile, a request without quick_location is answered with the latest version there is
\* a copy of, also when the host of that copy was suspended or knows of it only from others;
\* one with quick_location with the latest version there is a row of, or it fails because the
\* file of such a row is missing (quickFileLocate, _locateArchiveFile, _checkFileAccess).
NewestServed ==
    clStack = <<>> /\ ~clExcuse /\ clGot.kind \in {"data", "failed", "remote"}
        => IF clQuick
           THEN LET newest == {h \in ClHosts : \A g \in ClHosts : clRow[g] <= clRow[h]}
                IN \/ clGot.kind = "data" /\ \E h \in newest : clGot.ver = clRow[h]
                   \/ clGot.kind # "data" /\ ~(newest \subseteq clDisk)
           ELSE \A h \in clDisk : clRow[h] <= clGot.ver

\* A host that is off has its mark in ngas_hosts, whatever woke it and how soon it was
\* suspended again: the others know that it must be woken; and with data checking the host
\* it asked will do so (host_suspender, resetWakeUpCall at start-up, ngamsServer.py:2211).
SuspendedKnown ==
    \A h \in ClHosts : clState[h] = "suspended" => h \in clSusp /\ (clCfg.check => h \in clReqWake)

\* The hosts of a cluster together serve the newest version of a file that one of them has, and a
\* suspended host is known as such until it is up again.
ClusterServes == NewestServed /\ SuspendedKnown

=============================================================================
