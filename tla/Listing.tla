------------------------------ MODULE Listing -------------------------------
(***************************************************************************)
(* STATUS?file_list (commands/status.py): the files of the host are put    *)
(* into a DBM under a new ID, and handed out in portions of max_elements,  *)
(* by the first request and by those that come with the ID.  A portion is  *)
(* removed from the DBM after it has been sent.  A client may ask again    *)
(* while an earlier request is still being served.                         *)
(***************************************************************************)
EXTENDS Integers, FiniteSets

CONSTANTS
    LsFiles,   \* files of the host
    LsReqs,    \* requests
    LsMax,     \* max_elements
    LsEvents   \* bound on failing and lost replies and removed lists

ASSUME LsConfig == IsFiniteSet(LsFiles) /\ LsMax \in Nat \ {0} /\ LsEvents \in Nat

VARIABLES
    lsDbm,      \* elements of the DBM
    lsThere,    \* its file exists
    lsListed,   \* ghost: what was listed
    lsReq,      \* lsReq[r]: progress of a request
    lsGot,      \* files the client has received
    lsLost,     \* files of replies that were sent and never arrived
    lsEnd,      \* the client was told that nothing remains
    lsOdd,      \* ghost: two requests were served at a time; the list expired, or was removed
                \* by a request that failed; a file was received twice
    lsEvents

lsVars == <<lsDbm, lsThere, lsListed, lsReq, lsGot, lsLost, lsEnd, lsOdd, lsEvents>>

LsNothing == [overlap |-> FALSE, expired |-> FALSE, dropped |-> FALSE, repeated |-> FALSE]
LsIdle == [step |-> "idle", keys |-> {}, told |-> 0]

LsInit ==
    /\ lsDbm = {} /\ lsThere = FALSE /\ lsListed = {}
    /\ lsReq = [r \in LsReqs |-> LsIdle]
    /\ lsGot = {} /\ lsLost = {} /\ lsEnd = FALSE
    /\ lsOdd = LsNothing
    /\ lsEvents = 0

LsEvent == lsEvents < LsEvents /\ lsEvents' = lsEvents + 1
LsStep(r, step) == lsReq' = [lsReq EXCEPT ![r].step = step]

\* _handleFileList: the list, once; from_ingestion_date may leave files out.
handleFileList(r) ==
    /\ lsListed = {} /\ lsReq[r].step = "idle"
    /\ \E files \in (SUBSET LsFiles) \ {{}} : lsDbm' = files /\ lsListed' = files
    /\ lsThere' = TRUE
    /\ LsStep(r, "match")
    /\ UNCHANGED <<lsGot, lsLost, lsEnd, lsOdd, lsEvents>>

\* A request with the ID; one for a list that is gone is refused.
LsRequest(r) ==
    /\ lsListed # {} /\ lsReq[r].step = "idle" /\ lsThere /\ ~lsEnd
    /\ LsStep(r, "match")
    /\ lsOdd' = [lsOdd EXCEPT !.overlap = @ \/ \E q \in LsReqs : lsReq[q].step # "idle"]
    /\ UNCHANGED <<lsDbm, lsThere, lsListed, lsGot, lsLost, lsEnd, lsEvents>>

\* Mutant: what does not fit is not subtracted.
RemainingAll(keys) == Cardinality(lsDbm)

\* The header is written first, from the count of the DBM.
Remaining(keys) == IF Cardinality(lsDbm) > LsMax THEN Cardinality(lsDbm) - LsMax ELSE 0

\* Some LsMax elements, in the order of the DBM.
Portions == {k \in SUBSET lsDbm : Cardinality(k) = IF Cardinality(lsDbm) < LsMax THEN Cardinality(lsDbm) ELSE LsMax}

\* Mutant: elements leave the DBM when they are read.
LsReadRemoves(r) ==
    /\ lsReq[r].step = "match"
    /\ \E k \in Portions :
        /\ lsReq' = [lsReq EXCEPT ![r] = [step |-> "send", keys |-> k, told |-> Remaining(k)]]
        /\ lsDbm' = lsDbm \ k
    /\ lsThere' = TRUE
    /\ UNCHANGED <<lsListed, lsGot, lsLost, lsEnd, lsOdd, lsEvents>>

\* The XML document; a DBM that has been removed meanwhile is created again, empty.
LsRead(r) ==
    /\ lsReq[r].step = "match"
    /\ \E k \in Portions : lsReq' = [lsReq EXCEPT ![r] = [step |-> "send", keys |-> k, told |-> Remaining(k)]]
    /\ lsThere' = TRUE
    /\ UNCHANGED <<lsDbm, lsListed, lsGot, lsLost, lsEnd, lsOdd, lsEvents>>

\* The document cannot be made: the DBM is removed.
LsReadFails(r) ==
    /\ lsReq[r].step = "match" /\ LsEvent
    /\ lsReq' = [lsReq EXCEPT ![r] = LsIdle]
    /\ lsThere' = FALSE /\ lsDbm' = {}
    /\ lsOdd' = [lsOdd EXCEPT !.dropped = TRUE]
    /\ UNCHANGED <<lsListed, lsGot, lsLost, lsEnd>>

\* send_file: the reply arrives, is lost on the way, or cannot be sent.
LsSend(r) ==
    /\ lsReq[r].step = "send"
    /\ \/ /\ LsStep(r, "remove")
          /\ lsGot' = lsGot \cup lsReq[r].keys
          /\ lsEnd' = (lsEnd \/ lsReq[r].told = 0)
          /\ lsOdd' = [lsOdd EXCEPT !.repeated = @ \/ lsGot \cap lsReq[r].keys # {}]
          /\ UNCHANGED <<lsLost, lsEvents>>
       \/ /\ LsEvent
          /\ LsStep(r, "remove")
          /\ lsLost' = lsLost \cup lsReq[r].keys
          /\ UNCHANGED <<lsGot, lsEnd, lsOdd>>
       \/ /\ LsEvent
          /\ lsReq' = [lsReq EXCEPT ![r] = LsIdle]
          /\ UNCHANGED <<lsGot, lsLost, lsEnd, lsOdd>>
    /\ UNCHANGED <<lsDbm, lsThere, lsListed>>

\* Mutant: the portion stays in the DBM.
LsRemoveNot(r) ==
    /\ lsReq[r].step = "remove"
    /\ lsReq' = [lsReq EXCEPT ![r] = LsIdle]
    /\ UNCHANGED <<lsDbm, lsThere, lsListed, lsGot, lsLost, lsEnd, lsOdd, lsEvents>>

\* rem of a key that another request has removed raises, after those before it are gone.
LsRemove(r) ==
    /\ lsReq[r].step = "remove"
    /\ lsReq' = [lsReq EXCEPT ![r] = LsIdle]
    /\ IF lsReq[r].keys \subseteq lsDbm
       THEN lsDbm' = lsDbm \ lsReq[r].keys /\ lsThere' = (lsDbm' # {})
       ELSE /\ \E k \in SUBSET (lsReq[r].keys \cap lsDbm) : lsDbm' = lsDbm \ k
            /\ UNCHANGED lsThere
    /\ UNCHANGED <<lsListed, lsGot, lsLost, lsEnd, lsOdd, lsEvents>>

\* The Janitor removes DBM files that have not been used for long.
LsExpire ==
    /\ lsThere /\ LsEvent
    /\ lsThere' = FALSE /\ lsDbm' = {}
    /\ lsOdd' = [lsOdd EXCEPT !.expired = TRUE]
    /\ UNCHANGED <<lsListed, lsReq, lsGot, lsLost, lsEnd>>

LsNext == (\E r \in LsReqs : handleFileList(r) \/ LsRequest(r) \/ LsRead(r) \/ LsReadFails(r)
                         \/ LsSend(r) \/ LsRemove(r)) \/ LsExpire

LsSpec == LsInit /\ [][LsNext]_lsVars

-----------------------------------------------------------------------------
\* A client that is told that nothing remains has every listed file, also when replies
\* could not be sent and it asked again, while the first request was still being served or
\* after; only a reply lost on the way, a list that expired, or one that a failing request
\* removed while another was served, leaves gaps (_handleFileListReply).
AllReceived ==
    lsEnd => lsListed \subseteq lsGot \cup lsLost \/ lsOdd.expired \/ (lsOdd.dropped /\ lsOdd.overlap)

\* No file is received twice, unless requests for the list overlap.
NoneRepeated == lsOdd.repeated => lsOdd.overlap

\* What a reply says remains is what remains, once its portion is removed.
RemainingTold ==
    \A r \in LsReqs : lsReq[r].step = "send" /\ lsOdd = LsNothing
        => lsReq[r].told = Cardinality(lsListed \ (lsGot \cup lsLost \cup lsReq[r].keys))

=============================================================================
