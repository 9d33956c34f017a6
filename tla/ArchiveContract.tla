--------------------------- MODULE ArchiveContract ---------------------------
(***************************************************************************)
(* What the archive promises a client that sends a file, with nothing said *)
(* of disks, rows, buffers or processes: data that is archived stays       *)
(* archived, a client is told once, and is told only what is true.         *)
(* Requests for one File ID at the same time are outside the promise.      *)
(***************************************************************************)
CONSTANT Requests   \* the Archive Requests

VARIABLES
    reply,     \* reply[r]: what the client was told
    where,     \* where[r]: the data of r is "nowhere", "kept", or "archived"
    contested  \* the requests whose File ID two actors have handled at once

contractVars == <<reply, where, contested>>

Init ==
    /\ reply = [r \in Requests |-> "none"]
    /\ where = [r \in Requests |-> "nowhere"]
    /\ contested = {}

\* Data arrives, is archived, or is given up, which it may be as long as the client was told
\* nothing good of it.
Store(r) == where[r] = "nowhere" /\ where' = [where EXCEPT ![r] = "kept"]
Archived(r) == where[r] = "kept" /\ where' = [where EXCEPT ![r] = "archived"]
Drop(r) ==
    /\ where[r] = "kept" /\ reply[r] \notin {"ok", "buffered"}
    /\ where' = [where EXCEPT ![r] = "nowhere"]

\* Of contested requests nothing is promised; one may gain what another loses.
Contend == \E R \in SUBSET contested' : /\ R # {}
                                        /\ where' \in [Requests -> {"nowhere", "kept", "archived"}]
                                        /\ \A r \in Requests \ R : where'[r] = where[r]

Confirm(r) ==
    /\ reply[r] = "none"
    /\ \/ (where[r] = "archived" \/ r \in contested) /\ reply' = [reply EXCEPT ![r] = "ok"]
       \/ (where[r] # "nowhere" \/ r \in contested) /\ reply' = [reply EXCEPT ![r] = "buffered"]
    /\ UNCHANGED where

Refuse(r) ==
    /\ reply[r] = "none" /\ reply' = [reply EXCEPT ![r] = "failed"]
    /\ \/ UNCHANGED where
       \/ where[r] = "kept" /\ where' = [where EXCEPT ![r] = "nowhere"]

Next ==
    /\ contested \subseteq contested'
    /\ \/ \E r \in Requests : Confirm(r) \/ Refuse(r)
       \/ /\ UNCHANGED reply
          /\ \/ \E r \in Requests : Store(r) \/ Archived(r) \/ Drop(r)
             \/ Contend
             \/ UNCHANGED where

Spec == Init /\ [][Next]_contractVars

=============================================================================
