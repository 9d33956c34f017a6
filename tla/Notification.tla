---------------------------- MODULE Notification ----------------------------
(***************************************************************************)
(* E-mail notifications (ngamsNotification): the first message of a kind   *)
(* is sent at once, later ones are kept in a Retention Buffer until there  *)
(* are enough of them, the first is old enough, or the server goes Online  *)
(* or Offline.  The buffer is in the memory of the server and, as a copy   *)
(* made when it was forked, in that of the Janitor process; both write it  *)
(* to the same file.                                                       *)
(***************************************************************************)
EXTENDS Integers, FiniteSets

CONSTANTS
    NfKinds,    \* kinds of messages: type and subject
    NfMessages, \* bound on the number of messages
    NfMax,      \* MaxRetentionSize
    NfEvents    \* bound on crashes, stops of the Janitor and e-mails that fail

ASSUME NfConfig == NfMessages \in Nat /\ NfMax \in Nat \ {0} /\ NfEvents \in Nat

NfProcs == {"server", "janitor"}

VARIABLES
    nfBuf,    \* nfBuf[p]: retentionBuf_
    nfFile,   \* the pickle file: the buffer and who wrote it
    nfPend,   \* nfPend[p]: messages taken out of the buffer and not sent yet
    nfUp,     \* the processes that run
    nfStuck,  \* the Janitor was forked while the server held notifSem_
    nfNext,   \* the next message
    nfSent,   \* nfSent[m]: how often a message was sent
    nfOdd,    \* ghost: what the checks below allow for
    nfEvents

nfVars == <<nfBuf, nfFile, nfPend, nfUp, nfStuck, nfNext, nfSent, nfOdd, nfEvents>>

NfEmpty == [i \in NfKinds |-> [known |-> FALSE, held |-> {}]]
NfHeld(buf) == UNION {buf[i].held : i \in NfKinds}

NfInit ==
    /\ nfBuf = [p \in NfProcs |-> NfEmpty]
    /\ nfFile = [buf |-> NfEmpty, by |-> "nobody"]
    /\ nfPend = [p \in NfProcs |-> {}]
    /\ nfUp = {"server"} /\ nfStuck = FALSE
    /\ nfNext = 1
    /\ nfSent = [m \in 1 .. NfMessages |-> 0]
    /\ nfOdd = [lost |-> {}, both |-> {}]
    /\ nfEvents = 0

NfEvent == nfEvents < NfEvents /\ nfEvents' = nfEvents + 1

\* notifSem_ is free and the process can take it.
NfFree(p) == p \in nfUp /\ nfPend[p] = {} /\ (p = "janitor" => ~nfStuck)

\* An empty buffer is looked for in the file.
Buffer(p) == IF nfBuf[p] = NfEmpty THEN nfFile.buf ELSE nfBuf[p]

\* Messages that both processes have now.
InBoth(p, buf) == NfHeld(buf) \cap UNION {NfHeld(nfBuf[q]) : q \in nfUp \ {p}}

\* Mutant: retained messages are in memory only.
createObjPickleFileOnlyKinds(p, buf) ==
    nfFile' = [buf |-> [i \in NfKinds |-> [buf[i] EXCEPT !.held = {}]], by |-> p]

createObjPickleFile(p, buf) == nfFile' = [buf |-> buf, by |-> p]

\* Mutant: the messages stay in the buffer they were sent from.
TakenNot(buf, i) == buf

\* The entry is written again, empty.
Taken(buf, i) == [buf EXCEPT ![i] = [known |-> TRUE, held |-> {}]]

\* notify: sent at once, retained, or retained and sent with the others.
notify(p, i) ==
    LET buf == Buffer(p)
        kept == [buf EXCEPT ![i].held = @ \cup {nfNext}]
        Becomes(b, out) ==
            /\ nfBuf' = [nfBuf EXCEPT ![p] = b]
            /\ createObjPickleFile(p, b)
            /\ nfPend' = [nfPend EXCEPT ![p] = out]
    IN  /\ NfFree(p) /\ nfNext <= NfMessages
        /\ nfNext' = nfNext + 1
        /\ \/ ~buf[i].known /\ Becomes([buf EXCEPT ![i].known = TRUE], {nfNext})
           \/ buf[i].known /\ Cardinality(kept[i].held) < NfMax /\ Becomes(kept, {})
           \/ buf[i].known /\ Becomes(Taken(kept, i), kept[i].held)
        /\ nfOdd' = [nfOdd EXCEPT !.both = @ \cup InBoth(p, buf)]
        /\ UNCHANGED <<nfUp, nfStuck, nfSent, nfEvents>>

\* checkNotifRetBuf, by the Janitor for old messages, at Online and Offline for all.
checkNotifRetBuf(p, i) ==
    LET buf == Buffer(p)
    IN  /\ NfFree(p) /\ buf[i].held # {}
        /\ nfBuf' = [nfBuf EXCEPT ![p] = Taken(buf, i)]
        /\ createObjPickleFile(p, Taken(buf, i))
        /\ nfPend' = [nfPend EXCEPT ![p] = buf[i].held]
        /\ nfOdd' = [nfOdd EXCEPT !.both = @ \cup InBoth(p, buf)]
        /\ UNCHANGED <<nfUp, nfStuck, nfNext, nfSent, nfEvents>>

\* An e-mail that cannot be sent is only logged.
sendNotifMsg(p) ==
    /\ nfPend[p] # {}
    /\ nfPend' = [nfPend EXCEPT ![p] = {}]
    /\ \/ /\ nfSent' = [m \in 1 .. NfMessages |-> IF m \in nfPend[p] THEN nfSent[m] + 1 ELSE nfSent[m]]
          /\ UNCHANGED <<nfOdd, nfEvents>>
       \/ /\ NfEvent
          /\ nfOdd' = [nfOdd EXCEPT !.lost = @ \cup nfPend[p]]
          /\ UNCHANGED nfSent
    /\ UNCHANGED <<nfBuf, nfFile, nfUp, nfStuck, nfNext>>

\* The Janitor is forked with the memory of the server, a held semaphore included.
NfStartJanitor ==
    /\ "janitor" \notin nfUp
    /\ nfUp' = nfUp \cup {"janitor"}
    /\ nfBuf' = [nfBuf EXCEPT !["janitor"] = nfBuf["server"]]
    /\ nfStuck' = (nfPend["server"] # {})
    /\ nfOdd' = [nfOdd EXCEPT !.both = @ \cup NfHeld(nfBuf["server"])]
    /\ UNCHANGED <<nfFile, nfPend, nfNext, nfSent, nfEvents>>

(***************************************************************************)
(* The processes of ps end.  Their messages may be lost when they were     *)
(* about to be sent, when the other process wrote its buffer over theirs,  *)
(* and when only the Janitor had them: the server writes over the file.    *)
(***************************************************************************)
NfUnsent(ps) == UNION {nfPend[p] : p \in ps}
NfUnsaved(ps) == UNION {NfHeld(nfBuf[p]) : p \in (ps \ {nfFile.by}) \cup (ps \cap {"janitor"})}
NfEnd(ps) ==
    /\ NfEvent
    /\ nfBuf' = [p \in NfProcs |-> IF p \in ps THEN NfEmpty ELSE nfBuf[p]]
    /\ nfPend' = [p \in NfProcs |-> IF p \in ps THEN {} ELSE nfPend[p]]
    /\ nfOdd' = [nfOdd EXCEPT !.lost = @ \cup NfUnsent(ps) \cup NfUnsaved(ps)]
    /\ UNCHANGED <<nfFile, nfNext, nfSent>>

stopJanitorThread == "janitor" \in nfUp /\ NfEnd({"janitor"}) /\ nfUp' = {"server"} /\ nfStuck' = FALSE

\* The server is killed, its Janitor with it, and starts again.
NfCrash == NfEnd(nfUp) /\ nfUp' = {"server"} /\ nfStuck' = FALSE

NfNext ==
    \/ \E p \in NfProcs :
        \/ sendNotifMsg(p)
        \/ \E i \in NfKinds : notify(p, i) \/ checkNotifRetBuf(p, i)
    \/ NfStartJanitor \/ stopJanitorThread \/ NfCrash

NfSpec == NfInit /\ [][NfNext]_nfVars

-----------------------------------------------------------------------------
\* A message is sent, about to be, or still in a buffer or in the file, also
\* after crashes: notify saves the buffer whenever it changes.  Lost are those
\* whose e-mail failed, those of a process that ended while sending, those of
\* a server over whose buffer the Janitor had written its own, and the Janitor's.
MessagesKept ==
    \A m \in 1 .. (nfNext - 1) :
        \/ nfSent[m] > 0
        \/ m \in nfOdd.lost
        \/ \E p \in nfUp : m \in nfPend[p] \cup NfHeld(nfBuf[p])
        \/ m \in NfHeld(nfFile.buf)

\* No message is sent twice, also not after a crash, unless both processes
\* had it in their buffers (_checkSendNotifMsg).
SentOnce == \A m \in 1 .. (nfNext - 1) : nfSent[m] > 1 => m \in nfOdd.both

\* A notification is kept until it is sent, and is sent once.
NotifiedOnce == MessagesKept /\ SentOnce

=============================================================================
