----------------------------- MODULE Multipart ------------------------------
(***************************************************************************)
(* A container as a MIME multipart message: what ContainerReader writes    *)
(* and MIMEMultipartParser reads back block by block.  A container is the  *)
(* sequence of the events of walking through it.  The message is a         *)
(* sequence of tokens, of which a header has two (the last one is its      *)
(* empty line) and a delimiter MpDelim and one that tells whether it is    *)
(* the last one: a block may end inside each of them.                      *)
(***************************************************************************)
EXTENDS Integers, Sequences, FiniteSets, SequencesExt, FiniteSetsExt

CONSTANTS
    MpDocs,   \* the containers to send, as sequences of events
    MpBlocks, \* the block sizes
    MpDelim   \* the length of CRLF -- boundary

ASSUME MpConfig == MpBlocks \subseteq Nat \ {0} /\ MpDelim \in Nat \ {0}

\* The events: a container begins, a file of some length, a container ends.
MpOpen(c) == [what |-> "open", id |-> c, size |-> 0]
MpFile(f, size) == [what |-> "file", id |-> f, size |-> size]
MpClose(c) == [what |-> "close", id |-> c, size |-> 0]

VARIABLES
    mpDoc,   \* the container
    mpSent,  \* the tokens that arrive: the message, or as much as was sent
    mpBlock, \* the block size, for reading and for writing
    mpPos,   \* the tokens read
    mpPar,   \* the parser: state, buffer left, boundary, outer boundaries, in a file
    mpOut,   \* the events the handler has seen
    mpShort  \* ghost: a block was written and less than a delimiter was kept

mpVars == <<mpDoc, mpSent, mpBlock, mpPos, mpPar, mpOut, mpShort>>

-----------------------------------------------------------------------------
(***************************************************************************)
(* ContainerReader and FileReader.                                         *)
(***************************************************************************)
Token(kind, id, n) == [kind |-> kind, id |-> id, n |-> n]
Delimiter(b) == [n \in 1..MpDelim |-> Token("delim", b, n)]
Header(kind, id) == <<Token("header", id, 1), Token(kind, id, 2)>>

\* Mutant: a container in a container has no delimiter before it.
MpWriteSkips(acc, e) ==
    LET inside == acc.open # <<>> /\ e.what # "open"
        before == IF inside THEN Delimiter(Last(acc.open)) \o <<Token("more", 0, 0)>> ELSE <<>>
    IN CASE e.what = "open" -> [open |-> Append(acc.open, e.id), out |-> acc.out \o before \o Header("container", e.id)]
         [] e.what = "file" -> [acc EXCEPT !.out = @ \o before \o Header("file", e.id)
                                                     \o [n \in 1..e.size |-> Token("data", e.id, n)]]
         [] e.what = "close" -> [open |-> Front(acc.open),
                                 out |-> acc.out \o Delimiter(Last(acc.open)) \o <<Token("last", 0, 0)>>]

\* What one event adds to the message; the delimiter before an entry is the one of the
\* container it is in.
MpWrite(acc, e) ==
    LET inside == acc.open # <<>>
        before == IF inside THEN Delimiter(Last(acc.open)) \o <<Token("more", 0, 0)>> ELSE <<>>
    IN CASE e.what = "open" -> [open |-> Append(acc.open, e.id), out |-> acc.out \o before \o Header("container", e.id)]
         [] e.what = "file" -> [acc EXCEPT !.out = @ \o before \o Header("file", e.id)
                                                     \o [n \in 1..e.size |-> Token("data", e.id, n)]]
         [] e.what = "close" -> [open |-> Front(acc.open),
                                 out |-> acc.out \o Delimiter(Last(acc.open)) \o <<Token("last", 0, 0)>>]

Message(doc) == FoldLeft(MpWrite, [open |-> <<>>, out |-> <<>>], doc).out

\* FileReader, read with a block size until it gives nothing: each read with less than a
\* block buffered takes a block more of the file, and closes the file when there is none.
\* With something still buffered then, there is another read, of the closed file, which
\* raises: after an empty file, and when the header does not fit in the last block.
ReadsClosed(size, block) ==
    LET Rest(b) == IF b < block THEN 0 ELSE b - block
        reads[b \in 0..(size + 2 + block), left \in 0..size] ==
            IF b >= block THEN reads[b - block, left]
            ELSE IF left = 0 THEN b # 0
            ELSE LET n == Min({block, left}) IN reads[Rest(b + n), left - n]
        first == Min({block, size})
    IN size = 0 \/ reads[Rest(2 + first), size - first]

\* What of the message can be sent: it breaks off at the first file that cannot be read.
Sendable(doc, block) ==
    LET bad == {i \in DOMAIN doc : doc[i].what = "file" /\ ReadsClosed(doc[i].size, block)}
    IN Len(Message(IF bad = {} THEN doc ELSE SubSeq(doc, 1, Min(bad))))

\* __len__: the Content-Length that is announced, in the units of the tokens.
MpLen(doc) ==
    LET Part(e) == CASE e.what = "open" -> 2 + (MpDelim + 1) + (MpDelim + 1)
                     [] e.what = "file" -> (MpDelim + 1) + 2 + e.size
                     [] OTHER -> 0
    IN FoldLeft(LAMBDA n, e : n + Part(e), 0, doc) - (MpDelim + 1)

MpInit ==
    /\ mpDoc \in MpDocs /\ mpBlock \in MpBlocks
    /\ \E block \in MpBlocks : \E n \in 0..Sendable(mpDoc, block) : mpSent = SubSeq(Message(mpDoc), 1, n)
    /\ mpPos = 0 /\ mpOut = <<>> /\ mpShort = FALSE
    /\ mpPar = [state |-> "headers", prev |-> <<>>, boundary |-> 0, outer |-> <<>>, file |-> FALSE]

-----------------------------------------------------------------------------
(***************************************************************************)
(* The handlers: ContainerBuilderHandler and FilesystemWriterHandler.      *)
(***************************************************************************)

\* Where the tokens of a pattern first are in the buffer, 0 if nowhere.
Find(buf, pat) ==
    LET at == {i \in 1..(Len(buf) - Len(pat) + 1) : SubSeq(buf, i, i + Len(pat) - 1) = pat}
    IN IF at = {} THEN 0 ELSE Min(at)

\* timedWrite: data added to the file that is open.
Written(out, n) == [out EXCEPT ![Len(out)].size = @ + n]

\* How much handleData writes: whole blocks as long as more than one is there, and the
\* rest when no more is expected.
HandleData(buf, more) ==
    IF ~more THEN Len(buf) ELSE IF Len(buf) = 0 THEN 0 ELSE ((Len(buf) - 1) \div mpBlock) * mpBlock

-----------------------------------------------------------------------------
(***************************************************************************)
(* MIMEMultipartParser._recurse: one turn of the loop for each state.      *)
(***************************************************************************)
MpBuffer == mpPar.prev \o SubSeq(mpSent, mpPos + 1, Min({mpPos + mpBlock, Len(mpSent)}))
MpRead == mpPos' = Min({mpPos + mpBlock, Len(mpSent)}) /\ UNCHANGED <<mpDoc, mpSent, mpBlock>>
HeaderEnd(buf) ==
    LET at == {i \in DOMAIN buf : buf[i].kind \in {"container", "file"}}
    IN IF at = {} THEN 0 ELSE Min(at)

\* Mutant: the loop ends as soon as nothing is read.
DataEnds(par, buf, out) ==
    LET at == Find(buf, Delimiter(par.boundary))
        data == IF at = 0 THEN buf ELSE SubSeq(buf, 1, at - 1)
        n == HandleData(data, at = 0)
        rest == IF at = 0 THEN SubSeq(buf, n + 1, Len(buf)) ELSE SubSeq(buf, at, Len(buf))
    IN /\ mpOut' = Written(out, n)
       /\ mpShort' = (mpShort \/ (at = 0 /\ n > 0 /\ Len(rest) < MpDelim - 1))
       /\ mpPar' = [par EXCEPT !.prev = rest,
                       !.state = IF at # 0 THEN "delimiter"
                                 ELSE IF mpPos = Len(mpSent) THEN "done" ELSE "data"]

\* The data of a file, from the buffer on: up to the delimiter, or what handleData
\* takes; without anything left or read the loop ends.
Data(par, buf, out) ==
    LET at == Find(buf, Delimiter(par.boundary))
        data == IF at = 0 THEN buf ELSE SubSeq(buf, 1, at - 1)
        n == HandleData(data, at = 0)
        rest == IF at = 0 THEN SubSeq(buf, n + 1, Len(buf)) ELSE SubSeq(buf, at, Len(buf))
    IN /\ mpOut' = Written(out, n)
       /\ mpShort' = (mpShort \/ (at = 0 /\ n > 0 /\ Len(rest) < MpDelim - 1))
       /\ mpPar' = [par EXCEPT !.prev = rest,
                       !.state = IF at # 0 THEN "delimiter"
                                 ELSE IF rest = <<>> /\ mpPos = Len(mpSent) THEN "done" ELSE "data"]

\* In a header that is not complete.
InHeader ==
    /\ mpPar.state = "headers" /\ HeaderEnd(MpBuffer) = 0
    /\ mpPar' = [mpPar EXCEPT !.prev = MpBuffer]
    /\ MpRead
    /\ UNCHANGED <<mpOut, mpShort>>

\* The delimiter in the buffer: the next entry; the end of the container, and of the
\* message when there is no outer one; or more must be read.
AtDelimiter(par, buf, out) ==
    LET more == Find(buf, Append(Delimiter(par.boundary), Token("more", 0, 0)))
        last == Find(buf, Append(Delimiter(par.boundary), Token("last", 0, 0)))
        Rest(i) == SubSeq(buf, i + MpDelim + 1, Len(buf))
    IN /\ UNCHANGED mpShort
       /\ CASE more # 0 ->
                 mpPar' = [par EXCEPT !.state = "headers", !.prev = Rest(more), !.file = FALSE] /\ mpOut' = out
            [] more = 0 /\ last # 0 ->
                 /\ mpOut' = Append(out, MpClose(par.boundary))
                 /\ mpPar' = IF par.outer = <<>> THEN [par EXCEPT !.state = "done"]
                             ELSE [par EXCEPT !.boundary = Last(par.outer), !.outer = Front(par.outer),
                                              !.prev = Rest(last), !.file = FALSE]
            [] OTHER -> mpPar' = [par EXCEPT !.prev = buf, !.file = FALSE] /\ mpOut' = out

\* Mutant: the boundary of the outer container is not kept.
HeaderReadForgets ==
    LET i == HeaderEnd(MpBuffer)
        h == MpBuffer[i]
        buf == SubSeq(MpBuffer, i + 1, Len(MpBuffer))
    IN /\ mpPar.state = "headers" /\ i # 0
       /\ MpRead
       /\ IF h.kind = "container"
          THEN AtDelimiter([mpPar EXCEPT !.state = "delimiter", !.boundary = h.id], buf,
                           Append(mpOut, MpOpen(h.id)))
          ELSE Data([mpPar EXCEPT !.state = "data", !.file = TRUE], buf, Append(mpOut, MpFile(h.id, 0)))

\* A header is complete: a container or a file begins, and what follows in the buffer
\* is handled in the same turn.
HeaderRead ==
    LET i == HeaderEnd(MpBuffer)
        h == MpBuffer[i]
        buf == SubSeq(MpBuffer, i + 1, Len(MpBuffer))
        outer == IF mpPar.boundary = 0 THEN mpPar.outer ELSE Append(mpPar.outer, mpPar.boundary)
    IN /\ mpPar.state = "headers" /\ i # 0
       /\ MpRead
       /\ IF h.kind = "container"
          THEN AtDelimiter([mpPar EXCEPT !.state = "delimiter", !.boundary = h.id, !.outer = outer], buf,
                           Append(mpOut, MpOpen(h.id)))
          ELSE Data([mpPar EXCEPT !.state = "data", !.file = TRUE], buf, Append(mpOut, MpFile(h.id, 0)))

InDelimiter == mpPar.state = "delimiter" /\ MpRead /\ AtDelimiter(mpPar, MpBuffer, mpOut)
InData == mpPar.state = "data" /\ MpRead /\ Data(mpPar, MpBuffer, mpOut)

MpNext == InHeader \/ HeaderRead \/ InDelimiter \/ InData

-----------------------------------------------------------------------------
(***************************************************************************)
(* Properties.                                                             *)
(***************************************************************************)
MpWhole == mpSent = Message(mpDoc)

\* The container that was sent whole is the one that is read, for every block size and
\* wherever the blocks end, unless after writing a block less was kept than a delimiter
\* needs (FilesystemWriterHandler.handleData, ngamsMIMEMultipart.py:175-191: then a
\* delimiter that begins in the block is written to the file).
ReadBack == mpPar.state = "done" /\ MpWhole /\ ~mpShort => mpOut = mpDoc

\* A message that breaks off, for a lost connection or a file that cannot be read, is not
\* taken as complete, except when it breaks off behind the header of a file, of which
\* nothing is left in the buffer (_recurse ends without a check of the length; elsewhere it
\* reads on for ever).
BrokenNotTaken ==
    mpPar.state = "done" /\ ~MpWhole => \/ Last(mpSent).kind = "file" \/ mpShort
                                        \/ mpOut = mpDoc

\* The Content-Length is the length of the message (__len__ of the readers).
LengthTold == MpWhole => Len(mpSent) = MpLen(mpDoc)

=============================================================================
