------------------------------ MODULE XmlConfig ------------------------------
(***************************************************************************)
(* The document behind a configuration: ngamsXmlMgr keeps it twice, as the *)
(* tree of its elements and as a dictionary from paths to elements and     *)
(* attributes.  It is loaded from and saved to a file, written to and      *)
(* loaded from ngas_cfg_pars, and changed by storeVal.  Elements are the   *)
(* children of the root; a path is an element name, its index and, for an  *)
(* attribute, its name.  None and "None" are one value: getVal returns the *)
(* same for both.                                                          *)
(***************************************************************************)
EXTENDS Integers, Sequences, FiniteSets, TLC

CONSTANTS
    XElements, XAttrs, XVals, \* names of elements and attributes, values
    XSecret,                  \* the attributes that are hidden: "Password"
    XNull, XEmpty, XHidden,   \* the values None, "" and "********"
    XNone,                    \* no value
    XDocs,                    \* the documents to start from
    XRadix,                   \* the radix in which an index is written: 10
    XMaxIndex, XMaxOps        \* bounds on the elements of a name and on the operations

ASSUME XConfig == XRadix \in Nat \ {0, 1} /\ XMaxIndex \in 1 .. XRadix * XRadix - 1 /\ XMaxOps \in Nat

VARIABLES
    tree,    \* the elements under __rootElObj: name and attributes, in the order they were added
    dic,     \* __xmlDic: of an element its place in objs, of an attribute its value
    objs,    \* the elements made so far
    file,    \* the saved document, its elements in order
    rows,    \* ngas_cfg_pars: path |-> value
    wrote,   \* the parameters at the last writeToDb
    mixed,   \* a document was laid over another one, or its elements were put in another order
    more,    \* an earlier configuration in the DB had paths the last one has not
    xops

xVars == <<tree, dic, objs, file, rows, wrote, mixed, more, xops>>

Restricted(f, S) == [x \in DOMAIN f \cap S |-> f[x]]
ElPaths(d) == {p \in DOMAIN d : Len(p) = 2}
AttrPaths(d) == {p \in DOMAIN d : Len(p) = 3}

\* A document: a sequence of elements (ngamsElement), each a name and its attributes
\* (ngamsAttribute)
Attributes == UNION {[A -> XVals] : A \in SUBSET XAttrs}
Element == [name : XElements, attrs : Attributes]

ASSUME XDocuments == XDocs \subseteq Seq(Element)

XInit ==
    /\ tree = <<>> /\ dic = <<>> /\ objs = <<>> /\ file \in XDocs /\ rows = <<>> /\ wrote = <<>>
    /\ mixed = FALSE /\ more = FALSE /\ xops = 0

XStep == xops < XMaxOps /\ xops' = xops + 1

-----------------------------------------------------------------------------
(***************************************************************************)
(* Unpacking and packing.                                                  *)
(***************************************************************************)

\* The index of an element: how many of its name have come before, in the same document
IndexIn(doc, i) == Cardinality({j \in 1 .. i : doc[j].name = doc[i].name})

\* The dictionary of a document: _addElXmlDic, _addAttrXmlDic
_addElXmlDic(doc, base) == [p \in {<<doc[i].name, IndexIn(doc, i)>> : i \in DOMAIN doc} |->
                              base + (CHOOSE i \in DOMAIN doc : doc[i].name = p[1] /\ IndexIn(doc, i) = p[2])]
_addAttrXmlDic(doc) == [p \in UNION {{<<doc[i].name, IndexIn(doc, i), a>> : a \in DOMAIN doc[i].attrs} : i \in DOMAIN doc} |->
                              doc[CHOOSE i \in DOMAIN doc : doc[i].name = p[1] /\ IndexIn(doc, i) = p[2]].attrs[p[3]]]
getVal(d, p) == IF p \in DOMAIN d THEN d[p] ELSE XNone

\* unpackXmlDoc
unpackXmlDoc(doc, base) == _addElXmlDic(doc, base) @@ _addAttrXmlDic(doc)

DicOf(doc) == unpackXmlDoc(doc, 0)

\* The dictionary is cleared; the tree is not, what is loaded is added to it.
load ==
    /\ XStep /\ objs' = objs \o file /\ tree' = tree \o [i \in DOMAIN file |-> Len(objs) + i]
    /\ dic' = unpackXmlDoc(file, Len(objs))
    /\ mixed' = (tree # <<>>) /\ UNCHANGED <<file, rows, wrote, more>>

\* _genXml, genXmlDoc: passwords are hidden, if asked for, and None becomes "".
AttrText(a, v, hide) == IF hide /\ a \in XSecret THEN XHidden ELSE IF v = XNull THEN XEmpty ELSE v
_genXml(el, hide) == [el EXCEPT !.attrs = [a \in DOMAIN @ |-> AttrText(a, @[a], hide)]]

\* Mutant: elements without attributes are left out.
genXmlFull(hide) ==
    LET keep == SelectSeq(tree, LAMBDA i : objs[i].attrs # <<>>)
    IN [i \in DOMAIN keep |-> _genXml(objs[keep[i]], hide)]

genXml(hide) == [i \in DOMAIN tree |-> _genXml(objs[tree[i]], hide)]

save(hide) == /\ XStep /\ file' = genXml(hide) /\ UNCHANGED <<tree, dic, objs, rows, wrote, mixed, more>>

\* A new object
newXmlMgr ==
    /\ XStep /\ objs # <<>> /\ tree' = <<>> /\ dic' = <<>> /\ objs' = <<>> /\ mixed' = FALSE
    /\ UNCHANGED <<file, rows, wrote, more>>

-----------------------------------------------------------------------------
(***************************************************************************)
(* Changing a value.                                                       *)
(***************************************************************************)

\* addElOrAttr: an element goes into the tree and the dictionary, an attribute into its
\* element and the dictionary.
AddAttr(os, d, p, v) == [os EXCEPT ![d[<<p[1], p[2]>>]].attrs = (p[3] :> v) @@ @]

\* Mutant: the value goes into the dictionary only.
storeValDic(p, v) ==
    /\ XStep /\ Cardinality({q \in ElPaths(dic) : q[1] = p[1]}) + 1 >= p[2]
    /\ LET e == <<p[1], p[2]>> IN
       IF e \in DOMAIN dic THEN dic' = (p :> v) @@ dic /\ UNCHANGED <<objs, tree>>
       ELSE /\ objs' = Append(objs, [name |-> p[1], attrs |-> p[3] :> v]) /\ tree' = Append(tree, Len(objs'))
            /\ dic' = (p :> v) @@ (e :> Len(objs')) @@ dic
    /\ UNCHANGED <<file, rows, wrote, mixed, more>>

\* The indices of the elements are without gaps, as setDiskSpaceNotifList and the others
\* make them.
storeVal(p, v) ==
    /\ XStep /\ Cardinality({q \in ElPaths(dic) : q[1] = p[1]}) + 1 >= p[2]
    /\ LET e == <<p[1], p[2]>> IN
       IF e \in DOMAIN dic THEN dic' = (p :> v) @@ dic /\ objs' = AddAttr(objs, dic, p, v) /\ UNCHANGED tree
       ELSE /\ objs' = Append(objs, [name |-> p[1], attrs |-> p[3] :> v]) /\ tree' = Append(tree, Len(objs'))
            /\ dic' = (p :> v) @@ (e :> Len(objs')) @@ dic
    /\ UNCHANGED <<file, rows, wrote, mixed, more>>

-----------------------------------------------------------------------------
(***************************************************************************)
(* The configuration in the DB.                                            *)
(***************************************************************************)

\* writeCfgPar: a row for every path, inserted or updated; rows of other paths stay.  None
\* is inserted as "" and updated as "None".
\* Mutant: a row that is there is not updated.
writeCfgParOnce(d) == [p \in DOMAIN d |-> IF p \in DOMAIN rows THEN rows[p] ELSE IF Len(p) = 3 THEN d[p] ELSE XNone]

writeCfgPar(d) ==
    [p \in DOMAIN d |-> IF Len(p) = 2 THEN XNone
                        ELSE IF d[p] = XNull /\ p \notin DOMAIN rows THEN XEmpty ELSE d[p]]

writeToDb ==
    /\ XStep /\ rows' = writeCfgPar(dic) @@ rows /\ wrote' = Restricted(dic, AttrPaths(dic))
    /\ more' = (DOMAIN rows \ DOMAIN dic # {})
    /\ UNCHANGED <<tree, dic, objs, file, mixed>>

\* digestXmlDic sorts the paths as strings, and "]" comes after the digits: the tenth
\* element of a name is put before the first one (for indices of up to two digits).
AsString(i) == IF i < XRadix THEN i * (XRadix + 1) + XRadix ELSE (i \div XRadix) * (XRadix + 1) + (i % XRadix)
Order(S) == CHOOSE s \in [1 .. Cardinality(S) -> S] :
               /\ \A i, j \in DOMAIN s : s[i] = s[j] => i = j
               /\ \A i, j \in DOMAIN s : s[i][1] = s[j][1] /\ AsString(s[i][2]) < AsString(s[j][2]) => i < j

\* The parameters of an element, as getCfgPars returns them
getCfgPars(e) == [a \in {q[3] : q \in {q \in AttrPaths(rows) : <<q[1], q[2]>> = e}} |-> rows[Append(e, a)]]

\* loadFromDb, digestXmlDic: the rows are laid over the dictionary, and the tree is made of
\* them alone.
loadFromDb ==
    LET es == Order(ElPaths(rows)) n == Len(objs) IN
    /\ XStep /\ rows # <<>>
    /\ objs' = objs \o [i \in DOMAIN es |-> [name |-> es[i][1], attrs |-> getCfgPars(es[i])]]
    /\ tree' = [i \in DOMAIN es |-> n + i]
    /\ dic' = [p \in ElPaths(rows) |-> n + (CHOOSE i \in DOMAIN es : es[i] = p)] @@ Restricted(rows, AttrPaths(rows)) @@ dic
    /\ mixed' = (dic # <<>> \/ \E p \in ElPaths(rows) : p[2] >= XRadix)
    /\ UNCHANGED <<file, rows, wrote, more>>

XNext ==
    \/ load \/ save(TRUE) \/ save(FALSE) \/ newXmlMgr \/ writeToDb \/ loadFromDb
    \/ \E p \in XElements \X (1 .. XMaxIndex) \X XAttrs, v \in XVals : storeVal(p, v)

-----------------------------------------------------------------------------
(***************************************************************************)
(* Properties.                                                             *)
(***************************************************************************)

\* None and "" are told apart in memory only.
SameValue(v, w) == v = w \/ {v, w} = {XNull, XEmpty}

\* The two views agree: what is saved now and loaded into a new object gives every
\* parameter but a hidden password the value it has, however loading, storing values and
\* the DB follow one another.  Not so once a document was laid over another one (after
\* load the tree holds both, after loadFromDb the dictionary does), or when ten elements of
\* one name come from the DB: their order is another one.
SavedIsRead ==
    ~mixed => \A hide \in BOOLEAN :
                 LET saved == DicOf(genXml(hide))
                 IN \A p \in AttrPaths(dic) \cup AttrPaths(saved) :
                       (hide /\ p[3] \in XSecret) \/ SameValue(getVal(saved, p), getVal(dic, p))

\* What was written to the DB is what is loaded from it, unless an earlier configuration
\* there had more: its rows are never removed and come back.
DbKeepsConfiguration ==
    ~more => /\ AttrPaths(rows) = DOMAIN wrote
             /\ \A p \in DOMAIN wrote : SameValue(rows[p], wrote[p])

\* Every element that can be reached by its path is saved, and saved once: the document that
\* is saved has as many elements as the dictionary, however it was loaded and changed.
SavesElements == ~mixed => Cardinality(ElPaths(DicOf(genXml(TRUE)))) = Cardinality(ElPaths(dic))

=============================================================================
