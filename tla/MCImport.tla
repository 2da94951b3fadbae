------------------------------ MODULE MCImport ------------------------------
(* Import on files of up to four lines of up to two cells.                 *)
EXTENDS Import, TLC

CONSTANTS p, pPadded, q, x, y, bad, empty

MCCells == {p, pPadded, q, x, y, empty}
MCTrim == [c \in MCCells |-> IF c = pPadded THEN p ELSE c]

Heads == {<<pPadded, q>>, <<p, p>>, bad}
Rest == {<<x, y>>, <<y>>, bad}
Files == {<<>>} \cup {<<h>> \o r : h \in Heads, r \in UNION {[1..n -> Rest] : n \in 0..3}}

\* Columns as read, renamed, swapped, and two as one.
Mappings == {<<>>, p :> x, (p :> q) @@ (q :> p), p :> q}

MCInputs ==
    [lines : Files, upload : {FALSE}, endless : BOOLEAN, hasHeader : BOOLEAN, skipRows : 0..1,
     maxRows : {0, 2}, batchSize : {2}, given : {<<>>, <<p, q>>}, mapping : Mappings]
    \cup
    [lines : Files, upload : {TRUE}, endless : BOOLEAN, hasHeader : {TRUE}, skipRows : {0},
     maxRows : {0}, batchSize : {2}, given : {<<>>}, mapping : {<<>>}]
=============================================================================
