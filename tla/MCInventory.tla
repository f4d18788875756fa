------------------------------ MODULE MCInventory ------------------------------
(***************************************************************************)
(* Files of six positions: CR3 files with every tree of boxes that fits,   *)
(* RAFs whose sections are absent, present, cut or overlap, TIFFs.         *)
(***************************************************************************)
EXTENDS Inventory

MCKindsIn ==
  [Top   |-> {"moov", "mdat", "xmp"}, Moov |-> {"trak", "CCTP", "canon"}, Trak |-> {"stbl"},
   Canon |-> {"CMT"}, Other |-> {"trak", "canon"}]

MCTables == {{"stsz", "co64"}, {"stsz", "stco"}}

R(a, b) == [at |-> a, end |-> b]

\* No sample, one, two in a row, and one that crosses the end of the file's boxes.
MCSamples == {<< >>, <<R(6, 7)>>, <<R(5, 6), R(6, 7)>>, <<R(2, 4)>>}

S(o, l, h) == [off |-> o, len |-> l, holds |-> h]

\* Absent, empty, whole and cut, the last two with and without a TIFF inside.
MCSections == {S(7, 2, TRUE), S(4, 0, TRUE)} \cup {S(o, 2, h) : o \in {2, 4}, h \in BOOLEAN}
                \cup {S(4, 5, h) : h \in BOOLEAN}

OneRaf == [whole |-> TRUE, jpeg |-> S(2, 2, TRUE), cfa |-> S(4, 2, TRUE), header |-> S(4, 0, TRUE)]

Given(container, rafs) ==
  {[container |-> container, fits |-> TRUE, raw |-> TRUE, gate |-> g, packet |-> p, raf |-> r] :
     g \in BOOLEAN, p \in {{R(3, 5)}}, r \in rafs}

Calls ==
  Given("cr3", {OneRaf})
  \cup Given("raf", [whole : {TRUE}, jpeg : MCSections, cfa : MCSections, header : {s \in MCSections : s.holds}])
  \cup Given("tiff", {OneRaf})
  \cup Given("other", {OneRaf})

\* Every call, and those the size limit or the format check turns away.
MCFiles == Calls \cup Given("raf", {[OneRaf EXCEPT !.whole = FALSE]})
                  \cup {[f EXCEPT !.packet = {}] : f \in Given("tiff", {OneRaf})}
                 \cup {[f EXCEPT !.fits = FALSE] : f \in Given("cr3", {OneRaf})}
                 \cup {[f EXCEPT !.raw = FALSE] : f \in Given("tiff", {OneRaf})}
=============================================================================
