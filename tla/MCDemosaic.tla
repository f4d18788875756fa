------------------------------ MODULE MCDemosaic ------------------------------
(***************************************************************************)
(* Small instances of Demosaic: images without an interior, with the       *)
(* smallest interior, and with several rows and columns of it, under every *)
(* Bayer tile, one of four colours, X-Trans, larger tiles of four colours  *)
(* and an array that is not described; two rows between two polls.         *)
(***************************************************************************)
EXTENDS Demosaic

\* RGGB and its shifts, and the tile with an emerald site.
BayerTiles ==
  {<<<<R, G>>, <<G, B>>>>, <<<<G, R>>, <<B, G>>>>, <<<<G, B>>, <<R, G>>>>, <<<<B, G>>, <<G, R>>>>,
   <<<<R, G>>, <<E, B>>>>}

XTrans == <<<<G, B, G, G, R, G>>, <<R, G, R, B, G, B>>, <<G, B, G, G, R, G>>,
            <<G, R, G, G, B, G>>, <<B, G, B, R, G, R>>, <<G, R, G, G, B, G>>>>

\* A fourth colour that strays from the end of a row, and one that strays out
\* of the image.
FourColours == {<<<<R, G, E>>, <<G, B, G>>, <<E, G, R>>>>, <<<<E, G, R>>, <<G, B, G>>, <<R, G, E>>>>}

BayerSizes   == ((0 .. 6) \X (0 .. 6)) \cup {<<6, 7>>, <<7, 6>>}
GenericSizes == {<<1, 4>>, <<3, 3>>, <<7, 4>>}

Call(plain, size, tile, method) ==
  [plain |-> plain, w |-> size[1], h |-> size[2], tile |-> tile, method |-> method]

MCCalls ==
  {Call(p, s, t, m) : p \in BOOLEAN, s \in BayerSizes, t \in BayerTiles, m \in Methods}
  \cup {Call(FALSE, <<7, 7>>, t, m) : t \in BayerTiles, m \in Methods}
  \cup {Call(p, s, t, "Bilinear") : p \in BOOLEAN, s \in GenericSizes, t \in FourColours \cup {XTrans, <<>>}}

\* Every two by two tile of the instance is one cameras have.
ASSUME MosaicTiles == \A c \in MCCalls : TwoByTwo(c.tile) => Mosaic(c.tile)
=============================================================================
