--------------------------- MODULE MCDecodePipeline ---------------------------
(***************************************************************************)
(* Small instances of DecodePipeline: a 5 x 6 sensor, just large enough    *)
(* for the Malvar kernel to have an interior, with every path, every       *)
(* failure and every shape of crop given a family of inputs.               *)
(***************************************************************************)
EXTENDS DecodePipeline

NoMargins == [top |-> 0, right |-> 0, bottom |-> 0, left |-> 0]
OneInside == [x |-> 1, y |-> 1, w |-> 3, h |-> 3]

\* A file every check accepts, decoded with the default configuration.
Plain ==
  [backend |-> "rawler", tooShort |-> FALSE, parse |-> "ok",
   w |-> 5, h |-> 6, cpp |-> 1, samplesShort |-> FALSE, tiling |-> "bayer",
   margins |-> [top |-> 1, right |-> 1, bottom |-> 2, left |-> 1],
   cropArea |-> Some(OneInside), activeArea |-> None,
   orient |-> 6, builds |-> TRUE,
   mode |-> "Develop", crop |-> TRUE, orientOn |-> TRUE, ev |-> FALSE,
   malvar |-> TRUE, wbOverride |-> FALSE, pref |-> "CodecDefault",
   maxPixels |-> 100, maxBytes |-> 1000, sticky |-> TRUE]

\* A choice that the path taken never looks at is left as in Plain.
Distinct(i) ==
  /\ i.cpp > 1 => i.malvar
  /\ ~(i.backend = "rawler" /\ i.cpp = 1 /\ i.mode = "Develop") => i.builds
  /\ ~i.orientOn => i.orient = 6

\* Every path through the two backends.
PathInputs ==
  {i \in {[Plain EXCEPT !.backend = b, !.cpp = c, !.mode = m, !.crop = cr, !.orientOn = oo,
                        !.orient = o, !.ev = e, !.builds = bu, !.malvar = ma, !.sticky = st] :
            b \in Backends, c \in {1, 3}, m \in Modes, cr \in BOOLEAN, oo \in BOOLEAN,
            o \in {1, 3, 6}, e \in BOOLEAN, bu \in BOOLEAN, ma \in BOOLEAN, st \in BOOLEAN} :
     Distinct(i)}

\* Every way the work can fail, and every limit at and just below the need.
FailInputs ==
  {[Plain EXCEPT !.backend = b, !.cpp = c, !.tooShort = ts, !.parse = p,
                 !.samplesShort = ss, !.tiling = t, !.pref = pr] :
     b \in Backends, c \in {1, 3}, ts \in BOOLEAN, p \in Parses,
     ss \in BOOLEAN, t \in Tilings, pr \in Prefs}
  \cup
  {[Plain EXCEPT !.backend = b, !.maxPixels = mp, !.maxBytes = mb, !.w = w] :
     b \in Backends, mp \in {29, 30}, mb \in {359, 360}, w \in {5, 20, 200}}

MarginSet ==
  {[top |-> t, right |-> r, bottom |-> b, left |-> l] :
     t \in {0, 1, 5}, r \in {0, 2}, b \in {0, 1, 3}, l \in {0, 3}}

RectSet ==
  {[x |-> x, y |-> y, w |-> w, h |-> h] :
     x \in {0, 2, 9999}, y \in {0, 3}, w \in {0, 3, 5}, h \in {0, 3, 6}}

\* Every shape of crop, valid, empty, overlapping or outside the sensor, and
\* every orientation.
CropInputs ==
  {[Plain EXCEPT !.backend = "rawloader", !.mode = "Linear", !.margins = m,
                 !.orient = o, !.orientOn = oo] :
     m \in MarginSet, o \in Orientations, oo \in BOOLEAN}
  \cup
  {[Plain EXCEPT !.mode = "CameraRaw", !.cropArea = ca, !.activeArea = aa,
                 !.orient = o, !.orientOn = oo] :
     ca \in {None} \cup {Some(r) : r \in RectSet},
     aa \in {None, Some([x |-> 1, y |-> 2, w |-> 4, h |-> 2])},
     o \in {1, 4, 7}, oo \in BOOLEAN}

\* Every path, every failure and every crop.
DecodeInputs == PathInputs \cup FailInputs \cup CropInputs

\* A few plain calls, for the statements that need no variety.
DocInputs ==
  {[Plain EXCEPT !.backend = b, !.cpp = c, !.mode = m, !.wbOverride = wb, !.pref = pr] :
     b \in Backends, c \in {1, 3}, m \in Modes, wb \in BOOLEAN, pr \in {"CodecDefault", "Fallible"}}
=============================================================================
