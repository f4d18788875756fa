-------------------------- MODULE AppleMetadataProofs --------------------------
(***************************************************************************)
(* AppleMetadata's walks of the directories, the XMP attributes and the    *)
(* JPEG markers, for files of every shape and length, and the places of a  *)
(* gain table that `apply` looks at: no directory twice, of every field    *)
(* its first word, and of every picture its own gain map.                  *)
(***************************************************************************)
EXTENDS AppleMetadata, FiniteSetTheorems, FunctionTheorems, WellFoundedInduction, TLAPS

-----------------------------------------------------------------------------
(* Rows and columns as positions.                                          *)

LEMMA PositionInRange ==
  ASSUME NEW W \in Nat, NEW H \in Nat, NEW r \in 0 .. H - 1, NEW c \in 0 .. W - 1
  PROVE  At(r, c, W) \in 0 .. W * H - 1
<1>1. PICK k \in Nat : H = r + 1 + k
  <2>1. H - r - 1 \in Nat /\ H = r + 1 + (H - r - 1)
    OBVIOUS
  <2> QED
    BY <2>1
<1>2. W * H = r * W + W + W * k /\ r * W \in Nat /\ W * k \in Nat
  BY <1>1
<1> QED
  BY <1>2 DEF At

LEMMA PositionsDiffer ==
  ASSUME NEW W \in Nat, NEW r \in Nat, NEW s \in Nat,
         NEW c \in 0 .. W - 1, NEW d \in 0 .. W - 1, At(r, c, W) = At(s, d, W)
  PROVE  r = s /\ c = d
<1>1. ASSUME NEW x \in Nat, NEW y \in Nat, NEW a \in 0 .. W - 1, NEW b \in 0 .. W - 1, x < y
      PROVE  At(x, a, W) # At(y, b, W)
  <2>1. PICK k \in Nat : y = x + 1 + k
    <3>1. y - x - 1 \in Nat /\ y = x + 1 + (y - x - 1)
      BY <1>1
    <3> QED
      BY <3>1
  <2>2. y * W = x * W + W + k * W /\ x * W \in Nat /\ k * W \in Nat
    BY <2>1
  <2> QED
    BY <2>2 DEF At
<1>2. r = s
  BY <1>1
<1>3. r * W \in Nat
  OBVIOUS
<1> QED
  BY <1>2, <1>3 DEF At

\* What extract_profile_gain_table_map accepts, `apply` can be run on: the
\* gain of every row, column and tone is in the table, two of them are never
\* in the same place, and the neighbours it goes to exist.
THEOREM LookupsAreInTheTable ==
  ASSUME NEW t, t.rows \in Nat, t.cols \in Nat, t.tones \in Nat, TableFits(t),
         NEW r \in 0 .. t.rows - 1, NEW c \in 0 .. t.cols - 1, NEW k \in 0 .. t.tones - 1
  PROVE  /\ Lookup(t, r, c, k) \in 0 .. t.rows * t.cols * t.tones - 1
         /\ Following(r, t.rows) \in 0 .. t.rows - 1
         /\ Following(c, t.cols) \in 0 .. t.cols - 1
         /\ Following(k, t.tones) \in 0 .. t.tones - 1
         /\ \A s \in 0 .. t.rows - 1, d \in 0 .. t.cols - 1, l \in 0 .. t.tones - 1 :
              Lookup(t, r, c, k) = Lookup(t, s, d, l) => r = s /\ c = d /\ k = l
<1>1. At(r, c, t.cols) \in 0 .. t.cols * t.rows - 1
  BY PositionInRange
<1>2. t.cols * t.rows = t.rows * t.cols /\ t.rows * t.cols \in Nat
  OBVIOUS
<1>3. Lookup(t, r, c, k) \in 0 .. t.tones * (t.rows * t.cols) - 1
  BY <1>1, <1>2, PositionInRange DEF Lookup
<1>4. t.tones * (t.rows * t.cols) = t.rows * t.cols * t.tones
  BY <1>2
<1>5. ASSUME NEW s \in 0 .. t.rows - 1, NEW d \in 0 .. t.cols - 1, NEW l \in 0 .. t.tones - 1,
             Lookup(t, r, c, k) = Lookup(t, s, d, l)
      PROVE  r = s /\ c = d /\ k = l
  <2>1. At(s, d, t.cols) \in 0 .. t.cols * t.rows - 1
    BY PositionInRange
  <2>2. At(r, c, t.cols) = At(s, d, t.cols) /\ k = l
    BY <1>1, <1>5, <2>1, PositionsDiffer DEF Lookup
  <2> QED
    BY <2>2, PositionsDiffer
<1>6. /\ Following(r, t.rows) \in 0 .. t.rows - 1
      /\ Following(c, t.cols) \in 0 .. t.cols - 1
      /\ Following(k, t.tones) \in 0 .. t.tones - 1
  BY DEF Following
<1> QED
  BY <1>3, <1>4, <1>5, <1>6

-----------------------------------------------------------------------------
LEMMA ElementOfSeq ==
  ASSUME NEW S, NEW s \in Seq(S), NEW i \in 1 .. Len(s)
  PROVE  s[i] \in S
  OBVIOUS

LEMMA AppendToSeq ==
  ASSUME NEW S, NEW s \in Seq(S), NEW x \in S
  PROVE  /\ Append(s, x) \in Seq(S)
         /\ Len(Append(s, x)) = Len(s) + 1
         /\ \A i \in 1 .. Len(s) : Append(s, x)[i] = s[i]
         /\ Append(s, x)[Len(s) + 1] = x
  OBVIOUS

\* A DNG has at most one preview.
LEMMA PreviewIsOne ==
  ASSUME FileSpace(file), NEW p \in Preview
  PROVE  p \in Nat \X Nat /\ \A q \in Preview : q = p
<1> DEFINE s == IF file.strip # <<>> THEN file.strip ELSE file.thumb
<1>1. s \in Seq(Nat \X Nat) /\ Len(s) <= 1
  BY DEF FileSpace
<1>2. \A q \in Preview : q \in Listed(s)
  BY DEF Preview
<1> HIDE DEF s
<1>3. \A q \in Listed(s) : q \in Nat \X Nat /\ q = s[1]
  BY <1>1 DEF Listed
<1> QED
  BY <1>2, <1>3

LEMMA InitTypeOK == Init => TypeOK
  BY AppleMetadataAssumption DEF Init, TypeOK

LEMMA NextTypeOK == TypeOK /\ [Next]_vars => TypeOK'
<1> SUFFICES ASSUME TypeOK, [Next]_vars PROVE TypeOK'
  OBVIOUS
<1> USE DEF TypeOK, structure, walk
<1>0. /\ \A o \in DOMAIN file.dirs : file.dirs[o].next \in Nat /\ file.dirs[o].points \in Seq(Nat)
      /\ \A p \in DOMAIN file.marks :
           p \in Nat /\ file.marks[p].len \in Nat /\ file.marks[p].index \in Seq([offset : Nat, size : Nat])
      /\ file.first \in Nat /\ file.size \in Nat /\ DOMAIN file.dirs \subseteq Nat /\ DOMAIN file.text \subseteq Nat
  BY DEF FileSpace, DirSpace
<1>1. CASE Begin
  BY <1>0, <1>1 DEF Begin
<1>2. CASE ReadDirectory
  <2>1. current \in DOMAIN file.dirs /\ Len(ifds) < MaxDirs
    BY <1>2 DEF ReadDirectory, GoesOn, Parses
  <2>2. ifds' \in Seq(DOMAIN file.dirs) /\ Len(ifds') <= MaxDirs
    BY <1>2, <2>1, AppleMetadataAssumption DEF ReadDirectory
  <2> QED
    BY <1>2, <2>1, <2>2 DEF ReadDirectory
<1>3. CASE ReadSubIfd
  <2>1. sub_ifds' \in Seq(DOMAIN file.dirs)
    <3> DEFINE o == file.dirs[current].points[off]
    <3>1. sub_ifds' = IF Parses(o) THEN Append(sub_ifds, o) ELSE sub_ifds
      BY <1>3 DEF ReadSubIfd
    <3>2. Parses(o) => o \in DOMAIN file.dirs
      BY DEF Parses
    <3>3. file' = file
      BY <1>3 DEF ReadSubIfd
    <3> HIDE DEF o
    <3> QED
      BY <3>1, <3>2, <3>3, AppendToSeq
  <2> QED
    BY <1>3, <2>1 DEF ReadSubIfd
<1>4. CASE NextDirectory
  BY <1>0, <1>4 DEF NextDirectory
<1>5. CASE ReadTags
  BY <1>5 DEF ReadTags
<1>6. CASE OpenJpeg
  <2>1. \A j \in Jpeg : j \in Nat \X Nat
    <3>1. \A p \in Preview : p \in Nat \X Nat
      BY PreviewIsOne
    <3> QED
      BY <1>0, <3>1 DEF Jpeg
  <2> QED
    BY <1>6, <2>1 DEF OpenJpeg
<1>7. CASE Walk
  <2>1. Beyond \in Nat
    BY <1>0 DEF Beyond, AtMark, Mark
  <2> QED
    BY <1>7, <2>1 DEF Walk
<1>8. CASE ReadIndex
  <2>1. ASSUME Len(Mark.index) >= 2, IsIndex
        PROVE  Picture(2).start \in Nat /\ Picture(2).end \in Nat
    <3>1. pos \in DOMAIN file.marks
      BY <2>1 DEF IsIndex, AtMark
    <3>2. Mark.index \in Seq([offset : Nat, size : Nat])
      BY <1>0, <3>1 DEF Mark
    <3>3. Mark.index[2] \in [offset : Nat, size : Nat]
      <4> DEFINE index == Mark.index
                 P == [offset : Nat, size : Nat]
      <4>1. index \in Seq(P) /\ Len(index) >= 2
        BY <2>1, <3>2
      <4> HIDE DEF index, P
      <4>2. index[2] \in P
        BY <4>1, ElementOfSeq
      <4> QED
        BY <4>2 DEF index, P
    <3>4. Mark.index[2].offset \in Nat /\ Mark.index[2].size \in Nat
      BY <3>3
    <3>5. Base \in Nat
      BY DEF Base
    <3> QED
      BY <3>4, <3>5 DEF Picture
  <2> QED
    BY <1>8, <2>1 DEF ReadIndex, SpanOf
<1>9. CASE ReadFrame
  BY <1>9 DEF ReadFrame, Base
<1>10. CASE WalkIsOver
  BY <1>10 DEF WalkIsOver, Base
<1>11. CASE GainPacket
  BY <1>0, <1>11 DEF GainPacket, Packet, Find
<1>12. CASE GainBlock
  BY <1>12 DEF GainBlock
<1>13. CASE ReadPacket
  BY <1>0, <1>13 DEF ReadPacket, Packet, Find
<1>14. CASE Answer
  BY <1>14 DEF Answer
<1>15. CASE Returned \/ UNCHANGED vars
  BY <1>15 DEF Returned, vars
<1> QED
  BY <1>1, <1>2, <1>3, <1>4, <1>5, <1>6, <1>7, <1>8, <1>9, <1>10, <1>11, <1>12, <1>13, <1>14, <1>15 DEF Next

\* Every reachable state is well typed: no more directories are read than
\* allowed, and no position leaves the natural numbers.
THEOREM TypeCorrect == Spec => []TypeOK
<1> QED
  BY InitTypeOK, NextTypeOK, PTL DEF Spec
-----------------------------------------------------------------------------
(* The walk of the directories.                                            *)

\* The directory that comes after those that were read.
Upcoming == IF ifds = <<>> THEN file.first ELSE file.dirs[ifds[Len(ifds)]].next

\* What directory d points to and parses, by its first n pointers or by all.
PointedBy(d, n) == {o \in {file.dirs[d].points[i] : i \in 1 .. n} : Parses(o)}
Pointed(d)      == {o \in Listed(file.dirs[d].points) : Parses(o)}

Walking  == pc \in {"classify", "chain", "points", "none"}
IsWalked == ~Walking /\ Classify = "AppleDng"

\* The directories read so far are a path of next pointers from the first,
\* and the sub-directories what its pointers gave so far; a walk that is over
\* was at its bound, or had nowhere to go.
WalkInv ==
  /\ \A i \in 1 .. Len(ifds) : Parses(ifds[i]) /\ ifds[i] \in ChainDirs
  /\ ifds # <<>> => ifds[1] = file.first
  /\ \A i \in 1 .. Len(ifds) - 1 : ifds[i + 1] = file.dirs[ifds[i]].next
  /\ pc \in {"classify", "none"} => ifds = <<>>
  /\ pc = "chain" => current = Upcoming
  /\ pc = "points" =>
       /\ Len(ifds) > 0 /\ current = ifds[Len(ifds)]
       /\ off <= Len(file.dirs[current].points) + 1
       /\ Listed(sub_ifds) = (UNION {Pointed(ifds[i]) : i \in 1 .. Len(ifds) - 1}) \cup PointedBy(current, off - 1)
  /\ pc # "points" => Listed(sub_ifds) = UNION {Pointed(ifds[i]) : i \in 1 .. Len(ifds)}
  /\ IsWalked => Len(ifds) >= MaxDirs \/ ~Parses(Upcoming)

LEMMA ChainGoesOn ==
  ASSUME TypeOK
  PROVE  /\ Parses(file.first) => file.first \in ChainDirs
         /\ \A o \in ChainDirs : Parses(file.dirs[o].next) => file.dirs[o].next \in ChainDirs
  BY DEF ChainDirs, Follows, Parses

LEMMA ListedByIndex ==
  ASSUME NEW S, NEW s \in Seq(S)
  PROVE  Listed(s) = {s[i] : i \in 1 .. Len(s)}
  BY DEF Listed

LEMMA ChainIsFinite ==
  ASSUME TypeOK
  PROVE  IsFiniteSet(ChainDirs) /\ Cardinality(ChainDirs) \in Nat
<1>1. IsFiniteSet(DOMAIN file.dirs) /\ ChainDirs \in SUBSET DOMAIN file.dirs
  BY DEF TypeOK, FileSpace, ChainDirs
<1> QED
  BY <1>1, FS_Subset, FS_CardinalityType

\* A path that goes nowhere, or comes back to itself, or is as long as the
\* chain, has all of the chain.
LEMMA PathIsComplete ==
  ASSUME TypeOK, WalkInv, Len(ifds) >= MaxDirs \/ ~Parses(Upcoming), Cardinality(ChainDirs) <= MaxDirs
  PROVE  Listed(ifds) = ChainDirs
<1> DEFINE n == Len(ifds)
<1>1. /\ n \in Nat /\ ifds \in [1 .. n -> ChainDirs] /\ ifds \in [1 .. n -> DOMAIN file.dirs]
      /\ Listed(ifds) = {ifds[i] : i \in 1 .. n}
  BY ListedByIndex DEF TypeOK, WalkInv
<1>2. ASSUME NEW m \in 0 .. n, Follows({ifds[i] : i \in 1 .. m})
      PROVE  Listed(ifds) = ChainDirs
  <2>1. {ifds[i] : i \in 1 .. m} \in SUBSET DOMAIN file.dirs
    BY <1>1
  <2>2. ChainDirs \subseteq {ifds[i] : i \in 1 .. m}
    BY <1>2, <2>1 DEF ChainDirs
  <2>3. {ifds[i] : i \in 1 .. m} \subseteq Listed(ifds) /\ Listed(ifds) \subseteq ChainDirs
    BY <1>1
  <2> QED
    BY <2>2, <2>3
<1>3. CASE ~Parses(Upcoming)
  <2>1. Parses(file.first) => file.first \in {ifds[i] : i \in 1 .. n}
    BY <1>1, <1>3 DEF WalkInv, Upcoming, TypeOK
  <2>2. ASSUME NEW i \in 1 .. n, Parses(file.dirs[ifds[i]].next)
        PROVE  file.dirs[ifds[i]].next \in {ifds[k] : k \in 1 .. n}
    <3>1. i # n
      BY <1>3, <2>2 DEF Upcoming, TypeOK
    <3>2. i \in 1 .. n - 1 /\ i + 1 \in 1 .. n
      <4> HIDE DEF n
      <4>1. n \in Nat
        BY <1>1
      <4> QED
        BY <3>1, <4>1
    <3>3. ifds[i + 1] = file.dirs[ifds[i]].next
      BY <3>2 DEF WalkInv
    <3> QED
      BY <3>2, <3>3
  <2>3. Follows({ifds[i] : i \in 1 .. n})
    BY <2>1, <2>2 DEF Follows
  <2> QED
    BY <1>1, <1>2, <2>3
<1>4. CASE \E i, j \in 1 .. n : i < j /\ ifds[i] = ifds[j]
  <2>1. PICK i \in 1 .. n, j \in 1 .. n : i < j /\ ifds[i] = ifds[j]
    BY <1>4
  <2>2. file.first \in {ifds[k] : k \in 1 .. j - 1}
    BY <1>1, <2>1 DEF WalkInv, TypeOK
  <2>3. ASSUME NEW k \in 1 .. j - 1
        PROVE  file.dirs[ifds[k]].next \in {ifds[l] : l \in 1 .. j - 1}
    <3>1. ifds[k + 1] = file.dirs[ifds[k]].next
      BY <1>1, <2>1 DEF WalkInv
    <3>2. CASE k + 1 = j
      BY <2>1, <3>1, <3>2
    <3>3. CASE k + 1 # j
      BY <2>1, <3>1, <3>3
    <3> QED
      BY <3>2, <3>3
  <2>4. Follows({ifds[k] : k \in 1 .. j - 1})
    BY <2>2, <2>3 DEF Follows
  <2> QED
    BY <1>2, <2>1, <2>4
<1>5. CASE n >= MaxDirs /\ \A i, j \in 1 .. n : i # j => ifds[i] # ifds[j]
  <2>1. ifds \in Injection(1 .. n, ChainDirs)
    BY <1>1, <1>5 DEF Injection, IsInjective
  <2>2. IsFiniteSet(1 .. n) /\ Cardinality(1 .. n) = n
    <3> HIDE DEF n
    <3>1. n \in Int /\ 1 \in Int
      BY <1>1
    <3>2. IsFiniteSet(1 .. n) /\ Cardinality(1 .. n) = IF 1 > n THEN 0 ELSE n - 1 + 1
      BY <3>1, FS_Interval, Zenon
    <3> QED
      BY <1>1, <3>2
  <2>3. n <= Cardinality(ChainDirs)
    BY <2>1, <2>2, ChainIsFinite, FS_Injection
  <2>4. n = Cardinality(ChainDirs)
    BY <1>1, <1>5, <2>3, ChainIsFinite, AppleMetadataAssumption
  <2>5. ifds \in Surjection(1 .. n, ChainDirs)
    BY <2>1, <2>2, <2>4, ChainIsFinite, FS_Injection
  <2> QED
    BY <1>1, <2>5 DEF Surjection
<1>6. (\E i, j \in 1 .. n : i < j /\ ifds[i] = ifds[j]) \/ (\A i, j \in 1 .. n : i # j => ifds[i] # ifds[j])
  BY <1>1
<1> QED
  BY <1>3, <1>4, <1>5, <1>6

-----------------------------------------------------------------------------
\* Steps that leave the walk and the phase it is in alone.
LEMMA WalkFrame ==
  ASSUME WalkInv, UNCHANGED <<file, structure>>, pc' = pc
  PROVE  WalkInv'
  BY DEF WalkInv, structure, Upcoming, PointedBy, Pointed, Walking, IsWalked, Classify, Parses, ChainDirs, Follows

\* Steps of what comes after the walk.
LEMMA WalkedFrame ==
  ASSUME WalkInv, UNCHANGED <<file, structure>>, ~Walking, ~Walking'
  PROVE  WalkInv'
  BY DEF WalkInv, structure, Upcoming, PointedBy, Pointed, Walking, IsWalked, Classify, Parses, ChainDirs, Follows

LEMMA InitWalkInv == Init => WalkInv
<1> SUFFICES ASSUME Init PROVE WalkInv
  OBVIOUS
<1>1. ifds = <<>> /\ sub_ifds = <<>> /\ pc = "classify"
  BY DEF Init
<1>2. Len(ifds) = 0 /\ Listed(sub_ifds) = {}
  BY <1>1 DEF Listed
<1> QED
  BY <1>1, <1>2 DEF WalkInv, IsWalked, Walking

LEMMA NextWalkInv == TypeOK /\ WalkInv /\ [Next]_vars => WalkInv'
<1> SUFFICES ASSUME TypeOK, WalkInv, [Next]_vars PROVE WalkInv'
  OBVIOUS
<1>1. CASE Begin
  <2>1. ifds = <<>> /\ ifds' = <<>> /\ Len(ifds) = 0 /\ Listed(sub_ifds) = {} /\ sub_ifds' = sub_ifds
    BY <1>1 DEF Begin, WalkInv, TypeOK
  <2>2. Listed(sub_ifds') = {} /\ Len(ifds') = 0
    BY <2>1
  <2>3. file' = file /\ current' = file.first
    BY <1>1 DEF Begin
  <2>4. (pc' = "none" \/ pc' = "chain" \/ pc' = "gain") /\ (pc' = "gain" => Classify # "AppleDng")
    BY <1>1 DEF Begin
  <2> QED
    BY <2>1, <2>2, <2>3, <2>4 DEF WalkInv, Upcoming, IsWalked, Walking, Classify
<1>2. CASE ReadDirectory
  <2> DEFINE n == Len(ifds)
  <2>1. /\ pc = "chain" /\ pc' = "points" /\ current = Upcoming /\ Parses(current)
        /\ ifds' = Append(ifds, current) /\ off' = 1 /\ UNCHANGED <<file, current, sub_ifds>>
    BY <1>2 DEF ReadDirectory, GoesOn, WalkInv
  <2>2. n \in Nat /\ ifds \in Seq(DOMAIN file.dirs) /\ current \in DOMAIN file.dirs
    BY <2>1 DEF TypeOK, Parses
  <2>3. /\ Len(ifds') = n + 1 /\ ifds'[n + 1] = current
        /\ \A i \in 1 .. n : ifds'[i] = ifds[i]
    BY <2>1, <2>2, AppendToSeq
  <2>4. current \in ChainDirs
    BY <2>1, <2>2, ChainGoesOn DEF Upcoming, WalkInv
  <2>5. (ifds = <<>> <=> n = 0) /\ (\A i \in 1 .. n : Parses(ifds[i]) /\ ifds[i] \in ChainDirs)
    BY <2>2 DEF WalkInv
  <2>6. /\ \A i \in 1 .. n - 1 : ifds[i + 1] = file.dirs[ifds[i]].next
        /\ n # 0 => ifds[1] = file.first
        /\ Listed(sub_ifds) = UNION {Pointed(ifds[i]) : i \in 1 .. n}
    BY <2>1, <2>5 DEF WalkInv
  <2>7. current = IF n = 0 THEN file.first ELSE file.dirs[ifds[n]].next
    BY <2>1, <2>5 DEF Upcoming
  <2> HIDE DEF n
  <2>8. \A i \in 1 .. n + 1 : Parses(ifds'[i]) /\ ifds'[i] \in ChainDirs
    BY <2>1, <2>2, <2>3, <2>4, <2>5
  <2>9. ifds'[1] = file.first /\ \A i \in 1 .. n : ifds'[i + 1] = file.dirs[ifds'[i]].next
    <3>1. ASSUME NEW i \in 1 .. n PROVE ifds'[i + 1] = file.dirs[ifds'[i]].next
      BY <2>2, <2>3, <2>6, <2>7
    <3> QED
      BY <2>2, <2>3, <2>6, <2>7, <3>1
  <2>10. Listed(sub_ifds) = (UNION {Pointed(ifds'[i]) : i \in 1 .. n}) \cup PointedBy(current, 0)
    BY <2>3, <2>6 DEF PointedBy
  <2>11. /\ \A o : Parses(o)' <=> Parses(o)
         /\ \A d : Pointed(d)' = Pointed(d) /\ \A k : PointedBy(d, k)' = PointedBy(d, k)
         /\ ChainDirs' = ChainDirs
    BY <2>1 DEF Parses, Pointed, PointedBy, ChainDirs, Follows
  <2>12. Len(file.dirs[current].points) \in Nat
    BY <2>2 DEF TypeOK, FileSpace, DirSpace
  <2>13. n + 1 - 1 = n /\ n + 1 > 0 /\ 1 - 1 = 0 /\ 1 <= Len(file.dirs[current].points) + 1
    BY <2>2, <2>12
  <2>14. /\ Len(ifds') > 0 /\ current' = ifds'[Len(ifds')]
         /\ off' <= Len(file'.dirs[current'].points) + 1
    BY <2>1, <2>2, <2>3, <2>13
  <2>15. Len(ifds') - 1 = n /\ off' - 1 = 0 /\ current' = current /\ sub_ifds' = sub_ifds
    BY <2>1, <2>2, <2>3
  <2>16. (Listed(sub_ifds) = (UNION {Pointed(ifds[i]) : i \in 1 .. Len(ifds) - 1}) \cup PointedBy(current, off - 1))'
    BY <2>10, <2>11, <2>15
  <2>17. /\ (\A i \in 1 .. Len(ifds) : Parses(ifds[i]) /\ ifds[i] \in ChainDirs)'
         /\ \A i \in 1 .. Len(ifds') - 1 : ifds'[i + 1] = file'.dirs[ifds'[i]].next
    <3>1. (\A i \in 1 .. Len(ifds) : Parses(ifds[i]) /\ ifds[i] \in ChainDirs)'
      BY <2>1, <2>3, <2>8 DEF Parses, ChainDirs, Follows
    <3> QED
      BY <2>1, <2>9, <2>15, <3>1
  <2>18. ifds'[1] = file'.first /\ pc' = "points"
    BY <2>1, <2>9
  <2> QED
    BY <2>14, <2>16, <2>17, <2>18 DEF WalkInv, IsWalked, Walking
<1>3. CASE ReadSubIfd
  <2> DEFINE o == file.dirs[current].points[off]
             many == Len(file.dirs[current].points)
  <2>1. /\ pc = "points" /\ pc' = "points" /\ off \in 1 .. many /\ off' = off + 1
        /\ sub_ifds' = IF Parses(o) THEN Append(sub_ifds, o) ELSE sub_ifds
        /\ UNCHANGED <<file, current, ifds>>
    BY <1>3 DEF ReadSubIfd, TypeOK, FileSpace, DirSpace
  <2>2. Listed(sub_ifds') = Listed(sub_ifds) \cup {x \in {o} : Parses(x)}
    <3>1. CASE Parses(o)
      <4>1. sub_ifds \in Seq(DOMAIN file.dirs) /\ o \in DOMAIN file.dirs /\ sub_ifds' = Append(sub_ifds, o)
        BY <2>1, <3>1 DEF TypeOK, Parses
      <4> HIDE DEF o
      <4>2. /\ Append(sub_ifds, o) \in Seq(DOMAIN file.dirs) /\ Len(Append(sub_ifds, o)) = Len(sub_ifds) + 1
            /\ \A i \in 1 .. Len(sub_ifds) : Append(sub_ifds, o)[i] = sub_ifds[i]
            /\ Append(sub_ifds, o)[Len(sub_ifds) + 1] = o
        BY <4>1, AppendToSeq
      <4>3. Listed(sub_ifds') = {Append(sub_ifds, o)[i] : i \in 1 .. Len(sub_ifds) + 1}
        BY <4>1, <4>2, ListedByIndex
      <4>4. Listed(sub_ifds) = {sub_ifds[i] : i \in 1 .. Len(sub_ifds)} /\ Len(sub_ifds) \in Nat
        BY <4>1, ListedByIndex
      <4> QED
        BY <3>1, <4>2, <4>3, <4>4
    <3>2. CASE ~Parses(o)
      BY <2>1, <3>2
    <3> QED
      BY <3>1, <3>2
  <2>3. PointedBy(current, off) = PointedBy(current, off - 1) \cup {x \in {o} : Parses(x)}
    BY <2>1 DEF PointedBy
  <2>4. /\ Len(ifds) > 0 /\ current = ifds[Len(ifds)]
        /\ Listed(sub_ifds) = (UNION {Pointed(ifds[i]) : i \in 1 .. Len(ifds) - 1}) \cup PointedBy(current, off - 1)
    BY <2>1 DEF WalkInv
  <2>5. Listed(sub_ifds') = (UNION {Pointed(ifds[i]) : i \in 1 .. Len(ifds) - 1}) \cup PointedBy(current, off)
    <3> DEFINE U == UNION {Pointed(ifds[i]) : i \in 1 .. Len(ifds) - 1}
               X == {x \in {o} : Parses(x)}
    <3>1. Listed(sub_ifds') = Listed(sub_ifds) \cup X /\ PointedBy(current, off) = PointedBy(current, off - 1) \cup X
      BY <2>2, <2>3
    <3>2. Listed(sub_ifds) = U \cup PointedBy(current, off - 1)
      BY <2>4
    <3> HIDE DEF U, X
    <3>3. Listed(sub_ifds') = U \cup PointedBy(current, off)
      BY <3>1, <3>2
    <3> QED
      BY <3>3 DEF U
  <2>6. /\ \A x : Parses(x)' <=> Parses(x)
        /\ \A d : Pointed(d)' = Pointed(d) /\ \A k : PointedBy(d, k)' = PointedBy(d, k)
        /\ ChainDirs' = ChainDirs
    BY <2>1 DEF Parses, Pointed, PointedBy, ChainDirs, Follows
  <2>7. off' - 1 = off /\ off' <= many + 1
    BY <2>1 DEF TypeOK, FileSpace, DirSpace
  <2>8. (/\ Len(ifds) > 0 /\ current = ifds[Len(ifds)] /\ off <= Len(file.dirs[current].points) + 1
         /\ Listed(sub_ifds) = (UNION {Pointed(ifds[i]) : i \in 1 .. Len(ifds) - 1}) \cup PointedBy(current, off - 1))'
    BY <2>1, <2>4, <2>5, <2>6, <2>7
  <2>9. /\ (\A i \in 1 .. Len(ifds) : Parses(ifds[i]) /\ ifds[i] \in ChainDirs)'
        /\ (ifds # <<>> => ifds[1] = file.first)'
        /\ (\A i \in 1 .. Len(ifds) - 1 : ifds[i + 1] = file.dirs[ifds[i]].next)'
    BY <2>1 DEF WalkInv, Parses, ChainDirs, Follows
  <2> QED
    BY <2>1, <2>8, <2>9 DEF WalkInv, IsWalked, Walking
<1>4. CASE NextDirectory
  <2> DEFINE many == Len(file.dirs[current].points)
  <2>1. /\ pc = "points" /\ pc' = "chain" /\ current' = file.dirs[current].next
        /\ off > many /\ UNCHANGED <<file, ifds, sub_ifds>>
    BY <1>4 DEF NextDirectory
  <2>2. /\ Len(ifds) > 0 /\ current = ifds[Len(ifds)] /\ off <= many + 1
        /\ Listed(sub_ifds) = (UNION {Pointed(ifds[i]) : i \in 1 .. Len(ifds) - 1}) \cup PointedBy(current, off - 1)
    BY <2>1 DEF WalkInv
  <2>3. file.dirs[current].points \in Seq(Nat) /\ many \in Nat /\ off \in Nat /\ Len(ifds) \in Nat
    BY <2>1 DEF TypeOK, FileSpace, DirSpace
  <2>4. PointedBy(current, off - 1) = Pointed(current)
    <3>1. off - 1 = many
      BY <2>1, <2>2, <2>3
    <3> QED
      BY <2>3, <3>1, ListedByIndex DEF PointedBy, Pointed
  <2>5. Listed(sub_ifds) = UNION {Pointed(ifds[i]) : i \in 1 .. Len(ifds)}
    <3>1. Listed(sub_ifds) = (UNION {Pointed(ifds[i]) : i \in 1 .. Len(ifds) - 1}) \cup Pointed(ifds[Len(ifds)])
      BY <2>2, <2>4
    <3>2. \A i : i \in 1 .. Len(ifds) <=> i \in 1 .. Len(ifds) - 1 \/ i = Len(ifds)
      BY <2>2, <2>3
    <3>3. ASSUME NEW x
          PROVE  x \in Listed(sub_ifds) <=> \E i \in 1 .. Len(ifds) : x \in Pointed(ifds[i])
      BY <3>1, <3>2, Zenon
    <3> QED
      BY <3>3
  <2>6. current' = Upcoming /\ ifds # <<>>
    BY <2>1, <2>2 DEF Upcoming, TypeOK
  <2> QED
    BY <2>1, <2>5, <2>6 DEF WalkInv, Upcoming, Pointed, PointedBy, IsWalked, Walking, Parses, ChainDirs, Follows
<1>5. CASE ReadTags
  <2>1. pc = "chain" /\ current = Upcoming /\ ~GoesOn /\ UNCHANGED <<file, structure>> /\ pc' = "gain"
    BY <1>5 DEF ReadTags, WalkInv
  <2>2. Len(ifds) >= MaxDirs \/ ~Parses(Upcoming)
    BY <2>1, AppleMetadataAssumption DEF GoesOn, TypeOK
  <2> QED
    BY <2>1, <2>2 DEF WalkInv, structure, Upcoming, PointedBy, Pointed, Walking, IsWalked, Classify, Parses, ChainDirs, Follows
<1>6. CASE OpenJpeg
  <2>1. ~Walking /\ ~Walking' /\ UNCHANGED <<file, structure>>
    BY <1>6 DEF OpenJpeg, Walking
  <2> QED
    BY <2>1, WalkedFrame
<1>7. CASE Walk \/ ReadIndex \/ ReadFrame \/ WalkIsOver
  <2>1. ~Walking /\ ~Walking' /\ UNCHANGED <<file, structure>>
    BY <1>7 DEF Walk, ReadIndex, ReadFrame, WalkIsOver, Walking
  <2> QED
    BY <2>1, WalkedFrame
<1>8. CASE GainPacket \/ GainBlock \/ ReadPacket \/ Answer
  <2>1. ~Walking /\ ~Walking' /\ UNCHANGED <<file, structure>>
    BY <1>8 DEF GainPacket, GainBlock, ReadPacket, Answer, Walking
  <2> QED
    BY <2>1, WalkedFrame
<1>9. CASE Returned \/ UNCHANGED vars
  BY <1>9, WalkFrame DEF Returned, vars
<1> QED
  BY <1>1, <1>2, <1>3, <1>4, <1>5, <1>6, <1>7, <1>8, <1>9 DEF Next

LEMMA WalkIsComplete == TypeOK /\ WalkInv => EveryDirectoryRead
<1> SUFFICES ASSUME TypeOK, WalkInv PROVE EveryDirectoryRead
  OBVIOUS
<1>1. Listed(ifds) = {ifds[i] : i \in 1 .. Len(ifds)}
  BY ListedByIndex DEF TypeOK
<1>2. Listed(ifds) \subseteq ChainDirs
  BY <1>1 DEF WalkInv
<1>3. ASSUME ~Walking, Classify = "AppleDng"
      PROVE  /\ Cardinality(ChainDirs) <= MaxDirs => Listed(ifds) = ChainDirs
             /\ Listed(sub_ifds) = UNION {{o \in Listed(file.dirs[d].points) : Parses(o)} : d \in Listed(ifds)}
  <2>1. Len(ifds) >= MaxDirs \/ ~Parses(Upcoming)
    BY <1>3 DEF WalkInv, IsWalked
  <2>2. Listed(sub_ifds) = UNION {Pointed(ifds[i]) : i \in 1 .. Len(ifds)}
    BY <1>3 DEF WalkInv, Walking
  <2>3. UNION {Pointed(ifds[i]) : i \in 1 .. Len(ifds)} = UNION {Pointed(d) : d \in Listed(ifds)}
    BY <1>1
  <2> QED
    BY <2>1, <2>2, <2>3, PathIsComplete DEF Pointed
<1> QED
  BY <1>2, <1>3 DEF EveryDirectoryRead, Walking

\* In files of every shape, and for every bound: what is read is the chain of
\* next pointers and nothing else, all of it if it is no longer than the bound
\* and however it comes back to itself, with the sub-directories it points to.
THEOREM ReadsTheChain == Spec => []EveryDirectoryRead
<1>1. Init => TypeOK /\ WalkInv
  BY InitTypeOK, InitWalkInv
<1>2. TypeOK /\ WalkInv /\ [Next]_vars => (TypeOK /\ WalkInv)'
  BY NextTypeOK, NextWalkInv
<1>3. TypeOK /\ WalkInv => EveryDirectoryRead
  BY WalkIsComplete
<1> QED
  BY <1>1, <1>2, <1>3, PTL DEF Spec

-----------------------------------------------------------------------------
(* The search for XMP packets.                                             *)

\* A set of positions that is not empty has a least one, and only one.
LEMMA LeastExists ==
  ASSUME NEW S \in SUBSET Nat, S # {}
  PROVE  \E x \in S : Least(S) = {x} /\ \A y \in S : x <= y
<1> DEFINE R == {ss \in Nat \X Nat : ss[1] < ss[2]}
<1>1. IsWellFoundedOn(R, Nat)
  BY NatLessThanWellFounded DEF OpToRel
<1>2. PICK x \in S : \A y \in S : ~(<<y, x>> \in R)
  <2> HIDE DEF R
  <2> QED
    BY <1>1, WFMin
<1>3. ASSUME NEW y \in S PROVE x <= y
  <2>1. x \in Nat /\ y \in Nat /\ ~(<<y, x>> \in R)
    BY <1>2
  <2>2. <<y, x>> \in Nat \X Nat /\ <<y, x>>[1] = y /\ <<y, x>>[2] = x
    BY <2>1
  <2>3. ~(y < x)
    BY <2>1, <2>2
  <2> QED
    BY <2>1, <2>3
<1>4. ASSUME NEW y \in Least(S) PROVE y = x
  BY <1>3, <1>4 DEF Least
<1>5. x \in Least(S)
  BY <1>3 DEF Least
<1> QED
  BY <1>3, <1>4, <1>5

LEMMA Places ==
  ASSUME TypeOK, NEW what, NEW p, NEW end
  PROVE  Find(what, p, end) \in SUBSET Nat
  BY DEF TypeOK, FileSpace, Find

\* What a search finds begins at the next begin mark, and ends at the first
\* close mark after the first end mark behind it; it finds at most one.
LEMMA PacketShape ==
  ASSUME TypeOK, NEW p \in Nat, NEW end \in Nat, NEW x \in Packet(p, end)
  PROVE  /\ x[1] \in Find("begin", p, end) /\ x[2] \in Nat /\ x[1] <= x[2] /\ x[2] < end
         /\ \A n \in Find("begin", p, end) : x[1] <= n
         /\ \A e \in Find("end", x[1], end) : \A c \in Find("close", e, end) : x[2] <= c
         /\ x = <<x[1], x[2]>>
<1>1. /\ x[1] \in Least(Find("begin", p, end)) /\ x[2] \in Find("close", p, end) /\ x = <<x[1], x[2]>>
      /\ \E e \in Least(Find("end", x[1], end)) : x[2] \in Least(Find("close", e, end))
  BY DEF Packet
<1>2. PICK e \in Least(Find("end", x[1], end)) : x[2] \in Least(Find("close", e, end))
  BY <1>1
<1>3. /\ x[1] \in Find("begin", p, end) /\ \A n \in Find("begin", p, end) : x[1] <= n
      /\ e \in Find("end", x[1], end) /\ \A f \in Find("end", x[1], end) : e <= f
      /\ x[2] \in Find("close", e, end) /\ \A c \in Find("close", e, end) : x[2] <= c
  BY <1>1, <1>2 DEF Least
<1>4. x[1] \in Nat /\ e \in Nat /\ x[2] \in Nat
  BY <1>3, Places
<1>5. x[1] <= e /\ e <= x[2] /\ x[2] < end
  BY <1>3 DEF Find
<1>6. ASSUME NEW f \in Find("end", x[1], end), NEW c \in Find("close", f, end)
      PROVE  x[2] <= c
  <2>1. f \in Nat /\ c \in Nat /\ e <= f
    BY <1>3, <1>6, Places
  <2>2. c \in Find("close", e, end)
    BY <1>4, <1>6, <2>1 DEF Find
  <2> QED
    BY <1>3, <2>2
<1> QED
  BY <1>1, <1>3, <1>4, <1>5, <1>6

\* The packet a begin mark opens is its own.
LEMMA PacketOfItsBegin ==
  ASSUME TypeOK, NEW p \in Nat, NEW end \in Nat, NEW x \in Packet(p, end)
  PROVE  Packet(x[1], end) = {x}
<1>1. /\ x[1] \in Least(Find("begin", p, end)) /\ x[2] \in Find("close", p, end) /\ x = <<x[1], x[2]>>
      /\ \E e \in Least(Find("end", x[1], end)) : x[2] \in Least(Find("close", e, end))
  BY DEF Packet
<1>2. x[1] \in Find("begin", p, end) /\ x[1] \in Nat /\ x[2] \in Nat /\ x[1] <= x[2]
  BY PacketShape, Places
<1>3. x[1] \in Find("begin", x[1], end) /\ x[2] \in Find("close", x[1], end)
  BY <1>1, <1>2 DEF Find
<1>4. Least(Find("begin", x[1], end)) = {x[1]}
  <2>1. \A n \in Find("begin", x[1], end) : n \in Nat /\ x[1] <= n
    BY Places DEF Find
  <2> QED
    BY <1>2, <1>3, <2>1 DEF Least
<1>5. x \in Packet(x[1], end)
  BY <1>1, <1>3, <1>4 DEF Packet
<1>6. ASSUME NEW y \in Packet(x[1], end) PROVE y = x
  <2>1. y[1] \in Least(Find("begin", x[1], end)) /\ y = <<y[1], y[2]>>
    BY <1>6 DEF Packet
  <2>2. y[1] = x[1]
    BY <1>4, <2>1
  <2>3. PICK e \in Least(Find("end", x[1], end)) : x[2] \in Least(Find("close", e, end))
    BY <1>1
  <2>4. PICK f \in Least(Find("end", x[1], end)) : y[2] \in Least(Find("close", f, end))
    BY <1>6, <2>2 DEF Packet
  <2>5. e \in Nat /\ f \in Nat /\ e <= f /\ f <= e
    BY <2>3, <2>4, Places DEF Least
  <2>6. e = f
    BY <2>5
  <2>7. x[2] \in Nat /\ y[2] \in Nat /\ x[2] <= y[2] /\ y[2] <= x[2]
    BY <2>3, <2>4, <2>6, Places DEF Least
  <2> QED
    BY <1>1, <2>1, <2>2, <2>7
<1> QED
  BY <1>5, <1>6

\* In a text in order nothing is lost: a search that finds nothing has no
\* begin mark left, and one that finds a packet goes on before the next.
LEMMA NothingLeftToFind ==
  ASSUME TypeOK, NEW start \in Nat, NEW size \in Nat, TextInOrder(start, size),
         NEW p \in Nat, start <= p, Packet(p, size) = {}
  PROVE  Find("begin", p, size) = {}
<1> SUFFICES ASSUME Find("begin", p, size) # {} PROVE FALSE
  OBVIOUS
<1>1. PICK b \in Find("begin", p, size) : Least(Find("begin", p, size)) = {b}
  BY LeastExists, Places
<1>2. b \in Nat /\ p <= b /\ b \in Find("begin", start, size)
  <2>1. b \in Nat
    BY <1>1, Places
  <2> QED
    BY <1>1, <2>1 DEF Find
<1>3. PICK c \in Find("close", b, size) : \E e \in Find("end", b, c) : TRUE
  BY <1>2 DEF TextInOrder
<1>4. PICK e \in Find("end", b, c) : TRUE
  BY <1>3
<1>5. c \in Nat /\ e \in Nat /\ b <= e /\ e < c /\ c < size
  BY <1>3, <1>4, Places DEF Find
<1>6. e \in Find("end", b, size)
  BY <1>4, <1>5 DEF Find
<1>7. PICK f \in Find("end", b, size) : Least(Find("end", b, size)) = {f} /\ f <= e
  BY <1>6, LeastExists, Places
<1>8. f \in Nat /\ b <= f
  BY <1>7, Places DEF Find
<1>9. c \in Find("close", f, size)
  BY <1>3, <1>5, <1>7, <1>8 DEF Find
<1>10. PICK d \in Find("close", f, size) : Least(Find("close", f, size)) = {d}
  BY <1>9, LeastExists, Places
<1>11. d \in Nat /\ f <= d
  BY <1>10, Places DEF Find
<1>12. d \in Find("close", p, size)
  BY <1>2, <1>8, <1>10, <1>11 DEF Find
<1>13. <<b, d>> \in Packet(p, size)
  BY <1>1, <1>7, <1>10, <1>12 DEF Packet
<1> QED
  BY <1>13

LEMMA NextIsBehind ==
  ASSUME TypeOK, NEW start \in Nat, NEW size \in Nat, TextInOrder(start, size),
         NEW p \in Nat, start <= p, NEW x \in Packet(p, size),
         NEW b \in Find("begin", start, size), p <= b
  PROVE  b = x[1] \/ x[2] + 1 <= b
<1>1. /\ x[1] \in Find("begin", p, size) /\ x[2] \in Nat
      /\ \A n \in Find("begin", p, size) : x[1] <= n
      /\ \A e \in Find("end", x[1], size) : \A c \in Find("close", e, size) : x[2] <= c
  BY PacketShape
<1>2. b \in Nat /\ x[1] \in Nat /\ b \in Find("begin", p, size) /\ x[1] \in Find("begin", start, size)
  <2>1. b \in Nat /\ x[1] \in Nat
    BY <1>1, Places
  <2> QED
    BY <1>1, <2>1 DEF Find
<1>3. x[1] <= b
  BY <1>1, <1>2
<1>4. ASSUME b # x[1] PROVE x[2] + 1 <= b
  <2>1. b \in Find("begin", x[1] + 1, size)
    BY <1>2, <1>3, <1>4 DEF Find
  <2>2. PICK c \in Find("close", x[1], size) :
          (\E e \in Find("end", x[1], c) : TRUE) /\ \A n \in Find("begin", x[1] + 1, size) : c < n
    BY <1>2 DEF TextInOrder
  <2>3. PICK e \in Find("end", x[1], c) : TRUE
    BY <2>2
  <2>4. c \in Nat /\ e \in Nat /\ e < c /\ c < size /\ c < b
    BY <2>1, <2>2, <2>3, Places DEF Find
  <2>5. e \in Find("end", x[1], size) /\ c \in Find("close", e, size)
    BY <2>2, <2>3, <2>4 DEF Find
  <2>6. x[2] <= c
    BY <1>1, <2>5
  <2> QED
    BY <1>1, <1>2, <2>4, <2>6
<1> QED
  BY <1>4

-----------------------------------------------------------------------------
(* What is reported of the apdi properties.                                *)

\* The shape of what was extracted.
Kept ==
  /\ DOMAIN meta = DOMAIN NoMeta
  /\ DOMAIN meta.apdi = Fields
  /\ meta.gain_map # <<>> =>
       /\ DOMAIN meta.gain_map = {1}
       /\ DOMAIN meta.gain_map[1] = {"at", "frame", "xmp"}
       /\ meta.gain_map[1].xmp # <<>> => DOMAIN meta.gain_map[1].xmp = {1}

\* Of each field the packets before p said what is reported, the first of
\* them that says anything; where nothing is reported they were silent.
Spoken(p) ==
  \A f \in Fields :
    /\ meta.apdi[f] = <<>> => \A b \in Saying(f) : p <= b
    /\ meta.apdi[f] # <<>> =>
         \E b \in Saying(f) :
           /\ b < p /\ \A c \in Saying(f) : b <= c
           /\ \A x \in Packet(b, file.size) : meta.apdi[f] = Property(x, f)

WordInv ==
  /\ Kept
  /\ pc \in {"classify", "chain", "points", "gain", "mpf", "sof"} => from = 0
  /\ pc \notin {"packets", "some"} => \A f \in Fields : meta.apdi[f] = <<>>
  /\ pc = "packets" /\ TextInOrder(0, file.size) => Spoken(from)
  /\ FirstWordStands

LEMMA InitWordInv == Init => WordInv
  BY DEF Init, WordInv, Kept, NoMeta, FirstWordStands

\* The text of a file is the same after every step.
LEMMA TextFrame ==
  ASSUME file' = file
  PROVE  /\ \A p, end : Packet(p, end)' = Packet(p, end)
         /\ \A x, f : Property(x, f)' = Property(x, f)
         /\ \A f : Saying(f)' = Saying(f)
         /\ \A start, end : TextInOrder(start, end)' <=> TextInOrder(start, end)
         /\ \A what, p, end : Find(what, p, end)' = Find(what, p, end)
         /\ \A x : Readable(x)' <=> Readable(x)
<1>1. \A what, p, end : Find(what, p, end)' = Find(what, p, end)
  BY DEF Find
<1>2. \A p, end : Packet(p, end)' = Packet(p, end)
  BY <1>1 DEF Packet, Least
<1>3. \A x : Readable(x)' <=> Readable(x)
  BY <1>1 DEF Readable
<1>4. \A x, f : Property(x, f)' = Property(x, f)
  <2> SUFFICES ASSUME NEW x, NEW f PROVE Property(x, f)' = Property(x, f)
    OBVIOUS
  <2> DEFINE Said(how) == {q \in Find(how, x[1], x[2]) : file.text[q][2] = f}
             First(S)  == CHOOSE q \in Least(S) : TRUE
  <2>1. Said("attribute")' = Said("attribute") /\ Said("element")' = Said("element")
    BY <1>1
  <2>2. /\ Property(x, f) =
             IF Said("attribute") # {} THEN file.text[First(Said("attribute"))][3]
             ELSE IF Said("element") # {} THEN file.text[First(Said("element"))][3] ELSE <<>>
        /\ Property(x, f)' =
             IF Said("attribute")' # {} THEN file'.text[First(Said("attribute")')][3]
             ELSE IF Said("element")' # {} THEN file'.text[First(Said("element")')][3] ELSE <<>>
    BY DEF Property
  <2> HIDE DEF Said, First
  <2> QED
    BY <2>1, <2>2
<1>5. \A start, end : TextInOrder(start, end)' <=> TextInOrder(start, end)
  BY <1>1 DEF TextInOrder
<1>6. ASSUME NEW f PROVE Saying(f)' = Saying(f)
  BY <1>1, <1>2, <1>3, <1>4 DEF Saying
<1> QED
  BY <1>1, <1>2, <1>3, <1>4, <1>5, <1>6

\* Before the packets are read nothing was said.
LEMMA SilenceIsSpoken ==
  ASSUME TypeOK, \A f \in Fields : meta.apdi[f] = <<>>
  PROVE  Spoken(0)
<1>1. \A f \in Fields : \A b \in Saying(f) : b \in Nat
  BY Places DEF Saying
<1> QED
  BY <1>1 DEF Spoken

\* A packet is read: what it says of a field is the first word if there was
\* none.
LEMMA ReadPacketSpeaks ==
  ASSUME TypeOK, WordInv, ReadPacket
  PROVE  WordInv'
<1>1. /\ pc = "packets" /\ pc' = "packets" /\ file' = file
      /\ from \in Nat /\ file.size \in Nat
  BY DEF ReadPacket, TypeOK, FileSpace
<1>2. PICK x \in Packet(from, file.size) :
        /\ from' = x[2] + 1
        /\ meta' = IF Readable(x) THEN [meta EXCEPT !.apdi = Fill(meta.apdi, x)] ELSE meta
  BY DEF ReadPacket
<1>3. Kept'
  BY <1>2 DEF WordInv, Kept, Fill, NoMeta
<1>4. ASSUME TextInOrder(0, file.size), NEW f \in Fields
      PROVE  /\ meta'.apdi[f] = <<>> => \A b \in Saying(f) : from' <= b
             /\ meta'.apdi[f] # <<>> =>
                  \E b \in Saying(f) :
                    /\ b < from' /\ \A c \in Saying(f) : b <= c
                    /\ \A y \in Packet(b, file.size) : meta'.apdi[f] = Property(y, f)
  <2>1. meta'.apdi[f] = IF meta.apdi[f] # <<>> THEN meta.apdi[f] ELSE IF Readable(x) THEN Property(x, f) ELSE <<>>
    BY <1>2 DEF WordInv, Kept, Fill, NoMeta
  <2>2. /\ x[1] \in Find("begin", from, file.size) /\ x[1] \in Nat /\ x[2] \in Nat /\ x[1] <= x[2]
        /\ Packet(x[1], file.size) = {x}
    BY <1>1, PacketShape, PacketOfItsBegin, Places
  <2>3. from <= x[1] /\ x[1] \in Find("begin", 0, file.size)
    BY <2>2 DEF Find
  <2>4. \A b \in Saying(f) : b \in Nat /\ b \in Find("begin", 0, file.size)
    BY Places DEF Saying
  <2>5. \A b \in Saying(f) : from <= b => b = x[1] \/ from' <= b
    BY <1>1, <1>2, <1>4, <2>4, NextIsBehind
  <2>6. x[1] \in Saying(f) <=> Readable(x) /\ Property(x, f) # <<>>
    BY <2>2, <2>3 DEF Saying
  <2>7. CASE meta.apdi[f] # <<>>
    <3>1. PICK b \in Saying(f) :
            /\ b < from /\ \A c \in Saying(f) : b <= c
            /\ \A y \in Packet(b, file.size) : meta.apdi[f] = Property(y, f)
      BY <1>1, <1>4, <2>7 DEF WordInv, Spoken
    <3>2. b < from'
      BY <1>1, <1>2, <2>2, <2>3, <2>4, <3>1
    <3> QED
      BY <2>1, <2>7, <3>1, <3>2
  <2>8. CASE meta.apdi[f] = <<>>
    <3>1. \A b \in Saying(f) : from <= b
      BY <1>1, <1>4, <2>8 DEF WordInv, Spoken
    <3>2. CASE Readable(x) /\ Property(x, f) # <<>>
      <4>1. x[1] < from'
        BY <1>2, <2>2
      <4>2. \A c \in Saying(f) : x[1] <= c
        BY <2>2, <2>4, <2>5, <3>1, <4>1, <1>2
      <4> QED
        BY <2>1, <2>2, <2>6, <2>8, <3>2, <4>1, <4>2
    <3>3. CASE ~(Readable(x) /\ Property(x, f) # <<>>)
      BY <2>1, <2>5, <2>6, <2>8, <3>1, <3>3
    <3> QED
      BY <3>2, <3>3
  <2> QED
    BY <2>7, <2>8
<1>5. TextInOrder(0, file.size)' => Spoken(from)'
  BY <1>1, <1>4, TextFrame DEF Spoken
<1> QED
  BY <1>1, <1>3, <1>5 DEF WordInv, FirstWordStands

\* No packet is left: of the fields that have no word the file says nothing.
LEMMA AnswerSpeaks ==
  ASSUME TypeOK, WordInv, Answer
  PROVE  WordInv'
<1>1. /\ pc = "packets" /\ pc' = "some" /\ file' = file /\ Packet(from, file.size) = {}
      /\ from \in Nat /\ file.size \in Nat
  BY DEF Answer, TypeOK, FileSpace
<1> DEFINE told == meta.gain_map # <<>> /\ meta.gain_map[1].xmp # <<>>
<1>2. /\ Kept' /\ meta'.gain_map = meta.gain_map
      /\ \A f \in Fields :
           meta'.apdi[f] = IF told /\ meta.apdi[f] = <<>> THEN Property(meta.gain_map[1].xmp[1], f) ELSE meta.apdi[f]
  BY DEF Answer, WordInv, Kept, Fill, NoMeta
<1>3. ASSUME TextInOrder(0, file.size), NEW f \in Fields
      PROVE  IF Saying(f) # {}
             THEN \A b \in Least(Saying(f)) : \A x \in Packet(b, file.size) : meta'.apdi[f] = Property(x, f)
             ELSE meta'.apdi[f] # <<>> =>
                    \E g \in Listed(meta'.gain_map) : \E x \in Listed(g.xmp) : meta'.apdi[f] = Property(x, f)
  <2>1. \A b \in Saying(f) : b \in Nat /\ b \in Find("begin", 0, file.size) /\ b < file.size
    BY Places DEF Saying, Find
  <2>2. ASSUME NEW b \in Saying(f), from <= b PROVE FALSE
    <3>1. Find("begin", from, file.size) = {}
      BY <1>1, <1>3, NothingLeftToFind
    <3>2. b \in Find("begin", from, file.size)
      BY <2>1, <2>2 DEF Find
    <3> QED
      BY <3>1, <3>2
  <2>3. CASE meta.apdi[f] # <<>>
    <3>1. PICK b \in Saying(f) :
            /\ \A c \in Saying(f) : b <= c
            /\ \A x \in Packet(b, file.size) : meta.apdi[f] = Property(x, f)
      BY <1>1, <1>3, <2>3 DEF WordInv, Spoken
    <3>2. \A c \in Least(Saying(f)) : c = b
      BY <2>1, <3>1 DEF Least
    <3> QED
      BY <1>2, <2>3, <3>1, <3>2
  <2>4. CASE meta.apdi[f] = <<>>
    <3>1. Saying(f) = {}
      BY <1>1, <1>3, <2>2, <2>4 DEF WordInv, Spoken
    <3>2. ASSUME told PROVE meta.gain_map[1] \in Listed(meta.gain_map) /\ meta.gain_map[1].xmp[1] \in Listed(meta.gain_map[1].xmp)
      BY <3>2 DEF WordInv, Kept, Listed
    <3> QED
      BY <1>2, <2>4, <3>1, <3>2
  <2> QED
    BY <2>3, <2>4
<1>4. FirstWordStands'
  BY <1>1, <1>3, TextFrame DEF FirstWordStands, Least
<1> QED
  BY <1>1, <1>2, <1>4 DEF WordInv

LEMMA NextWordInv == TypeOK /\ WordInv /\ [Next]_vars => WordInv'
<1> SUFFICES ASSUME TypeOK, WordInv, [Next]_vars PROVE WordInv'
  OBVIOUS
<1> DEFINE Silent == \A f \in Fields : meta.apdi[f] = <<>>
           Early  == {"classify", "chain", "points", "gain", "mpf", "sof"}
\* A step that leaves what was said alone.
<1>0. ASSUME Kept', meta'.apdi = meta.apdi, file' = file, pc \notin {"packets", "some"},
             pc' \in Early \cup {"gainxmp", "packets", "none"}, pc' \in Early \cup {"packets"} => from' = 0
      PROVE  WordInv'
  <2>1. Silent /\ Silent'
    BY <1>0 DEF WordInv
  <2>2. Spoken(0)'
    <3>1. Spoken(0)
      BY <2>1, SilenceIsSpoken
    <3> QED
      BY <1>0, <3>1, TextFrame DEF Spoken
  <2> QED
    BY <1>0, <2>1, <2>2 DEF WordInv, FirstWordStands
<1>1. CASE Begin
  <2>1. Kept' /\ meta'.apdi = meta.apdi
    BY <1>1 DEF Begin, WordInv, Kept, NoMeta
  <2> QED
    BY <1>0, <1>1, <2>1 DEF Begin, WordInv
<1>2. CASE ReadDirectory \/ ReadSubIfd \/ NextDirectory
  <2>1. Kept' /\ meta'.apdi = meta.apdi
    BY <1>2 DEF ReadDirectory, ReadSubIfd, NextDirectory, WordInv, Kept
  <2> QED
    BY <1>0, <1>2, <2>1 DEF ReadDirectory, ReadSubIfd, NextDirectory, WordInv
<1>3. CASE ReadTags
  <2>1. Kept' /\ meta'.apdi = meta.apdi
    BY <1>3 DEF ReadTags, WordInv, Kept, NoMeta
  <2> QED
    BY <1>0, <1>3, <2>1 DEF ReadTags, WordInv
<1>4. CASE OpenJpeg \/ Walk
  <2>1. Kept' /\ meta'.apdi = meta.apdi
    BY <1>4 DEF OpenJpeg, Walk, WordInv, Kept
  <2> QED
    BY <1>0, <1>4, <2>1 DEF OpenJpeg, Walk, WordInv
<1>5. CASE ReadIndex
  <2>1. Kept' /\ meta'.apdi = meta.apdi
    BY <1>5 DEF ReadIndex, WordInv, Kept, NoMeta
  <2> QED
    BY <1>0, <1>5, <2>1 DEF ReadIndex, WordInv
<1>6. CASE ReadFrame
  <2>1. Kept' /\ meta'.apdi = meta.apdi
    BY <1>6 DEF ReadFrame, WordInv, Kept, NoMeta
  <2> QED
    BY <1>0, <1>6, <2>1 DEF ReadFrame, WordInv
<1>7. CASE WalkIsOver
  <2>1. Kept' /\ meta'.apdi = meta.apdi
    BY <1>7 DEF WalkIsOver, WordInv, Kept
  <2> QED
    BY <1>0, <1>7, <2>1 DEF WalkIsOver, WordInv
<1>8. CASE GainPacket
  <2>1. Kept' /\ meta'.apdi = meta.apdi
    BY <1>8 DEF GainPacket, WordInv, Kept, NoMeta
  <2> QED
    BY <1>0, <1>8, <2>1 DEF GainPacket, WordInv
<1>9. CASE GainBlock
  <2>1. Kept' /\ meta'.apdi = meta.apdi
    BY <1>9 DEF GainBlock, WordInv, Kept, NoMeta
  <2> QED
    BY <1>0, <1>9, <2>1 DEF GainBlock, WordInv
<1>10. CASE ReadPacket
  BY <1>10, ReadPacketSpeaks
<1>11. CASE Answer
  BY <1>11, AnswerSpeaks
<1>12. CASE Returned \/ UNCHANGED vars
  <2>1. UNCHANGED <<file, pc, from, meta>>
    BY <1>12 DEF Returned, vars
  <2> QED
    BY <2>1, TextFrame DEF WordInv, Kept, Spoken, FirstWordStands, Least
<1> QED
  BY <1>1, <1>2, <1>3, <1>4, <1>5, <1>6, <1>7, <1>8, <1>9, <1>10, <1>11, <1>12 DEF Next

\* In files of every shape, what is reported of a field is what the first
\* readable packet that speaks of it says; the gain map's own packet is asked
\* only where the file's are silent.
THEOREM FirstWordIsReported == Spec => []FirstWordStands
<1>1. Init => TypeOK /\ WordInv
  BY InitTypeOK, InitWordInv
<1>2. TypeOK /\ WordInv /\ [Next]_vars => (TypeOK /\ WordInv)'
  BY NextTypeOK, NextWordInv
<1>3. WordInv => FirstWordStands
  BY DEF WordInv
<1> QED
  BY <1>1, <1>2, <1>3, PTL DEF Spec

-----------------------------------------------------------------------------
(* The gain map.                                                           *)

Gain == meta.gain_map[1]

\* The three things GainMapIsItsOwn says: of the picture, its frame header
\* and its XMP.
PictureIsOwn ==
  \A j \in Jpeg : InOrder(j[1], j[2]) =>
    {g.at : g \in Listed(meta.gain_map)} = UNION {Second(p, j) : p \in FirstMark("mpf", j[1], j[2], 8)}

FrameIsOwn(g) ==
  /\ \A p \in Listed(g.frame) : g.at.start + 2 <= p /\ p + 9 <= g.at.end
  /\ InOrder(g.at.start, g.at.end) => Listed(g.frame) = FirstMark("sof", g.at.start, g.at.end, 9)

XmpIsOwn(g) == TextInOrder(g.at.start, g.at.end) => Listed(g.xmp) = OwnXmp(g.at.start, g.at.end)

\* What the walk under way looks for.
Sought == Marks(pc, Base, Limit, IF pc = "mpf" THEN 8 ELSE 9)

\* The walk is at a segment or at the end, and the segments before it end
\* before it and are not what it looks for.
Passed ==
  /\ pos \in Segments(Base) \/ pos >= Limit
  /\ \A q \in Segments(Base) : q < pos => NextMark(q) <= pos /\ q \notin Sought

\* No packet before `from` was readable.
Unread ==
  \A b \in Find("begin", Base, Limit) : b < from => \A x \in Packet(b, Limit) : ~Readable(x)

PictureInv ==
  /\ pc \in {"classify", "chain", "points", "gain", "mpf"} => meta.gain_map = <<>>
  /\ pc = "mpf" => span \in Jpeg
  /\ pc \in {"mpf", "sof"} => Base + 2 <= pos /\ (InOrder(Base, Limit) => Passed)
  /\ pc \in {"sof", "gainxmp"} => meta.gain_map # <<>> /\ span = <<Gain.at.start, Gain.at.end>> /\ Gain.xmp = <<>>
  /\ pc = "sof" => Gain.frame = <<>>
  /\ pc = "gainxmp" => Base <= from /\ (TextInOrder(Base, Limit) => Unread)
  /\ pc \in {"sof", "gainxmp", "packets"} => PictureIsOwn
  /\ pc \in {"gainxmp", "packets"} => \A g \in Listed(meta.gain_map) : FrameIsOwn(g)
  /\ pc = "packets" => \A g \in Listed(meta.gain_map) : XmpIsOwn(g)

LEMMA MarkNumbers ==
  ASSUME TypeOK, NEW p \in DOMAIN file.marks
  PROVE  p \in Nat /\ file.marks[p].len \in Nat /\ NextMark(p) \in Nat /\ p + 2 <= NextMark(p)
  BY DEF TypeOK, FileSpace, NextMark

\* The segments go on behind every segment that is no scan, and begin behind
\* the first two bytes.
LEMMA SegmentsGoOn ==
  ASSUME TypeOK, NEW start \in Nat
  PROVE  /\ Segments(start) \subseteq DOMAIN file.marks
         /\ start + 2 \in DOMAIN file.marks => start + 2 \in Segments(start)
         /\ \A p \in Segments(start) :
              file.marks[p].kind # "sos" /\ NextMark(p) \in DOMAIN file.marks => NextMark(p) \in Segments(start)
         /\ \A p \in Segments(start) : start + 2 <= p
<1>1. /\ Segments(start) \subseteq DOMAIN file.marks
      /\ start + 2 \in DOMAIN file.marks => start + 2 \in Segments(start)
      /\ \A p \in Segments(start) :
           file.marks[p].kind # "sos" /\ NextMark(p) \in DOMAIN file.marks => NextMark(p) \in Segments(start)
  BY DEF Segments, Continues
<1> DEFINE S == {p \in Segments(start) : start + 2 <= p}
<1>2. S \in SUBSET DOMAIN file.marks
  BY <1>1
<1>3. ASSUME NEW p \in S, file.marks[p].kind # "sos", NextMark(p) \in DOMAIN file.marks
      PROVE  NextMark(p) \in S
  BY <1>1, <1>3, MarkNumbers
<1>4. start + 2 \in DOMAIN file.marks => start + 2 \in S
  BY <1>1
<1>5. Continues(S, start)
  BY <1>3, <1>4 DEF Continues
<1>6. Segments(start) \subseteq S
  BY <1>2, <1>5 DEF Segments
<1> QED
  BY <1>1, <1>6

\* No segment lies inside another, and none behind the scan.
LEMMA NothingSkipped ==
  ASSUME TypeOK, NEW start \in Nat, NEW at \in DOMAIN file.marks, start + 2 <= at,
         \A q \in Segments(start) : q < at => NextMark(q) <= at
  PROVE  \A q \in Segments(start) : q <= at \/ (file.marks[at].kind # "sos" /\ NextMark(at) <= q)
<1> DEFINE Outside(q) == q <= at \/ (file.marks[at].kind # "sos" /\ NextMark(at) <= q)
           S == {q \in Segments(start) : Outside(q)}
<1>1. S \in SUBSET DOMAIN file.marks
  BY SegmentsGoOn
<1>2. start + 2 \in DOMAIN file.marks => start + 2 \in S
  BY SegmentsGoOn
<1>3. ASSUME NEW p \in S, file.marks[p].kind # "sos", NextMark(p) \in DOMAIN file.marks
      PROVE  NextMark(p) \in S
  <2>1. p \in Segments(start) /\ p \in DOMAIN file.marks /\ NextMark(p) \in Segments(start) /\ Outside(p)
    BY <1>3, SegmentsGoOn
  <2>2. /\ p \in Nat /\ NextMark(p) \in Nat /\ p + 2 <= NextMark(p)
        /\ at \in Nat /\ NextMark(at) \in Nat /\ at + 2 <= NextMark(at)
    BY <2>1, MarkNumbers
  <2>3. CASE p < at
    BY <2>1, <2>3
  <2>4. CASE p = at
    BY <1>3, <2>1, <2>2, <2>4
  <2>5. CASE p > at
    <3>1. file.marks[at].kind # "sos" /\ NextMark(at) <= p
      BY <2>1, <2>2, <2>5
    <3>2. NextMark(at) <= NextMark(p)
      BY <2>2, <3>1
    <3> QED
      BY <2>1, <3>1, <3>2
  <2> QED
    BY <2>2, <2>3, <2>4, <2>5
<1>4. Continues(S, start)
  BY <1>2, <1>3 DEF Continues
<1>5. Segments(start) \subseteq S
  BY <1>1, <1>4 DEF Segments
<1> QED
  BY <1>5

-----------------------------------------------------------------------------
(* The walk.                                                               *)

\* A walk begins at the first segment.
LEMMA WalkBegins ==
  ASSUME TypeOK, file' = file, NEW start \in Nat, NEW end \in Nat, span' = <<start, end>>, pos' = start + 2
  PROVE  (Base + 2 <= pos /\ (InOrder(Base, Limit) => Passed))'
<1>1. Base' = start /\ Limit' = end
  BY DEF Base, Limit
<1>2. /\ InOrder(start, end)' <=> InOrder(start, end)
      /\ Segments(start)' = Segments(start)
  BY DEF InOrder, Segments, Continues, NextMark
<1>3. \A q \in Segments(start) : q \in Nat /\ start + 2 <= q
  BY SegmentsGoOn, MarkNumbers
<1>4. InOrder(start, end) => start + 2 \in Segments(start)
  BY SegmentsGoOn DEF InOrder
<1>5. \A q \in Segments(start) : ~(q < pos')
  BY <1>3
<1>6. InOrder(start, end)' => Passed'
  BY <1>1, <1>2, <1>4, <1>5 DEF Passed
<1> QED
  BY <1>1, <1>6

\* A turn of the walk passes over one segment and no other.
LEMMA WalkPasses ==
  ASSUME TypeOK, pc \in {"mpf", "sof"}, Walk, Base + 2 <= pos, InOrder(Base, Limit), Passed
  PROVE  Passed'
<1>1. Base \in Nat /\ Limit \in Nat /\ pos \in Nat
  BY DEF TypeOK, Base, Limit
<1>2. /\ file' = file /\ pc' = pc /\ span' = span /\ pos' = Beyond /\ ~Over
      /\ pc = "mpf" => ~IsIndex
      /\ pc = "sof" => ~IsFrame
  BY DEF Walk
<1>3. pos + 4 < Limit /\ ~(AtMark /\ Mark.kind = "sos")
  BY <1>1, <1>2 DEF Over
<1>4. pos \in Segments(Base) /\ pos \in DOMAIN file.marks
  BY <1>1, <1>3, SegmentsGoOn DEF Passed
<1>5. file.marks[pos].kind # "sos"
  BY <1>3, <1>4 DEF AtMark, Mark
<1>6. Beyond = NextMark(pos) /\ NextMark(pos) \in Nat /\ pos + 2 <= NextMark(pos)
  <2>1. NextMark(pos) \in Nat /\ pos + 2 <= NextMark(pos) /\ file.marks[pos].len \in Nat
    BY <1>4, MarkNumbers
  <2> QED
    BY <1>1, <1>4, <2>1 DEF Beyond, NextMark, AtMark, Mark
<1>7. NextMark(pos) \in Segments(Base) \/ NextMark(pos) >= Limit
  <2>1. NextMark(pos) < Limit => NextMark(pos) \in DOMAIN file.marks
    BY <1>4, <1>5 DEF InOrder
  <2> QED
    BY <1>1, <1>4, <1>5, <1>6, <2>1, SegmentsGoOn
<1>8. pos \notin Sought
  <2>1. CASE pc = "mpf"
    <3>1. ~(file.marks[pos].kind = "mpf" /\ file.marks[pos].len >= 6 /\ pos + 8 <= Limit)
      BY <1>2, <1>4, <2>1 DEF IsIndex, AtMark, Mark
    <3> QED
      BY <2>1, <3>1 DEF Sought, Marks
  <2>2. CASE pc = "sof"
    <3>1. ~(file.marks[pos].kind = "sof" /\ pos + 9 <= Limit)
      BY <1>2, <1>4, <2>2 DEF IsFrame, AtMark, Mark
    <3> QED
      BY <2>2, <3>1 DEF Sought, Marks
  <2> QED
    BY <2>1, <2>2
<1>9. \A q \in Segments(Base) : q <= pos \/ NextMark(pos) <= q
  BY <1>1, <1>4, NothingSkipped DEF Passed
<1>10. ASSUME NEW q \in Segments(Base), q < NextMark(pos)
       PROVE  NextMark(q) <= NextMark(pos) /\ q \notin Sought
  <2>1. q \in Nat /\ NextMark(q) \in Nat
    BY <1>1, SegmentsGoOn, MarkNumbers
  <2>2. q = pos \/ q < pos
    BY <1>1, <1>6, <1>9, <1>10, <2>1
  <2>3. CASE q = pos
    BY <1>6, <1>8, <2>3
  <2>4. CASE q < pos
    BY <1>1, <1>6, <2>1, <2>4 DEF Passed
  <2> QED
    BY <2>2, <2>3, <2>4
<1>11. /\ Base' = Base /\ Limit' = Limit /\ Sought' = Sought /\ Segments(Base)' = Segments(Base)
       /\ \A q : NextMark(q)' = NextMark(q)
  BY <1>2 DEF Base, Limit, Sought, Marks, Segments, Continues, NextMark
<1> QED
  BY <1>2, <1>6, <1>7, <1>10, <1>11 DEF Passed

\* What the walk finds is the first of what it looks for.
LEMMA WalkFinds ==
  ASSUME TypeOK, ~Over, Passed, (pc = "mpf" /\ IsIndex) \/ (pc = "sof" /\ IsFrame)
  PROVE  Least(Sought) = {pos}
<1>1. Base \in Nat /\ Limit \in Nat /\ pos \in Nat /\ pos + 4 < Limit
  BY DEF TypeOK, Base, Limit, Over
<1>2. pos \in Segments(Base)
  BY <1>1 DEF Passed
<1>3. pos \in Sought
  BY <1>1, <1>2 DEF Sought, Marks, IsIndex, IsFrame, AtMark, Mark
<1>4. \A q \in Sought : q \in Nat /\ pos <= q
  <2>1. \A q \in Sought : q \in Segments(Base)
    BY DEF Sought, Marks
  <2>2. \A q \in Sought : q \in Nat
    BY <1>1, <2>1, SegmentsGoOn, MarkNumbers
  <2> QED
    BY <1>1, <2>1, <2>2 DEF Passed
<1>5. pos \in Least(Sought)
  BY <1>3, <1>4 DEF Least
<1>6. ASSUME NEW q \in Least(Sought) PROVE q = pos
  <2>1. q \in Nat /\ pos <= q /\ q <= pos
    BY <1>3, <1>4, <1>6 DEF Least
  <2> QED
    BY <1>1, <2>1
<1> QED
  BY <1>5, <1>6

\* A walk that is over has passed over nothing it looks for.
LEMMA WalkMisses ==
  ASSUME TypeOK, Over, Passed, Base + 2 <= pos, pc \in {"mpf", "sof"}
  PROVE  Least(Sought) = {}
<1>1. Base \in Nat /\ Limit \in Nat /\ pos \in Nat
  BY DEF TypeOK, Base, Limit
<1>2. ASSUME NEW q \in Sought PROVE FALSE
  <2>1. q \in Segments(Base) /\ q + 4 < Limit /\ file.marks[q].kind = pc
    BY <1>2 DEF Sought, Marks
  <2>2. q \in Nat /\ pos <= q
    BY <1>1, <1>2, <2>1, SegmentsGoOn, MarkNumbers DEF Passed
  <2>3. AtMark /\ Mark.kind = "sos"
    BY <1>1, <2>1, <2>2 DEF Over
  <2>4. pos \in DOMAIN file.marks /\ file.marks[pos].kind = "sos"
    BY <2>3 DEF AtMark, Mark
  <2>5. q <= pos
    BY <1>1, <2>1, <2>4, NothingSkipped DEF Passed
  <2>6. q = pos
    BY <1>1, <2>2, <2>5
  <2> QED
    BY <2>1, <2>4, <2>6
<1> QED
  BY <1>2 DEF Least

-----------------------------------------------------------------------------
(* The gain map's XMP.                                                     *)

\* The packets a text holds: each is the one its begin mark opens.
LEMMA PacketsOfText ==
  ASSUME TypeOK, NEW start \in Nat, NEW end \in Nat, NEW b \in Find("begin", start, end), NEW x \in Packet(b, end)
  PROVE  x[1] = b
<1>1. b \in Nat
  BY Places
<1>2. b \in Find("begin", b, end)
  BY <1>1 DEF Find
<1>3. x[1] \in Find("begin", b, end) /\ x[1] <= b
  BY <1>1, <1>2, PacketShape
<1>4. x[1] \in Nat /\ b <= x[1]
  BY <1>3, Places DEF Find
<1> QED
  BY <1>1, <1>3, <1>4

LEMMA BlockIsOne ==
  ASSUME TypeOK, NEW start \in Nat, NEW end \in Nat, NEW x \in Block(start, end), NEW y \in Block(start, end)
  PROVE  x = y
<1>1. /\ x[1] \in Least(Find("open", start, end)) /\ x[2] \in Least(Find("shut", x[1], end)) /\ x = <<x[1], x[2]>>
      /\ y[1] \in Least(Find("open", start, end)) /\ y[2] \in Least(Find("shut", y[1], end)) /\ y = <<y[1], y[2]>>
  BY DEF Block
<1>2. x[1] \in Nat /\ y[1] \in Nat /\ x[1] <= y[1] /\ y[1] <= x[1]
  BY <1>1, Places DEF Least
<1>3. x[1] = y[1]
  BY <1>2
<1>4. x[2] \in Nat /\ y[2] \in Nat /\ x[2] <= y[2] /\ y[2] <= x[2]
  BY <1>1, <1>3, Places DEF Least
<1>5. x[2] = y[2]
  BY <1>4
<1> QED
  BY <1>1, <1>3, <1>5

\* The readable packets of a text.
ReadablePackets(start, end) ==
  {x \in UNION {Packet(b, end) : b \in Find("begin", start, end)} : Readable(x)}

LEMMA ReadablePacketBegins ==
  ASSUME TypeOK, NEW start \in Nat, NEW end \in Nat, NEW y \in ReadablePackets(start, end)
  PROVE  /\ Readable(y) /\ y[1] \in Find("begin", start, end) /\ y[1] \in Nat
         /\ Packet(y[1], end) = {y}
<1>1. PICK b \in Find("begin", start, end) : y \in Packet(b, end)
  BY DEF ReadablePackets
<1>2. b \in Nat /\ y[1] = b
  BY <1>1, PacketsOfText, Places
<1> QED
  BY <1>1, <1>2, PacketOfItsBegin DEF ReadablePackets

\* The search is at a packet it can read: that is the first of them.
LEMMA FoundIsFirst ==
  ASSUME TypeOK, TextInOrder(Base, Limit), Unread, from \in Nat, Base <= from,
         NEW x \in Packet(from, Limit), Readable(x)
  PROVE  OwnXmp(Base, Limit) = {x}
<1>1. Base \in Nat /\ Limit \in Nat
  BY DEF TypeOK, Base, Limit
<1>2. /\ x[1] \in Find("begin", from, Limit) /\ x[1] \in Nat /\ Packet(x[1], Limit) = {x}
      /\ \A n \in Find("begin", from, Limit) : x[1] <= n
  BY <1>1, PacketShape, PacketOfItsBegin, Places
<1>3. x[1] \in Find("begin", Base, Limit)
  BY <1>1, <1>2 DEF Find
<1>4. x \in ReadablePackets(Base, Limit)
  BY <1>2, <1>3 DEF ReadablePackets
<1>5. ASSUME NEW y \in ReadablePackets(Base, Limit)
      PROVE  x[1] <= y[1] /\ (y[1] <= x[1] => y = x)
  <2>1. /\ Readable(y) /\ y[1] \in Find("begin", Base, Limit) /\ y[1] \in Nat
        /\ Packet(y[1], Limit) = {y}
    BY <1>1, ReadablePacketBegins
  <2>2. from <= y[1]
    BY <2>1 DEF Unread
  <2>3. y[1] \in Find("begin", from, Limit)
    BY <2>1, <2>2 DEF Find
  <2>4. x[1] <= y[1]
    BY <1>2, <2>3
  <2>5. ASSUME y[1] <= x[1] PROVE y = x
    <3>1. y[1] = x[1]
      BY <1>2, <2>1, <2>4, <2>5
    <3> QED
      BY <1>2, <2>1, <3>1
  <2> QED
    BY <2>4, <2>5
<1>6. {y \in ReadablePackets(Base, Limit) : \A z \in ReadablePackets(Base, Limit) : y[1] <= z[1]} = {x}
  BY <1>2, <1>4, <1>5
<1> QED
  BY <1>4, <1>6 DEF OwnXmp, ReadablePackets

\* The search has no packet left: none was readable.
LEMMA NoneIsReadable ==
  ASSUME TypeOK, TextInOrder(Base, Limit), Unread, from \in Nat, Base <= from, Packet(from, Limit) = {}
  PROVE  OwnXmp(Base, Limit) = {x \in Block(Base, Limit) : Readable(x)}
<1>1. Base \in Nat /\ Limit \in Nat
  BY DEF TypeOK, Base, Limit
<1>2. ASSUME NEW y \in ReadablePackets(Base, Limit) PROVE FALSE
  <2>1. /\ Readable(y) /\ y[1] \in Find("begin", Base, Limit) /\ y[1] \in Nat
        /\ Packet(y[1], Limit) = {y}
    BY <1>1, <1>2, ReadablePacketBegins
  <2>2. from <= y[1]
    BY <2>1 DEF Unread
  <2>3. y[1] \in Find("begin", from, Limit)
    BY <2>1, <2>2 DEF Find
  <2>4. Find("begin", from, Limit) = {}
    BY <1>1, NothingLeftToFind
  <2> QED
    BY <2>3, <2>4
<1>3. ReadablePackets(Base, Limit) = {}
  BY <1>2
<1> QED
  BY <1>3 DEF OwnXmp, ReadablePackets

\* An unreadable packet is passed over, and no other.
LEMMA UnreadGoesOn ==
  ASSUME TypeOK, TextInOrder(Base, Limit), Unread, from \in Nat, Base <= from,
         NEW x \in Packet(from, Limit), ~Readable(x),
         NEW b \in Find("begin", Base, Limit), b < x[2] + 1, NEW y \in Packet(b, Limit)
  PROVE  ~Readable(y)
<1>1. Base \in Nat /\ Limit \in Nat /\ b \in Nat
  BY Places DEF TypeOK, Base, Limit
<1>2. x[1] \in Nat /\ x[2] \in Nat /\ Packet(x[1], Limit) = {x}
  BY <1>1, PacketShape, PacketOfItsBegin, Places
<1>3. CASE b < from
  BY <1>3 DEF Unread
<1>4. CASE from <= b
  <2>1. b = x[1]
    BY <1>1, <1>2, <1>4, NextIsBehind
  <2> QED
    BY <1>2, <2>1
<1> QED
  BY <1>1, <1>3, <1>4

-----------------------------------------------------------------------------
(* Every step keeps the gain map its own.                                  *)

LEMMA PictureFrame ==
  ASSUME file' = file
  PROVE  /\ Jpeg' = Jpeg
         /\ \A start, end : InOrder(start, end)' <=> InOrder(start, end)
         /\ \A kind, start, end, bytes : FirstMark(kind, start, end, bytes)' = FirstMark(kind, start, end, bytes)
         /\ \A p, j : Second(p, j)' = Second(p, j)
         /\ \A start, end : OwnXmp(start, end)' = OwnXmp(start, end)
         /\ \A g : (FrameIsOwn(g)' <=> FrameIsOwn(g)) /\ (XmpIsOwn(g)' <=> XmpIsOwn(g))
<1>1. Jpeg' = Jpeg
  BY DEF Jpeg, Preview, Classify
<1>2. /\ \A start : Segments(start)' = Segments(start)
      /\ \A p : NextMark(p)' = NextMark(p)
  BY DEF Segments, Continues, NextMark
<1>3. \A start, end : InOrder(start, end)' <=> InOrder(start, end)
  BY <1>2 DEF InOrder
<1>4. \A kind, start, end, bytes : FirstMark(kind, start, end, bytes)' = FirstMark(kind, start, end, bytes)
  BY <1>2 DEF FirstMark, Marks, Least
<1>5. \A p, j : Second(p, j)' = Second(p, j)
  BY DEF Second
<1>6. ASSUME NEW start, NEW end PROVE OwnXmp(start, end)' = OwnXmp(start, end)
  <2>1. Block(start, end)' = Block(start, end)
    BY TextFrame DEF Block, Least
  <2>2. ReadablePackets(start, end)' = ReadablePackets(start, end)
    BY TextFrame DEF ReadablePackets
  <2>3. {x \in Block(start, end) : Readable(x)}' = {x \in Block(start, end) : Readable(x)}
    BY <2>1, TextFrame
  <2> QED
    BY <2>2, <2>3 DEF OwnXmp, ReadablePackets
<1>7. \A g : FrameIsOwn(g)' <=> FrameIsOwn(g)
  BY <1>3, <1>4 DEF FrameIsOwn
<1>8. \A g : XmpIsOwn(g)' <=> XmpIsOwn(g)
  BY <1>6, TextFrame DEF XmpIsOwn
<1> QED
  BY <1>1, <1>3, <1>4, <1>5, <1>6, <1>7, <1>8

LEMMA JpegIsOne ==
  ASSUME TypeOK, NEW j \in Jpeg
  PROVE  j \in Nat \X Nat /\ \A i \in Jpeg : i = j
<1>1. \A p \in Preview : p \in Nat \X Nat /\ \A q \in Preview : q = p
  BY PreviewIsOne DEF TypeOK
<1>2. file.size \in Nat
  BY DEF TypeOK, FileSpace
<1>3. CASE Classify = "AppleAmpf"
  BY <1>2, <1>3 DEF Jpeg
<1>4. CASE Classify # "AppleAmpf"
  <2>1. PICK p \in Preview : j = <<p[1], p[1] + p[2]>>
    BY <1>4 DEF Jpeg
  <2>2. ASSUME NEW i \in Jpeg PROVE i = j
    <3>1. PICK q \in Preview : i = <<q[1], q[1] + q[2]>>
      BY <1>4 DEF Jpeg
    <3>2. q = p
      BY <1>1
    <3> QED
      BY <2>1, <3>1, <3>2
  <2>3. p[1] \in Nat /\ p[2] \in Nat
    BY <1>1
  <2> QED
    BY <2>1, <2>2, <2>3
<1> QED
  BY <1>3, <1>4

LEMMA GainIsOne ==
  ASSUME Kept
  PROVE  /\ meta.gain_map = <<>> => Listed(meta.gain_map) = {}
         /\ meta.gain_map # <<>> => Listed(meta.gain_map) = {Gain}
  BY DEF Kept, Listed, Gain

\* Steps that only pass on what was found, or before anything is.
LEMMA PictureStands ==
  ASSUME PictureInv, file' = file, meta'.gain_map = meta.gain_map, Kept,
         \/ pc = "packets" /\ pc' \in {"packets", "some"}
         \/ pc \in {"classify", "chain", "points", "gain"} /\ pc' \in {"chain", "points", "gain", "none"}
  PROVE  PictureInv'
<1>1. CASE pc = "packets"
  <2>1. PictureIsOwn' /\ \A g \in Listed(meta.gain_map) : FrameIsOwn(g)' /\ XmpIsOwn(g)'
    BY <1>1, PictureFrame DEF PictureInv, PictureIsOwn
  <2>2. Listed(meta'.gain_map) = Listed(meta.gain_map)
    OBVIOUS
  <2> QED
    BY <1>1, <2>1, <2>2 DEF PictureInv
<1>2. CASE pc \in {"classify", "chain", "points", "gain"}
  BY <1>2 DEF PictureInv
<1> QED
  BY <1>1, <1>2

LEMMA OpenJpegKeeps ==
  ASSUME TypeOK, TypeOK', PictureInv, Kept, OpenJpeg
  PROVE  PictureInv'
<1>1. pc = "gain" /\ file' = file /\ meta' = meta /\ meta.gain_map = <<>>
  BY DEF OpenJpeg, PictureInv
<1>2. Listed(meta'.gain_map) = {}
  BY <1>1, GainIsOne
<1>3. CASE Jpeg = {}
  <2>1. pc' = "packets" /\ Jpeg' = {}
    BY <1>1, <1>3, PictureFrame DEF OpenJpeg
  <2> QED
    BY <1>1, <1>2, <2>1 DEF PictureInv, PictureIsOwn
<1>4. CASE Jpeg # {}
  <2>1. pc' = "mpf" /\ span' \in Jpeg /\ pos' = span'[1] + 2
    BY <1>4 DEF OpenJpeg
  <2>2. (Base + 2 <= pos /\ (InOrder(Base, Limit) => Passed))'
    <3>1. span' \in Nat \X Nat
      BY <2>1, JpegIsOne
    <3>2. span'[1] \in Nat /\ span'[2] \in Nat /\ span' = <<span'[1], span'[2]>>
      BY <3>1
    <3> QED
      BY <1>1, <2>1, <3>2, WalkBegins
  <2> QED
    BY <1>1, <2>1, <2>2, PictureFrame DEF PictureInv
<1> QED
  BY <1>3, <1>4

LEMMA WalkKeeps ==
  ASSUME TypeOK, PictureInv, Kept, Walk
  PROVE  PictureInv'
<1>1. /\ pc \in {"mpf", "sof"} /\ pc' = pc /\ file' = file /\ span' = span /\ meta' = meta /\ from' = from
      /\ pos' = Beyond /\ Base' = Base /\ Limit' = Limit
  BY DEF Walk, Base, Limit
<1>2. Base + 2 <= pos /\ (InOrder(Base, Limit) => Passed)
  BY <1>1 DEF PictureInv
<1>3. InOrder(Base, Limit)' <=> InOrder(Base, Limit)
  BY <1>1, PictureFrame
<1>4. InOrder(Base, Limit) => Passed'
  BY <1>1, <1>2, WalkPasses
<1>5. Base + 2 <= pos'
  <2>1. Base \in Nat /\ pos \in Nat
    BY DEF Base, TypeOK
  <2>2. AtMark => Mark.len \in Nat
    BY MarkNumbers DEF AtMark, Mark
  <2>3. pos <= Beyond /\ Beyond \in Nat
    BY <2>1, <2>2 DEF Beyond
  <2> QED
    BY <1>1, <1>2, <2>1, <2>3
<1>6. PictureIsOwn' <=> PictureIsOwn
  BY <1>1, PictureFrame DEF PictureIsOwn
<1> QED
  BY <1>1, <1>3, <1>4, <1>5, <1>6, PictureFrame DEF PictureInv, Gain

LEMMA ReadIndexKeeps ==
  ASSUME TypeOK, TypeOK', PictureInv, Kept, Kept', ReadIndex
  PROVE  PictureInv'
<1> DEFINE P == Picture(2)
           Good == /\ Len(Mark.index) >= 2 /\ P.end <= Limit /\ P.end >= P.start + 2
                   /\ P.start \in file.images
<1>1. /\ pc = "mpf" /\ IsIndex /\ ~Over /\ file' = file /\ span \in Jpeg /\ meta.gain_map = <<>>
      /\ InOrder(Base, Limit) => Passed
  BY DEF ReadIndex, PictureInv
<1>2. InOrder(Base, Limit) => FirstMark("mpf", Base, Limit, 8) = {pos}
  BY <1>1, WalkFinds DEF Sought, FirstMark
<1>3. Second(pos, span) = IF Good THEN {P} ELSE {}
  <2>1. file.marks[pos].index \in Seq([offset : Nat, size : Nat])
    BY <1>1 DEF IsIndex, AtMark, TypeOK, FileSpace
  <2>2. Len(file.marks[pos].index) \in Nat
    BY <2>1
  <2>3. CASE Len(file.marks[pos].index) < 2
    BY <2>2, <2>3 DEF Second, Mark
  <2>4. CASE Len(file.marks[pos].index) >= 2
    <3> DEFINE e  == file.marks[pos].index[2]
               at == IF e.offset = 0 THEN Base ELSE pos + 8 + e.offset
    <3>1. P = [start |-> at, end |-> at + e.size]
      BY DEF Picture, Mark
    <3>2. ~(Len(file.marks[pos].index) < 2)
      BY <2>2, <2>4
    <3>3. Second(pos, span) =
            {x \in {[start |-> at, end |-> at + e.size]} :
               at \in file.images /\ x.end <= Limit /\ x.end >= at + 2}
      BY <3>2 DEF Second, Base, Limit
    <3>4. Good <=> at + e.size <= Limit /\ at + e.size >= at + 2 /\ at \in file.images
      BY <2>4, <3>1 DEF Mark
    <3> HIDE DEF Good, P, e, at
    <3>5. CASE Good
      <4> DEFINE r == [start |-> at, end |-> at + e.size]
      <4>1. r.end <= Limit /\ r.end >= at + 2 /\ at \in file.images
        BY <3>4, <3>5
      <4>2. Second(pos, span) = {x \in {r} : at \in file.images /\ x.end <= Limit /\ x.end >= at + 2}
        BY <3>3
      <4> HIDE DEF r
      <4>3. Second(pos, span) = {r}
        BY <4>1, <4>2
      <4> QED
        BY <3>1, <3>5, <4>3 DEF r
    <3>6. CASE ~Good
      BY <3>3, <3>4, <3>6
    <3> QED
      BY <3>5, <3>6
  <2> QED
    BY <2>2, <2>3, <2>4
<1>4. ASSUME {g.at : g \in Listed(meta'.gain_map)} = Second(pos, span)
      PROVE  PictureIsOwn'
  <2>1. ASSUME NEW j \in Jpeg, InOrder(j[1], j[2])
        PROVE  {g.at : g \in Listed(meta'.gain_map)} = UNION {Second(p, j) : p \in FirstMark("mpf", j[1], j[2], 8)}
    <3>1. j = span /\ j[1] = Base /\ j[2] = Limit
      BY <1>1, JpegIsOne DEF Base, Limit
    <3>2. FirstMark("mpf", j[1], j[2], 8) = {pos}
      BY <1>2, <2>1, <3>1
    <3>3. UNION {Second(p, j) : p \in FirstMark("mpf", j[1], j[2], 8)} = Second(pos, span)
      BY <3>1, <3>2
    <3> QED
      BY <1>4, <3>3
  <2> QED
    BY <1>1, <2>1, PictureFrame DEF PictureIsOwn
<1>5. CASE Good
  <2>1. /\ meta' = [meta EXCEPT !.gain_map = <<[at |-> P, frame |-> <<>>, xmp |-> <<>>]>>]
        /\ span' = <<P.start, P.end>> /\ pos' = P.start + 2 /\ pc' = "sof"
    BY <1>5 DEF ReadIndex, SpanOf
  <2> HIDE DEF P, Good
  <2>2. meta'.gain_map = <<[at |-> P, frame |-> <<>>, xmp |-> <<>>]>>
    BY <2>1 DEF Kept, NoMeta
  <2>3. Gain' = [at |-> P, frame |-> <<>>, xmp |-> <<>>] /\ meta'.gain_map # <<>> /\ Listed(meta'.gain_map) = {Gain'}
    BY <2>2 DEF Gain, Listed
  <2>4. {g.at : g \in Listed(meta'.gain_map)} = {P}
    BY <2>3
  <2>5. PictureIsOwn'
    BY <1>3, <1>4, <1>5, <2>4
  <2>6. (Base + 2 <= pos /\ (InOrder(Base, Limit) => Passed))'
    <3>1. P.start \in Nat /\ P.end \in Nat
      BY <2>1 DEF TypeOK
    <3> QED
      BY <1>1, <2>1, <3>1, WalkBegins
  <2> QED
    BY <2>1, <2>3, <2>5, <2>6 DEF PictureInv
<1>6. CASE ~Good
  <2>1. meta' = meta /\ pc' = "packets"
    BY <1>6 DEF ReadIndex
  <2>2. Listed(meta'.gain_map) = {}
    BY <1>1, <2>1, GainIsOne
  <2>3. PictureIsOwn'
    BY <1>3, <1>4, <1>6, <2>2
  <2> QED
    BY <2>1, <2>2, <2>3 DEF PictureInv
<1> QED
  BY <1>5, <1>6

\* What a step adds to the gain map leaves its place alone.
LEMMA PictureStays ==
  ASSUME PictureIsOwn, Kept, Kept', file' = file, meta.gain_map # <<>>, meta'.gain_map # <<>>, Gain'.at = Gain.at
  PROVE  PictureIsOwn' /\ Listed(meta'.gain_map) = {Gain'}
<1>1. Listed(meta.gain_map) = {Gain} /\ Listed(meta'.gain_map) = {Gain'}
  BY DEF Kept, Listed, Gain
<1>2. {g.at : g \in Listed(meta'.gain_map)} = {g.at : g \in Listed(meta.gain_map)}
  BY <1>1
<1>3. ASSUME NEW j \in Jpeg, InOrder(j[1], j[2])
      PROVE  {g.at : g \in Listed(meta'.gain_map)} = UNION {Second(p, j) : p \in FirstMark("mpf", j[1], j[2], 8)}
  BY <1>2, <1>3 DEF PictureIsOwn
<1>4. PictureIsOwn'
  BY <1>3, PictureFrame DEF PictureIsOwn
<1> QED
  BY <1>1, <1>4

LEMMA ReadFrameKeeps ==
  ASSUME TypeOK, PictureInv, Kept, Kept', ReadFrame
  PROVE  PictureInv'
<1>1. /\ pc = "sof" /\ IsFrame /\ ~Over /\ file' = file /\ span' = span /\ pc' = "gainxmp" /\ from' = Base
      /\ meta' = [meta EXCEPT !.gain_map[1].frame = <<pos>>]
  BY DEF ReadFrame, walk
<1>2. /\ meta.gain_map # <<>> /\ span = <<Gain.at.start, Gain.at.end>> /\ Gain.xmp = <<>>
      /\ Base + 2 <= pos /\ (InOrder(Base, Limit) => Passed)
      /\ PictureIsOwn
  BY <1>1 DEF PictureInv
<1>3. /\ meta'.gain_map # <<>> /\ Gain'.at = Gain.at /\ Gain'.frame = <<pos>> /\ Gain'.xmp = <<>>
  <2>1. meta'.gain_map = [meta.gain_map EXCEPT ![1] = [@ EXCEPT !.frame = <<pos>>]]
    BY <1>1 DEF Kept, NoMeta
  <2>2. DOMAIN meta.gain_map = {1} /\ DOMAIN Gain = {"at", "frame", "xmp"}
    BY <1>2 DEF Kept, Gain
  <2>3. meta'.gain_map[1] = [Gain EXCEPT !.frame = <<pos>>] /\ DOMAIN meta'.gain_map = {1}
    BY <2>1, <2>2 DEF Gain
  <2> QED
    BY <1>2, <2>2, <2>3 DEF Gain
<1>4. Base = Gain.at.start /\ Limit = Gain.at.end /\ Base \in Nat /\ Limit \in Nat /\ pos \in Nat
  BY <1>2 DEF Base, Limit, TypeOK
<1>5. InOrder(Base, Limit) => FirstMark("sof", Base, Limit, 9) = {pos}
  BY <1>1, <1>2, WalkFinds DEF Sought, FirstMark
<1>6. pos + 9 <= Limit
  BY <1>1 DEF IsFrame
<1>7. FrameIsOwn(Gain')
  <2>1. Listed(Gain'.frame) = {pos}
    BY <1>3 DEF Listed
  <2> QED
    BY <1>2, <1>3, <1>4, <1>5, <1>6, <2>1 DEF FrameIsOwn
<1>8. \A g \in Listed(meta'.gain_map) : FrameIsOwn(g)'
  BY <1>1, <1>2, <1>3, <1>7, PictureStays, PictureFrame
<1>9. Base' = Base /\ Limit' = Limit /\ Unread'
  <2>1. Base' = Base /\ Limit' = Limit
    BY <1>1 DEF Base, Limit
  <2>2. \A b \in Find("begin", Base, Limit) : b \in Nat /\ Base <= b
    BY Places DEF Find
  <2>3. \A b \in Find("begin", Base, Limit) : ~(b < from')
    BY <1>1, <1>4, <2>2
  <2> QED
    BY <1>1, <2>1, <2>3, TextFrame DEF Unread
<1>10. Base' <= from' /\ span' = <<Gain'.at.start, Gain'.at.end>>
  BY <1>1, <1>2, <1>3, <1>4, <1>9
<1>11. PictureIsOwn'
  BY <1>1, <1>2, <1>3, PictureStays
<1> QED
  BY <1>1, <1>3, <1>8, <1>9, <1>10, <1>11 DEF PictureInv

LEMMA WalkIsOverKeeps ==
  ASSUME TypeOK, PictureInv, Kept, WalkIsOver
  PROVE  PictureInv'
<1>1. /\ pc \in {"mpf", "sof"} /\ Over /\ file' = file /\ span' = span /\ meta' = meta
      /\ Base' = Base /\ Limit' = Limit /\ Gain' = Gain
  BY DEF WalkIsOver, walk, Base, Limit, Gain
<1>2. Base + 2 <= pos /\ (InOrder(Base, Limit) => Passed) /\ (InOrder(Base, Limit) => Least(Sought) = {})
  BY <1>1, WalkMisses DEF PictureInv
<1>3. CASE pc = "mpf"
  <2>1. span \in Jpeg /\ meta.gain_map = <<>> /\ pc' = "packets"
    BY <1>3 DEF PictureInv, WalkIsOver
  <2>2. Listed(meta'.gain_map) = {}
    BY <1>1, <2>1, GainIsOne
  <2>3. InOrder(Base, Limit) => FirstMark("mpf", Base, Limit, 8) = {}
    BY <1>2, <1>3 DEF Sought, FirstMark
  <2>4. ASSUME NEW j \in Jpeg, InOrder(j[1], j[2])
        PROVE  {g.at : g \in Listed(meta'.gain_map)} = UNION {Second(p, j) : p \in FirstMark("mpf", j[1], j[2], 8)}
    <3>1. j[1] = Base /\ j[2] = Limit
      BY <2>1, JpegIsOne DEF Base, Limit
    <3>2. FirstMark("mpf", j[1], j[2], 8) = {}
      BY <2>3, <2>4, <3>1
    <3> QED
      BY <2>2, <3>2
  <2>5. PictureIsOwn'
    BY <1>1, <2>4, PictureFrame DEF PictureIsOwn
  <2> QED
    BY <2>1, <2>2, <2>5 DEF PictureInv
<1>4. CASE pc = "sof"
  <2>1. /\ meta.gain_map # <<>> /\ span = <<Gain.at.start, Gain.at.end>> /\ Gain.xmp = <<>> /\ Gain.frame = <<>>
        /\ PictureIsOwn /\ pc' = "gainxmp" /\ from' = Base
    BY <1>4 DEF PictureInv, WalkIsOver
  <2>2. Base = Gain.at.start /\ Limit = Gain.at.end /\ Base \in Nat /\ Limit \in Nat
    BY <2>1 DEF Base, Limit, TypeOK
  <2>3. InOrder(Base, Limit) => FirstMark("sof", Base, Limit, 9) = {}
    BY <1>2, <1>4 DEF Sought, FirstMark
  <2>4. FrameIsOwn(Gain)
    <3>1. Listed(Gain.frame) = {}
      BY <2>1 DEF Listed
    <3> QED
      BY <2>2, <2>3, <3>1 DEF FrameIsOwn
  <2>5. \A g \in Listed(meta'.gain_map) : FrameIsOwn(g)'
    BY <1>1, <2>1, <2>4, GainIsOne, PictureFrame
  <2>6. Unread'
    <3>1. \A b \in Find("begin", Base, Limit) : b \in Nat /\ Base <= b
      BY Places DEF Find
    <3>2. \A b \in Find("begin", Base, Limit) : ~(b < from')
      BY <2>1, <2>2, <3>1
    <3> QED
      BY <1>1, <3>2, TextFrame DEF Unread
  <2>7. PictureIsOwn'
    BY <1>1, <2>1, PictureFrame DEF PictureIsOwn
  <2> QED
    BY <1>1, <2>1, <2>2, <2>5, <2>6, <2>7 DEF PictureInv
<1> QED
  BY <1>1, <1>3, <1>4

\* The search takes the XMP that is the gain map's, or none.
LEMMA TakingKeeps ==
  ASSUME PictureInv, Kept, Kept', file' = file, pc = "gainxmp", pc' = "packets", meta.gain_map # <<>>,
         meta'.gain_map # <<>>, Gain'.at = Gain.at, Gain'.frame = Gain.frame,
         TextInOrder(Base, Limit) => Listed(Gain'.xmp) = OwnXmp(Base, Limit)
  PROVE  PictureInv'
<1>1. /\ span = <<Gain.at.start, Gain.at.end>> /\ PictureIsOwn
      /\ \A g \in Listed(meta.gain_map) : FrameIsOwn(g)
  BY DEF PictureInv
<1>2. Base = Gain.at.start /\ Limit = Gain.at.end
  BY <1>1 DEF Base, Limit
<1>3. PictureIsOwn' /\ Listed(meta'.gain_map) = {Gain'} /\ Listed(meta.gain_map) = {Gain}
  BY <1>1, PictureStays, GainIsOne
<1>4. FrameIsOwn(Gain')
  BY <1>1, <1>3 DEF FrameIsOwn
<1>5. XmpIsOwn(Gain')
  BY <1>2 DEF XmpIsOwn
<1>6. \A g \in Listed(meta'.gain_map) : FrameIsOwn(g)' /\ XmpIsOwn(g)'
  BY <1>3, <1>4, <1>5, PictureFrame
<1> QED
  BY <1>3, <1>6 DEF PictureInv

LEMMA ListedOne == \A x : Listed(<<x>>) = {x}
  BY DEF Listed

\* An XMP that is set is the gain map's only one.
LEMMA XmpIsSet ==
  ASSUME Kept, meta.gain_map # <<>>, NEW x, meta' = [meta EXCEPT !.gain_map[1].xmp = <<x>>]
  PROVE  /\ meta'.gain_map # <<>> /\ Gain'.at = Gain.at /\ Gain'.frame = Gain.frame
         /\ Listed(Gain'.xmp) = {x}
<1>1. meta'.gain_map = [meta.gain_map EXCEPT ![1] = [@ EXCEPT !.xmp = <<x>>]]
  BY DEF Kept, NoMeta
<1>2. DOMAIN meta.gain_map = {1} /\ DOMAIN Gain = {"at", "frame", "xmp"}
  BY DEF Kept, Gain
<1>3. meta'.gain_map[1] = [Gain EXCEPT !.xmp = <<x>>] /\ DOMAIN meta'.gain_map = {1}
  BY <1>1, <1>2 DEF Gain
<1> QED
  BY <1>2, <1>3, ListedOne DEF Gain

LEMMA GainPacketKeeps ==
  ASSUME TypeOK, PictureInv, Kept, Kept', GainPacket
  PROVE  PictureInv'
<1>1. /\ pc = "gainxmp" /\ file' = file /\ span' = span /\ Base' = Base /\ Limit' = Limit
      /\ from \in Nat /\ Base \in Nat /\ Limit \in Nat
  BY DEF GainPacket, walk, Base, Limit, TypeOK
<1>2. /\ meta.gain_map # <<>> /\ Base <= from /\ (TextInOrder(Base, Limit) => Unread)
  BY <1>1 DEF PictureInv
<1>3. PICK x \in Packet(from, Limit) :
        IF Readable(x)
        THEN meta' = [meta EXCEPT !.gain_map[1].xmp = <<x>>] /\ pc' = "packets" /\ from' = 0
        ELSE from' = x[2] + 1 /\ UNCHANGED <<pc, meta>>
  BY DEF GainPacket
<1>4. CASE Readable(x)
  <2>1. /\ meta'.gain_map # <<>> /\ Gain'.at = Gain.at /\ Gain'.frame = Gain.frame /\ Listed(Gain'.xmp) = {x}
    BY <1>2, <1>3, <1>4, XmpIsSet
  <2>2. TextInOrder(Base, Limit) => Listed(Gain'.xmp) = OwnXmp(Base, Limit)
    BY <1>1, <1>2, <1>4, <2>1, FoundIsFirst
  <2> QED
    BY <1>1, <1>2, <1>3, <1>4, <2>1, <2>2, TakingKeeps
<1>5. CASE ~Readable(x)
  <2>1. from' = x[2] + 1 /\ meta' = meta /\ pc' = pc
    BY <1>3, <1>5
  <2>2. x[1] \in Nat /\ x[2] \in Nat /\ from <= x[1] /\ x[1] <= x[2]
    <3>1. x[1] \in Find("begin", from, Limit) /\ x[2] \in Nat /\ x[1] <= x[2]
      BY <1>1, PacketShape
    <3>2. x[1] \in Nat
      BY <3>1, Places
    <3> QED
      BY <3>1, <3>2 DEF Find
  <2>3. Base' <= from'
    BY <1>1, <1>2, <2>1, <2>2
  <2>4. TextInOrder(Base, Limit) =>
          \A b \in Find("begin", Base, Limit) : b < from' => \A y \in Packet(b, Limit) : ~Readable(y)
    BY <1>1, <1>2, <1>5, <2>1, UnreadGoesOn
  <2>5. (TextInOrder(Base, Limit) => Unread)'
    BY <1>1, <2>4, TextFrame DEF Unread
  <2>6. PictureIsOwn'
    BY <1>1, <2>1, PictureFrame DEF PictureInv, PictureIsOwn
  <2>7. \A g \in Listed(meta'.gain_map) : FrameIsOwn(g)'
    BY <1>1, <2>1, PictureFrame DEF PictureInv
  <2>8. Gain' = Gain
    BY <2>1 DEF Gain
  <2> QED
    BY <1>1, <2>1, <2>3, <2>5, <2>6, <2>7, <2>8 DEF PictureInv
<1> QED
  BY <1>4, <1>5

LEMMA GainBlockKeeps ==
  ASSUME TypeOK, PictureInv, Kept, Kept', GainBlock
  PROVE  PictureInv'
<1> DEFINE blocks == {x \in Block(Base, Limit) : Readable(x)}
<1>1. /\ pc = "gainxmp" /\ pc' = "packets" /\ file' = file /\ Packet(from, Limit) = {}
      /\ IF blocks = {} THEN meta' = meta ELSE \E x \in blocks : meta' = [meta EXCEPT !.gain_map[1].xmp = <<x>>]
      /\ from \in Nat /\ Base \in Nat /\ Limit \in Nat
  BY DEF GainBlock, Base, Limit, TypeOK
<1>2. /\ meta.gain_map # <<>> /\ Gain.xmp = <<>> /\ Base <= from /\ (TextInOrder(Base, Limit) => Unread)
  BY <1>1 DEF PictureInv
<1>3. TextInOrder(Base, Limit) => OwnXmp(Base, Limit) = blocks
  BY <1>1, <1>2, NoneIsReadable
<1>4. CASE blocks = {}
  <2>1. meta' = meta /\ Gain' = Gain
    BY <1>1, <1>4 DEF Gain
  <2>2. Listed(Gain'.xmp) = {}
    BY <1>2, <2>1 DEF Listed
  <2> HIDE DEF blocks
  <2> QED
    BY <1>1, <1>2, <1>3, <1>4, <2>1, <2>2, TakingKeeps
<1>5. CASE blocks # {}
  <2>1. PICK x \in blocks : meta' = [meta EXCEPT !.gain_map[1].xmp = <<x>>]
    BY <1>1, <1>5
  <2>2. blocks = {x}
    BY <1>1, <2>1, BlockIsOne
  <2>3. /\ meta'.gain_map # <<>> /\ Gain'.at = Gain.at /\ Gain'.frame = Gain.frame /\ Listed(Gain'.xmp) = {x}
    BY <1>2, <2>1, XmpIsSet
  <2> HIDE DEF blocks
  <2> QED
    BY <1>1, <1>2, <1>3, <2>2, <2>3, TakingKeeps
<1> QED
  BY <1>4, <1>5

LEMMA InitPictureInv == Init => PictureInv
  BY DEF Init, PictureInv, NoMeta

LEMMA NextPictureInv == TypeOK /\ TypeOK' /\ WordInv /\ WordInv' /\ PictureInv /\ [Next]_vars => PictureInv'
<1> SUFFICES ASSUME TypeOK, TypeOK', Kept, Kept', PictureInv, [Next]_vars PROVE PictureInv'
  BY DEF WordInv
<1>1. CASE Begin
  BY <1>1, PictureStands DEF Begin, Kept, NoMeta
<1>2. CASE ReadDirectory \/ ReadSubIfd \/ NextDirectory
  BY <1>2, PictureStands DEF ReadDirectory, ReadSubIfd, NextDirectory
<1>3. CASE ReadTags
  BY <1>3, PictureStands DEF ReadTags, Kept, NoMeta
<1>4. CASE OpenJpeg
  BY <1>4, OpenJpegKeeps
<1>5. CASE Walk
  BY <1>5, WalkKeeps
<1>6. CASE ReadIndex
  BY <1>6, ReadIndexKeeps
<1>7. CASE ReadFrame
  BY <1>7, ReadFrameKeeps
<1>8. CASE WalkIsOver
  BY <1>8, WalkIsOverKeeps
<1>9. CASE GainPacket
  BY <1>9, GainPacketKeeps
<1>10. CASE GainBlock
  BY <1>10, GainBlockKeeps
<1>11. CASE ReadPacket
  <2>1. meta'.gain_map = meta.gain_map
    BY <1>11 DEF ReadPacket, Kept, NoMeta
  <2> QED
    BY <1>11, <2>1, PictureStands DEF ReadPacket
<1>12. CASE Answer
  <2>1. meta'.gain_map = meta.gain_map
    BY <1>12 DEF Answer, Kept, NoMeta
  <2> QED
    BY <1>12, <2>1, PictureStands DEF Answer
<1>13. CASE Returned \/ UNCHANGED vars
  <2>1. UNCHANGED <<file, pc, span, pos, from, meta>>
    BY <1>13 DEF Returned, vars, walk
  <2>2. /\ Base' = Base /\ Limit' = Limit /\ Gain' = Gain
        /\ (Passed' <=> Passed) /\ (Unread' <=> Unread) /\ (PictureIsOwn' <=> PictureIsOwn)
    <3>1. /\ \A start : Segments(start)' = Segments(start)
          /\ \A p : NextMark(p)' = NextMark(p)
      BY <2>1 DEF Segments, Continues, NextMark
    <3>2. Base' = Base /\ Limit' = Limit /\ Gain' = Gain
      BY <2>1 DEF Base, Limit, Gain
    <3>3. Sought' = Sought
      BY <2>1, <3>1, <3>2 DEF Sought, Marks
    <3>4. Passed' <=> Passed
      BY <2>1, <3>1, <3>2, <3>3 DEF Passed
    <3>5. Unread' <=> Unread
      BY <2>1, <3>2, TextFrame DEF Unread
    <3>6. PictureIsOwn' <=> PictureIsOwn
      BY <2>1, PictureFrame DEF PictureIsOwn
    <3> QED
      BY <3>2, <3>4, <3>5, <3>6
  <2> QED
    BY <2>1, <2>2, PictureFrame, TextFrame DEF PictureInv
<1> QED
  BY <1>1, <1>2, <1>3, <1>4, <1>5, <1>6, <1>7, <1>8, <1>9, <1>10, <1>11, <1>12, <1>13 DEF Next

LEMMA PictureInvSuffices == PictureInv => GainMapIsItsOwn
  BY DEF PictureInv, GainMapIsItsOwn, PictureIsOwn, FrameIsOwn, XmpIsOwn

\* In JPEGs of every shape the gain map is the second picture the first index
\* lists, found when there is one, with the first frame header of its own
\* segments and its own first readable packet or block; markers and packets
\* of the pictures around it, or hidden inside a segment, are never taken.
THEOREM TakesItsOwnGainMap == Spec => []GainMapIsItsOwn
<1>1. Init => TypeOK /\ WordInv /\ PictureInv
  BY InitTypeOK, InitWordInv, InitPictureInv
<1>2. TypeOK /\ WordInv /\ PictureInv /\ [Next]_vars => (TypeOK /\ WordInv /\ PictureInv)'
  BY NextTypeOK, NextWordInv, NextPictureInv
<1>3. PictureInv => GainMapIsItsOwn
  BY PictureInvSuffices
<1> QED
  BY <1>1, <1>2, <1>3, PTL DEF Spec
=============================================================================
