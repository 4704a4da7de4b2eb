--------------------------- MODULE PatchPortProofs ---------------------------
(***************************************************************************)
(* Theorems about PatchPort, for patches and changes of any number, place  *)
(* and length.  The invariant says what lineDelta knows of a hunk: the     *)
(* changes it has passed, m of them, begin before the hunk and do not      *)
(* conflict by its measure, d is the delta of the last, and the next one,  *)
(* if it has stopped, begins behind the hunk.                              *)
(***************************************************************************)
EXTENDS PatchPort, TLAPS

Ported == [file: Files \cup {NewFile}, n1: Int, len1: Nat, n2: Int, len2: Nat]

TypeOK ==
  /\ recent \in [Files -> Seq(Change)]
  /\ \A file \in Files : IsDiff(recent[file])
  /\ IsPatch(patch)
  /\ deltas \in Seq([old: Pos, newdelta: Int])
  /\ i \in Nat
  /\ d \in Int
  /\ ported \in Seq(Ported)
  /\ result \in {"porting", "ported", "conflict"}

\* m changes have been passed.
Passed(m) ==
  /\ m \in 0 .. Len(deltas)
  /\ \A k \in 1 .. m : ~ Behind(deltas[k].old) /\ ~ Conflicts(deltas[k].old)
  /\ d = IF m = 0 THEN 0 ELSE deltas[m].newdelta
  /\ i = m + 1 \/ (i = Len(deltas) + 1 /\ m < Len(deltas) /\ Behind(deltas[m + 1].old))

LoopRight ==
  result = "porting" /\ i # 0 =>
    /\ Len(ported) < Len(patch)
    /\ IF hunk.file = NewFile THEN d = 0
       ELSE deltas = fileDeltas(hunk.file) /\ \E m \in Nat : Passed(m)

\* What holds of a hunk h that has been ported as p.
Right(p, h) ==
  /\ Untouched(h) => Belongs(p, h)
  /\ \A j \in DOMAIN ChangesFor(h) :
       Touches(ChangesFor(h)[j], h) => ChangesFor(h)[j].y > h.len1

IInv ==
  /\ TypeOK
  /\ LoopRight
  /\ Len(ported) <= Len(patch)
  /\ \A k \in 1 .. Len(ported) : Right(ported[k], patch[k])

-----------------------------------------------------------------------------
(* Where lineDelta puts a hunk *)

LEMMA ChangeTyped ==
  ASSUME NEW c \in Change
  PROVE  /\ c.x \in Nat /\ c.y \in Nat /\ c.z \in Nat /\ c.w \in Nat
         /\ c.x \in Pos /\ c.y > 0 /\ NewDelta(c) \in Int
<1>1. c.x \in Pos /\ c.y \in Pos /\ c.z \in Pos /\ c.w \in Pos
  BY DEF Change
<1> QED
  BY <1>1 DEF Pos, NewDelta

\* The changes that have not been passed are behind the hunk.
LEMMA RestBehind ==
  ASSUME NEW C \in Seq(Change), IsDiff(C), NEW bound \in Int, NEW m \in 0 .. Len(C),
         m < Len(C) => C[m + 1].x >= bound,
         NEW k \in 1 .. Len(C), k > m
  PROVE  C[k].x >= bound
<1>1. /\ m \in Nat /\ Len(C) \in Nat /\ m + 1 \in 1 .. Len(C) /\ C[m + 1].x >= bound
      /\ C[m + 1] \in Change /\ C[k] \in Change
  OBVIOUS
<1>2. CASE k = m + 1
  BY <1>1, <1>2
<1>3. CASE m + 1 < k
  <2>1. C[m + 1].x + C[m + 1].y <= C[k].x
    BY <1>1, <1>3 DEF IsDiff
  <2> QED
    BY <1>1, <2>1, ChangeTyped
<1> QED
  BY <1>1, <1>2, <1>3

\* A change that touches the hunk was passed, by the length of the hunk.
LEMMA MissedAreLonger ==
  ASSUME NEW C \in Seq(Change), IsDiff(C), NEW h \in Hunk, NEW m \in 0 .. Len(C),
         \A k \in 1 .. m : C[k].x + h.len1 <= h.n1,
         m < Len(C) => C[m + 1].x >= h.n1 + h.len1,
         NEW k \in 1 .. Len(C), Touches(C[k], h)
  PROVE  C[k].y > h.len1
<1>1. h.n1 \in Nat /\ h.len1 \in Nat /\ C[k] \in Change
  BY DEF Hunk
<1>2. k <= m
  <2>1. SUFFICES ASSUME k > m PROVE FALSE
    OBVIOUS
  <2>2. C[k].x >= h.n1 + h.len1
    <3> DEFINE bound == h.n1 + h.len1
    <3>1. bound \in Int /\ (m < Len(C) => C[m + 1].x >= bound)
      BY <1>1
    <3> HIDE DEF bound
    <3>2. C[k].x >= bound
      BY <2>1, <3>1, RestBehind
    <3> QED
      BY <3>2 DEF bound
  <2> QED
    BY <1>1, <2>2, ChangeTyped DEF Touches
<1> QED
  BY <1>1, <1>2, ChangeTyped DEF Touches

LEMMA MovedIs ==
  ASSUME NEW h \in Hunk, NEW by \in Int
  PROVE  /\ Moved(h, by) = [file |-> h.file, n1 |-> h.n1 + by, len1 |-> h.len1, n2 |-> h.n2 + by, len2 |-> h.len2]
         /\ Moved(h, by) \in Ported
         /\ Moved(h, 0) = h
         /\ Moved(h, by).n1 - h.n1 = by
<1>1. h.file \in Files \cup {NewFile} /\ h.n1 \in Nat /\ h.len1 \in Nat /\ h.n2 \in Nat /\ h.len2 \in Nat
  BY DEF Hunk
<1>2. h = [file |-> h.file, n1 |-> h.n1, len1 |-> h.len1, n2 |-> h.n2, len2 |-> h.len2]
  BY DEF Hunk
<1>3. Moved(h, by) = [file |-> h.file, n1 |-> h.n1 + by, len1 |-> h.len1, n2 |-> h.n2 + by, len2 |-> h.len2]
  BY DEF Moved
<1>4. Moved(h, 0) = [file |-> h.file, n1 |-> h.n1 + 0, len1 |-> h.len1, n2 |-> h.n2 + 0, len2 |-> h.len2]
  BY DEF Moved
<1>5. h.n1 + 0 = h.n1 /\ h.n2 + 0 = h.n2 /\ (h.n1 + by) - h.n1 = by /\ h.n1 + by \in Int /\ h.n2 + by \in Int
  BY <1>1
<1>6. Moved(h, 0) = h
  BY <1>2, <1>4, <1>5
<1>7. Moved(h, by) \in Ported
  BY <1>1, <1>3, <1>5 DEF Ported
<1> QED
  BY <1>3, <1>5, <1>6, <1>7

\* The same for a change that is behind another by as much as it was.
LEMMA SameGap ==
  ASSUME NEW by \in Int, NEW end \in Int, NEW ended \in Int, NEW start \in Int, NEW started \in Int,
         started - ended = start - end, by = ended - end
  PROVE  started = start + by
OBVIOUS

\* The delta of the last change passed moves the hunk to where it belongs.
LEMMA DeltaPlaces ==
  ASSUME TypeOK, NEW h \in Hunk, h.file \in Files, NEW m \in 0 .. Len(recent[h.file]), NEW by \in Int,
         h.n1 > 0 /\ h.len1 > 0,
         \A k \in 1 .. m : recent[h.file][k].x < h.n1 + h.len1,
         m < Len(recent[h.file]) => recent[h.file][m + 1].x >= h.n1 + h.len1,
         by = IF m = 0 THEN 0 ELSE NewDelta(recent[h.file][m])
  PROVE  Belongs(Moved(h, by), h)
<1> DEFINE C == recent[h.file]
           p == Moved(h, by)
<1>1. /\ C \in Seq(Change) /\ IsDiff(C) /\ ChangesFor(h) = C
      /\ Len(C) \in Nat /\ DOMAIN C = 1 .. Len(C) /\ m \in Nat /\ m <= Len(C)
  BY FileAssumption DEF TypeOK, ChangesFor
<1>2. /\ h.n1 \in Nat /\ h.len1 \in Nat /\ h.n2 \in Nat
      /\ p.n1 = h.n1 + by /\ p.len1 = h.len1 /\ p.n2 = h.n2 + by
  <2>1. h.n1 \in Nat /\ h.len1 \in Nat /\ h.n2 \in Nat
    BY DEF Hunk
  <2>2. p.n1 = h.n1 + by /\ p.len1 = h.len1 /\ p.n2 = h.n2 + by
    BY DEF Moved
  <2> QED
    BY <2>1, <2>2
<1>3. \A k \in 1 .. Len(C) : /\ C[k].x \in Nat /\ C[k].y \in Nat /\ C[k].z \in Nat /\ C[k].w \in Nat
                             /\ C[k].y > 0
  BY <1>1, ChangeTyped
<1> HIDE DEF C, p
<1>0. ASSUME NEW k \in 1 .. Len(C), k > m
      PROVE  C[k].x >= h.n1 + h.len1
  <2> DEFINE bound == h.n1 + h.len1
  <2>1. bound \in Int /\ (m < Len(C) => C[m + 1].x >= bound) /\ m \in 0 .. Len(C)
    BY <1>2 DEF C
  <2> HIDE DEF bound
  <2>2. C[k].x >= bound
    BY <1>0, <1>1, <2>1, RestBehind
  <2> QED
    BY <2>2 DEF bound
<1>4. ASSUME NEW k \in 1 .. Len(C), C[k].x + C[k].y <= h.n1,
             k < Len(C) => h.n1 + h.len1 <= C[k + 1].x
      PROVE  p.n1 - (C[k].z + C[k].w) = h.n1 - (C[k].x + C[k].y)
  <2>1. k <= m
    <3>1. SUFFICES ASSUME k > m PROVE FALSE
      BY <1>1
    <3>2. C[k].x >= h.n1 + h.len1
      BY <1>0, <3>1
    <3> QED
      BY <1>2, <1>3, <1>4, <3>2
  <2>2. ~ k < m
    <3>1. SUFFICES ASSUME k < m PROVE FALSE
      OBVIOUS
    <3>2. k + 1 \in 1 .. m /\ k < Len(C) /\ k + 1 \in 1 .. Len(C)
      BY <1>1, <3>1
    <3>3. C[k + 1].x < h.n1 + h.len1
      BY <3>2 DEF C
    <3> QED
      BY <1>2, <1>3, <1>4, <3>2, <3>3
  <2>3. k = m
    BY <1>1, <2>1, <2>2
  <2>4. by = (C[k].z + C[k].w) - (C[k].x + C[k].y)
    BY <1>1, <2>3 DEF NewDelta, C
  <2>5. C[k].x \in Int /\ C[k].y \in Int /\ C[k].z \in Int /\ C[k].w \in Int /\ h.n1 \in Int
    BY <1>2, <1>3
  <2>6. (h.n1 + by) - (C[k].z + C[k].w) = h.n1 - (C[k].x + C[k].y)
    BY ONLY <2>4, <2>5
  <2> QED
    BY <1>2, <2>6
<1>5. ASSUME NEW k \in 1 .. Len(C), h.n1 + h.len1 <= C[k].x,
             k > 1 => C[k - 1].x + C[k - 1].y <= h.n1
      PROVE  C[k].z - (p.n1 + p.len1) = C[k].x - (h.n1 + h.len1)
  <2>1. ~ k <= m
    BY <1>1, <1>2, <1>3, <1>5 DEF C
  <2>2. ~ k > m + 1
    <3>1. SUFFICES ASSUME k > m + 1 PROVE FALSE
      OBVIOUS
    <3>2. k - 1 \in 1 .. Len(C) /\ k - 1 > m /\ k > 1
      BY <1>1, <3>1
    <3>3. C[k - 1].x >= h.n1 + h.len1
      BY <1>0, <3>2
    <3> QED
      BY <1>2, <1>3, <1>5, <3>2, <3>3
  <2>3. k = m + 1
    BY <1>1, <2>1, <2>2
  <2>4. CASE m = 0
    <3>1. C[k].z = C[k].x /\ by = 0
      <4>1. k = 1 /\ 1 \in DOMAIN C
        BY <1>1, <2>3, <2>4
      <4>2. C[1].z = C[1].x
        BY <1>1, <4>1 DEF IsDiff
      <4> QED
        BY <2>4, <4>1, <4>2
    <3>2. p.n1 = h.n1 /\ p.len1 = h.len1
      BY <1>2, <3>1
    <3> QED
      BY <3>1, <3>2
  <2>5. CASE m > 0
    <3>1. k # 1 /\ k - 1 = m /\ m \in 1 .. Len(C)
      BY <1>1, <2>3, <2>5
    <3>2. C[k].z - (C[m].z + C[m].w) = C[k].x - (C[m].x + C[m].y)
      BY <1>1, <3>1 DEF IsDiff
    <3>3. by = (C[m].z + C[m].w) - (C[m].x + C[m].y)
      BY <2>5 DEF NewDelta, C
    <3>4. /\ C[k].x \in Int /\ C[k].z \in Int /\ C[m].x \in Int /\ C[m].y \in Int /\ C[m].z \in Int
          /\ C[m].w \in Int /\ h.n1 \in Int /\ h.len1 \in Int /\ by \in Int
      <4>1. C[k].x \in Int /\ C[k].z \in Int
        BY <1>3, <1>5
      <4>2. C[m].x \in Int /\ C[m].y \in Int /\ C[m].z \in Int /\ C[m].w \in Int
        BY <1>3, <3>1
      <4>3. h.n1 \in Int /\ h.len1 \in Int
        BY <1>2
      <4>4. by \in Int
        BY ONLY <3>3, <4>2
      <4> QED
        BY ONLY <4>1, <4>2, <4>3, <4>4
    <3>5. C[k].z = C[k].x + by
      <4> DEFINE end == C[m].x + C[m].y
                 ended == C[m].z + C[m].w
      <4>1. end \in Int /\ ended \in Int
        BY ONLY <3>4
      <4>2. C[k].z - ended = C[k].x - end /\ by = ended - end
        BY ONLY <3>2, <3>3
      <4> HIDE DEF end, ended
      <4> QED
        BY <3>4, <4>1, <4>2, SameGap
    <3>6. C[k].z - ((h.n1 + by) + h.len1) = C[k].x - (h.n1 + h.len1)
      BY ONLY <3>4, <3>5
    <3> QED
      BY <1>2, <3>6
  <2> QED
    BY <1>1, <2>4, <2>5
<1>6. C = <<>> => p = h
  <2>1. SUFFICES ASSUME C = <<>> PROVE p = h
    OBVIOUS
  <2>2. by = 0
    BY <1>1, <2>1
  <2> QED
    BY <2>2, MovedIs DEF p
<1>7. p = Moved(h, p.n1 - h.n1)
  BY MovedIs DEF p
<1> QED
  BY <1>1, <1>4, <1>5, <1>6, <1>7 DEF Belongs, p

-----------------------------------------------------------------------------
(* The invariant *)

LEMMA InitRight == Init => IInv
<1> SUFFICES ASSUME Init PROVE IInv
  OBVIOUS
<1>1. TypeOK
  BY InputAssumption DEF Init, TypeOK
<1> QED
  BY <1>1 DEF Init, IInv, LoopRight, IsPatch, TypeOK

\* The hunk in hand is one of the patch.
LEMMA HunkTyped ==
  ASSUME TypeOK, Len(ported) < Len(patch)
  PROVE  /\ hunk \in Hunk
         /\ hunk.file = NewFile => hunk.n1 = 0 /\ hunk.len1 = 0
         /\ hunk.file # NewFile => hunk.file \in Files /\ hunk.n1 > 0 /\ hunk.len1 > 0
<1>1. Len(ported) + 1 \in 1 .. Len(patch) /\ patch \in Seq(Hunk)
  BY DEF TypeOK, IsPatch
<1>2. patch[Len(ported) + 1] \in Hunk
  BY <1>1
<1> QED
  BY <1>1, <1>2 DEF TypeOK, IsPatch, Hunk, hunk

LEMMA DeltasTyped ==
  ASSUME TypeOK, NEW file \in Files
  PROVE  /\ fileDeltas(file) \in Seq([old: Pos, newdelta: Int])
         /\ Len(fileDeltas(file)) = Len(recent[file])
         /\ \A k \in 1 .. Len(recent[file]) :
              /\ fileDeltas(file)[k].old = recent[file][k].x
              /\ fileDeltas(file)[k].newdelta = NewDelta(recent[file][k])
<1>1. recent[file] \in Seq(Change)
  BY DEF TypeOK
<1>2. \A k \in 1 .. Len(recent[file]) : recent[file][k] \in Change /\ NewDelta(recent[file][k]) \in Int
                                        /\ recent[file][k].x \in Pos
  BY <1>1, ChangeTyped
<1> DEFINE Triple(k) == [old |-> recent[file][k].x, newdelta |-> NewDelta(recent[file][k])]
<1>3. fileDeltas(file) = [k \in 1 .. Len(recent[file]) |-> Triple(k)]
  BY <1>1 DEF fileDeltas
<1>4. \A k \in 1 .. Len(recent[file]) : Triple(k) \in [old: Pos, newdelta: Int]
  BY <1>2
<1>5. Len(recent[file]) \in Nat
  BY <1>1
<1> HIDE DEF Triple
<1>6. fileDeltas(file) \in Seq([old: Pos, newdelta: Int]) /\ Len(fileDeltas(file)) = Len(recent[file])
  BY <1>3, <1>4, <1>5
<1>7. \A k \in 1 .. Len(recent[file]) : fileDeltas(file)[k] = Triple(k)
  BY <1>3
<1>8. \A k \in 1 .. Len(recent[file]) : /\ fileDeltas(file)[k].old = recent[file][k].x
                                         /\ fileDeltas(file)[k].newdelta = NewDelta(recent[file][k])
  <2> SUFFICES ASSUME NEW k \in 1 .. Len(recent[file])
               PROVE  /\ fileDeltas(file)[k].old = recent[file][k].x
                      /\ fileDeltas(file)[k].newdelta = NewDelta(recent[file][k])
    OBVIOUS
  <2>1. fileDeltas(file)[k] = [old |-> recent[file][k].x, newdelta |-> NewDelta(recent[file][k])]
    BY <1>7 DEF Triple
  <2> QED
    BY <2>1
<1> QED
  BY <1>6, <1>8

\* What depends on the inputs only is kept.
LEMMA InputKept ==
  ASSUME TypeOK, UNCHANGED input
  PROVE  /\ \A file \in Files : IsDiff(recent'[file]) /\ fileDeltas(file)' = fileDeltas(file)
         /\ recent' \in [Files -> Seq(Change)] /\ IsPatch(patch')
         /\ \A p, h : Right(p, h)' = Right(p, h)
  BY DEF TypeOK, input, fileDeltas, Right, Untouched, ChangesFor, Belongs

LEMMA FindDeltasKeeps == IInv /\ FindDeltas => IInv'
<1> SUFFICES ASSUME IInv, FindDeltas PROVE IInv'
  OBVIOUS
<1>1. UNCHANGED <<input, ported, result>> /\ Len(ported) < Len(patch) /\ TypeOK
  BY DEF FindDeltas, IInv
<1>2. hunk' = hunk
  BY <1>1 DEF hunk, input
<1>3. TypeOK'
  <2>1. deltas' \in Seq([old: Pos, newdelta: Int])
    <3>1. CASE hunk.file = NewFile
      BY <1>1, <3>1 DEF FindDeltas, TypeOK
    <3>2. CASE hunk.file # NewFile
      BY <1>1, <3>2, HunkTyped, DeltasTyped DEF FindDeltas
    <3> QED
      BY <3>1, <3>2
  <2>2. i' = 1 /\ d' = 0
    BY DEF FindDeltas
  <2> QED
    BY <1>1, <2>1, <2>2, InputKept DEF TypeOK
<1>4. LoopRight'
  <2>1. CASE hunk.file = NewFile
    BY <1>1, <1>2, <2>1 DEF LoopRight, FindDeltas, input
  <2>2. CASE hunk.file # NewFile
    <3>1. deltas' = fileDeltas(hunk.file) /\ hunk.file \in Files /\ i' = 1 /\ d' = 0
      BY <1>1, <2>2, HunkTyped DEF FindDeltas
    <3>2. Passed(0)'
      BY <1>3, <3>1 DEF Passed, TypeOK
    <3> QED
      BY <1>1, <1>2, <2>2, <3>1, <3>2, InputKept DEF LoopRight, input
  <2> QED
    BY <2>1, <2>2
<1> QED
  BY <1>1, <1>3, <1>4, InputKept DEF IInv, input

LEMMA LooksTyped ==
  ASSUME IInv, Looks
  PROVE  /\ TypeOK /\ i \in 1 .. Len(deltas) /\ Len(ported) < Len(patch)
         /\ deltas[i].old \in Pos /\ deltas[i].newdelta \in Int
<1>1. TypeOK /\ deltas \in Seq([old: Pos, newdelta: Int])
  BY DEF IInv, TypeOK
<1>2. i \in 1 .. Len(deltas) /\ result = "porting"
  BY <1>1 DEF Looks
<1>3. i # 0
  BY <1>2
<1> DEFINE Delta == [old: Pos, newdelta: Int]
<1>4. deltas[i] \in Delta
  <2>1. deltas \in Seq(Delta)
    BY <1>1
  <2> HIDE DEF Delta
  <2> QED
    BY <1>2, <2>1
<1> QED
  BY <1>1, <1>2, <1>3, <1>4 DEF IInv, LoopRight

\* The changes before a new file's hunk are behind it: it stops at the first.
LEMMA NewFileBehind ==
  ASSUME IInv, Looks, hunk.file = NewFile
  PROVE  Behind(deltas[i].old)
<1>1. Len(ported) < Len(patch) /\ TypeOK /\ i \in 1 .. Len(deltas) /\ deltas[i].old \in Pos
  BY LooksTyped
<1>2. hunk.n1 = 0 /\ hunk.len1 = 0
  BY <1>1, HunkTyped
<1> QED
  BY <1>1, <1>2 DEF Behind, Pos

LEMMA LoopKeeps == IInv /\ (Break \/ Pass) => IInv'
<1> SUFFICES ASSUME IInv, Break \/ Pass PROVE IInv'
  OBVIOUS
<1>1. /\ UNCHANGED <<input, deltas, ported, result>> /\ TypeOK /\ result = "porting"
      /\ i \in 1 .. Len(deltas) /\ deltas[i].newdelta \in Int /\ Len(ported) < Len(patch) /\ i # 0
      /\ Looks
  BY LooksTyped DEF Break, Pass, Looks
<1>2. hunk' = hunk /\ \A old : Behind(old)' = Behind(old) /\ Conflicts(old)' = Conflicts(old)
  BY <1>1 DEF hunk, input, Behind, Conflicts
<1>3. TypeOK'
  BY <1>1, InputKept DEF Break, Pass, TypeOK
<1>4. LoopRight'
  <2>1. CASE hunk.file = NewFile
    <3>1. d' = 0
      BY <1>1, <2>1, NewFileBehind DEF Break, Pass, IInv, LoopRight
    <3> QED
      BY <1>1, <1>2, <2>1, <3>1 DEF LoopRight, input
  <2>2. CASE hunk.file # NewFile
    <3>1. PICK m \in Nat : Passed(m)
      BY <1>1, <2>2 DEF IInv, LoopRight
    <3>2. i = m + 1
      BY <1>1, <3>1 DEF Passed
    <3>3. CASE Break
      <4>1. Passed(m)'
        BY <1>1, <1>2, <3>1, <3>2, <3>3 DEF Passed, Break
      <4> QED
        BY <1>1, <1>2, <1>3, <2>2, <4>1, HunkTyped, InputKept DEF LoopRight, IInv, input
    <3>4. CASE Pass
      <4>1. i' = (m + 1) + 1 /\ d' = deltas[m + 1].newdelta /\ m + 1 \in 1 .. Len(deltas)
            /\ ~ Behind(deltas[m + 1].old) /\ ~ Conflicts(deltas[m + 1].old)
        BY <1>1, <3>2, <3>4 DEF Pass
      <4>2. \A k \in 1 .. m + 1 : ~ Behind(deltas[k].old) /\ ~ Conflicts(deltas[k].old)
        BY <3>1, <4>1 DEF Passed
      <4>3. Passed(m + 1)'
        BY <1>1, <1>2, <4>1, <4>2 DEF Passed
      <4> QED
        BY <1>1, <1>2, <1>3, <2>2, <4>3, HunkTyped, InputKept DEF LoopRight, IInv, input
    <3> QED
      BY <3>3, <3>4
  <2> QED
    BY <2>1, <2>2
<1> QED
  BY <1>1, <1>3, <1>4, InputKept DEF IInv, input

\* The hunk that is rewritten is right.
LEMMA RewriteRight ==
  ASSUME IInv, Rewrite
  PROVE  Right(Moved(hunk, d), hunk)
<1>1. TypeOK /\ Len(ported) < Len(patch) /\ i = Len(deltas) + 1 /\ Len(deltas) \in Nat
      /\ result = "porting" /\ i # 0
  BY DEF IInv, LoopRight, Rewrite, TypeOK
<1>2. CASE hunk.file = NewFile
  <2>1. d = 0 /\ ChangesFor(hunk) = <<>> /\ hunk \in Hunk
    BY <1>1, <1>2, HunkTyped DEF IInv, LoopRight, ChangesFor
  <2>3. hunk.n1 - hunk.n1 = 0
    BY <2>1 DEF Hunk
  <2>2. Moved(hunk, d) = hunk /\ hunk = Moved(hunk, hunk.n1 - hunk.n1)
    BY <2>1, <2>3, MovedIs
  <2> QED
    BY <2>1, <2>2 DEF Right, Belongs
<1>3. CASE hunk.file # NewFile
  <2> DEFINE C == recent[hunk.file]
  <2>1. /\ hunk \in Hunk /\ hunk.file \in Files /\ hunk.n1 > 0 /\ hunk.len1 > 0
        /\ hunk.n1 \in Nat /\ hunk.len1 \in Nat
    BY <1>1, <1>3, HunkTyped DEF Hunk
  <2>2. C \in Seq(Change) /\ IsDiff(C) /\ ChangesFor(hunk) = C /\ DOMAIN C = 1 .. Len(C) /\ d \in Int
    BY <1>1, <1>3, <2>1 DEF TypeOK, ChangesFor
  <2>3. PICK m \in Nat : Passed(m)
    BY <1>1, <1>3 DEF IInv, LoopRight
  <2>4. /\ deltas = fileDeltas(hunk.file) /\ Len(deltas) = Len(C)
        /\ \A k \in 1 .. Len(C) : deltas[k].old = C[k].x /\ deltas[k].newdelta = NewDelta(C[k])
    BY <1>1, <1>3, <2>1, DeltasTyped DEF IInv, LoopRight
  <2>5. \A k \in 1 .. Len(C) : C[k].x \in Nat
    BY <2>2, ChangeTyped
  <2> HIDE DEF C
  <2>6. m \in 0 .. Len(C) /\ d = IF m = 0 THEN 0 ELSE NewDelta(C[m])
    BY <2>3, <2>4 DEF Passed
  <2>7. \A k \in 1 .. m : C[k].x < hunk.n1 + hunk.len1 /\ C[k].x + hunk.len1 <= hunk.n1
    <3>1. ASSUME NEW k \in 1 .. m
          PROVE  ~ Behind(C[k].x) /\ ~ Conflicts(C[k].x) /\ C[k].x \in Nat
      BY <2>3, <2>4, <2>5, <2>6 DEF Passed
    <3> QED
      BY <2>1, <3>1 DEF Behind, Conflicts
  <2>8. m < Len(C) => C[m + 1].x >= hunk.n1 + hunk.len1
    <3>1. SUFFICES ASSUME m < Len(C) PROVE C[m + 1].x >= hunk.n1 + hunk.len1
      OBVIOUS
    <3>2. Behind(deltas[m + 1].old) /\ m + 1 \in 1 .. Len(C)
      BY <1>1, <2>3, <2>4, <2>6, <3>1 DEF Passed
    <3> QED
      BY <2>4, <3>2 DEF Behind
  <2>9. Belongs(Moved(hunk, d), hunk)
    BY <1>1, <2>1, <2>2, <2>6, <2>7, <2>8, DeltaPlaces DEF C
  <2>10. \A k \in 1 .. Len(C) : Touches(C[k], hunk) => C[k].y > hunk.len1
    BY <2>1, <2>2, <2>6, <2>7, <2>8, MissedAreLonger
  <2> QED
    BY <2>2, <2>9, <2>10 DEF Right
<1> QED
  BY <1>2, <1>3

LEMMA RewriteKeeps == IInv /\ Rewrite => IInv'
<1> SUFFICES ASSUME IInv, Rewrite PROVE IInv'
  OBVIOUS
<1>1. /\ UNCHANGED <<input, deltas, d, result>> /\ TypeOK /\ i' = 0 /\ result = "porting" /\ i # 0
      /\ ported' = Append(ported, Moved(hunk, d)) /\ Len(ported) < Len(patch)
  BY DEF IInv, LoopRight, Rewrite, TypeOK
<1>2. Moved(hunk, d) \in Ported
  BY <1>1, HunkTyped, MovedIs DEF TypeOK
<1>3. TypeOK'
  BY <1>1, <1>2, InputKept DEF TypeOK
<1>4. Len(ported') = Len(ported) + 1 /\ Len(ported') <= Len(patch') /\ Len(ported) \in Nat
  BY <1>1, <1>2 DEF TypeOK, IsPatch, input
<1>5. ASSUME NEW k \in 1 .. Len(ported') PROVE Right(ported'[k], patch'[k])
  <2>1. CASE k <= Len(ported)
    <3>1. ported'[k] = ported[k] /\ patch' = patch /\ k \in 1 .. Len(ported)
      BY <1>1, <1>2, <1>4, <2>1 DEF TypeOK, input
    <3> QED
      BY <3>1 DEF IInv
  <2>2. CASE k = Len(ported) + 1
    <3>1. ported'[k] = Moved(hunk, d) /\ patch'[k] = hunk
      BY <1>1, <1>2, <1>4, <2>2 DEF TypeOK, input, hunk
    <3> QED
      BY <3>1, RewriteRight
  <2> QED
    BY <1>4, <2>1, <2>2
<1>6. \A k \in 1 .. Len(ported') : Right(ported[k], patch[k])'
  <2> SUFFICES ASSUME NEW k \in 1 .. Len(ported') PROVE Right(ported[k], patch[k])'
    OBVIOUS
  <2>1. recent' = recent /\ Right(ported'[k], patch'[k])
    BY <1>1, <1>5 DEF input
  <2> QED
    BY <2>1 DEF Right, Untouched, ChangesFor, Belongs
<1> QED
  BY <1>1, <1>3, <1>4, <1>6 DEF IInv, LoopRight

LEMMA EndsKeep == IInv /\ (Conflict \/ Return \/ UNCHANGED vars) => IInv'
<1> SUFFICES ASSUME IInv, Conflict \/ Return \/ UNCHANGED vars PROVE IInv'
  OBVIOUS
<1>1. /\ UNCHANGED <<input, deltas, i, d, ported>> /\ TypeOK
      /\ result' \in {result, "ported", "conflict"}
  BY DEF Conflict, Return, vars, input, IInv
<1>2. TypeOK'
  BY <1>1, InputKept DEF TypeOK
<1>3. LoopRight'
  <2>1. CASE result' = result
    BY <1>1, <2>1 DEF IInv, LoopRight, input, hunk, fileDeltas, Passed, Behind, Conflicts
  <2>2. CASE result' # result
    BY <1>1, <2>2 DEF LoopRight
  <2> QED
    BY <2>1, <2>2
<1> QED
  BY <1>1, <1>2, <1>3, InputKept DEF IInv, input

\* The invariant holds in every state.
THEOREM Invariance == Spec => []IInv
<1>1. IInv /\ [Next]_vars => IInv'
  BY FindDeltasKeeps, LoopKeeps, RewriteKeeps, EndsKeep DEF Next
<1> QED
  BY InitRight, <1>1, PTL DEF Spec

\* However many changes and hunks there are, a hunk whose lines nothing has
\* touched is put where they are now (portPatch, lineDelta).
THEOREM UntouchedArePlaced == Spec => []UntouchedPlaced
<1>1. IInv => UntouchedPlaced
  BY DEF IInv, TypeOK, Right, UntouchedPlaced
<1> QED
  BY <1>1, Invariance, PTL

\* What lineDelta misses of the changes that touch a hunk is longer than the
\* hunk, as many changes as there are.
THEOREM OnlyLongerAreMissed == Spec => []OnlyLongerMissed
<1>1. IInv => OnlyLongerMissed
  <2> SUFFICES ASSUME IInv, NEW k \in DOMAIN ported, NEW j \in DOMAIN ChangesFor(patch[k]),
                      Touches(ChangesFor(patch[k])[j], patch[k])
               PROVE  ChangesFor(patch[k])[j].y > patch[k].len1
    BY DEF OnlyLongerMissed
  <2>1. k \in 1 .. Len(ported)
    BY DEF IInv, TypeOK
  <2> QED
    BY <2>1 DEF IInv, Right
<1> QED
  BY <1>1, Invariance, PTL
=============================================================================
