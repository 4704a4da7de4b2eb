------------------------------ MODULE PatchPort ------------------------------
(***************************************************************************)
(* hg clpatch when the patch of a CL was made against another revision     *)
(* than that of the clone (codereview.py): portPatch moves its hunks by as *)
(* many lines as the changes between the two revisions have moved what     *)
(* they apply to, and refuses a patch that touches the same lines.         *)
(*                                                                         *)
(* Of a patch the model keeps the line numbers of its hunks, with the file *)
(* each belongs to; of hg diff -r old:new the numbers of its hunks.  A     *)
(* comparison of a hunk with a change is one step.  Changes that create or *)
(* empty a file are left out.                                              *)
(***************************************************************************)
EXTENDS Integers, Sequences

CONSTANTS
  Files,     \* the files of the repository
  NewFile,   \* the file of a hunk that follows "--- /dev/null"
  Recents,   \* the changes between two revisions: a diff for every file
  Patches    \* the patches to port

Pos == Nat \ {0}

\* "@@ -x,y +z,w @@": lines x up to x+y are now the lines z up to z+w.
Change == [x: Pos, y: Pos, z: Pos, w: Pos]
Hunk == [file: Files \cup {NewFile}, n1: Nat, len1: Nat, n2: Nat, len2: Nat]

\* The changes of a file are in order, and between two of them the lines are
\* the same: as many, and before the first at the same place.
IsDiff(diff) ==
  /\ diff \in Seq(Change)
  /\ \A i, j \in DOMAIN diff : i < j => diff[i].x + diff[i].y <= diff[j].x
  /\ \A i \in DOMAIN diff :
       IF i = 1 THEN diff[i].z = diff[i].x
       ELSE diff[i].z - (diff[i - 1].z + diff[i - 1].w) = diff[i].x - (diff[i - 1].x + diff[i - 1].y)

\* A file that is not there has no lines to replace.
IsPatch(hunks) ==
  /\ hunks \in Seq(Hunk)
  /\ \A k \in DOMAIN hunks : IF hunks[k].file = NewFile THEN hunks[k].n1 = 0 /\ hunks[k].len1 = 0
                             ELSE hunks[k].n1 > 0 /\ hunks[k].len1 > 0

ASSUME FileAssumption == NewFile \notin Files
ASSUME InputAssumption ==
  /\ Recents \subseteq [Files -> Seq(Change)]
  /\ \A changed \in Recents : \A file \in Files : IsDiff(changed[file])
  /\ \A hunks \in Patches : IsPatch(hunks)

VARIABLES
  recent,   \* the input of fileDeltas
  patch,    \* the input of portPatch
  deltas,   \* delta: what lineDelta goes through
  i,        \* the change lineDelta looks at, 0 outside lineDelta
  d,        \* d, of lineDelta
  ported,   \* the hunks that have been rewritten
  result    \* "porting", or what portPatch returns: "ported" or "conflict"

vars == <<recent, patch, deltas, i, d, ported, result>>
input == <<recent, patch>>

hunk == patch[Len(ported) + 1]

(* A definition whose name ends in an underscore and a word is a faulty    *)
(* variant of the one it precedes: what TLC substitutes to see that a      *)
(* property notices the fault.  Nothing uses it.                           *)

NewDelta_Start(c) == c.z - c.x
NewDelta(c) == (c.z + c.w) - (c.x + c.y)

\* Each change as (n, len, newdelta); lineDelta never looks at its length.
fileDeltas(file) ==
  [k \in DOMAIN recent[file] |-> [old |-> recent[file][k].x, newdelta |-> NewDelta(recent[file][k])]]

\* "--- a/FILE" sets delta, "--- /dev/null" leaves it as it is.
FindDeltas ==
  /\ result = "porting" /\ i = 0
  /\ Len(ported) < Len(patch)
  /\ deltas' = IF hunk.file = NewFile THEN deltas ELSE fileDeltas(hunk.file)
  /\ i' = 1
  /\ d' = 0
  /\ UNCHANGED <<input, ported, result>>

Behind(old) == old >= hunk.n1 + hunk.len1

Conflicts_Inside(old) == old > hunk.n1
\* old is the start of a change, but len1 is the length of the hunk.
Conflicts(old) == old + hunk.len1 > hunk.n1

Looks == result = "porting" /\ i \in DOMAIN deltas

Break ==
  /\ Looks
  /\ Behind(deltas[i].old)
  /\ i' = Len(deltas) + 1
  /\ UNCHANGED <<input, deltas, d, ported, result>>

Conflict ==
  /\ Looks
  /\ ~ Behind(deltas[i].old)
  /\ Conflicts(deltas[i].old)
  /\ result' = "conflict"
  /\ UNCHANGED <<input, deltas, i, d, ported>>

Pass ==
  /\ Looks
  /\ ~ Behind(deltas[i].old)
  /\ ~ Conflicts(deltas[i].old)
  /\ d' = deltas[i].newdelta
  /\ i' = i + 1
  /\ UNCHANGED <<input, deltas, ported, result>>

Moved(h, by) ==
  [file |-> h.file, n1 |-> h.n1 + by, len1 |-> h.len1, n2 |-> h.n2 + by, len2 |-> h.len2]

Rewrite ==
  /\ result = "porting" /\ i = Len(deltas) + 1
  /\ ported' = Append(ported, Moved(hunk, d))
  /\ i' = 0
  /\ UNCHANGED <<input, deltas, d, result>>

Return ==
  /\ result = "porting" /\ i = 0
  /\ Len(ported) = Len(patch)
  /\ result' = "ported"
  /\ UNCHANGED <<input, deltas, i, d, ported>>

Init ==
  /\ recent \in Recents
  /\ patch \in Patches
  /\ deltas = <<>> /\ i = 0 /\ d = 0
  /\ ported = <<>>
  /\ result = "porting"

Next == FindDeltas \/ Break \/ Conflict \/ Pass \/ Rewrite \/ Return

Spec == Init /\ [][Next]_vars
-----------------------------------------------------------------------------
(* Properties *)

\* Change c has replaced lines that hunk h is about.
Touches(c, h) == c.x < h.n1 + h.len1 /\ h.n1 < c.x + c.y

ChangesFor(h) == IF h.file = NewFile THEN <<>> ELSE recent[h.file]
Untouched(h) == \A k \in DOMAIN ChangesFor(h) : ~ Touches(ChangesFor(h)[k], h)

\* p is where h belongs: as far from the change above it, and from the one
\* below it, as it was, and where it was if there is none.
Belongs(p, h) ==
  LET changes == ChangesFor(h) IN
    /\ \A k \in DOMAIN changes :
         /\ changes[k].x + changes[k].y <= h.n1
         /\ k < Len(changes) => h.n1 + h.len1 <= changes[k + 1].x
         => p.n1 - (changes[k].z + changes[k].w) = h.n1 - (changes[k].x + changes[k].y)
    /\ \A k \in DOMAIN changes :
         /\ h.n1 + h.len1 <= changes[k].x
         /\ k > 1 => changes[k - 1].x + changes[k - 1].y <= h.n1
         => changes[k].z - (p.n1 + p.len1) = changes[k].x - (h.n1 + h.len1)
    /\ changes = <<>> => p = h
    /\ p = Moved(h, p.n1 - h.n1)

\* A hunk whose lines nothing has touched is put where these lines are now,
\* between the same two changes, and a new file's is not moved by what was
\* found for the file before it (portPatch: "find the delta from x in the
\* original to the same line in the current version").
UntouchedPlaced == \A k \in DOMAIN ported : Untouched(patch[k]) => Belongs(ported[k], patch[k])

\* Of the changes that touch a hunk, lineDelta misses none that is not longer
\* than the hunk.
OnlyLongerMissed ==
  \A k \in DOMAIN ported : \A j \in DOMAIN ChangesFor(patch[k]) :
    LET c == ChangesFor(patch[k])[j] IN Touches(c, patch[k]) => c.y > patch[k].len1

\* What the comment says of lineDelta: "It returns an error if those lines
\* were rewritten by the patch."  (It adds the hunk's length to the start of
\* the change where the change's own is meant.)
RewrittenRefused == \A k \in DOMAIN ported : Untouched(patch[k])
=============================================================================
