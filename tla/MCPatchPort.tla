---------------------------- MODULE MCPatchPort ----------------------------
(* A file that has changed in up to two of its first lines and one that may *)
(* have changed in its first; patches with a hunk for the former and one    *)
(* for either, or for a new file.                                           *)
EXTENDS PatchPort

CONSTANTS f, g, MaxLine, MaxLength

At(x, y, by, w) == [x |-> x, y |-> y, z |-> x + by, w |-> w]
Lengths == 1 .. MaxLength
Single == {<<At(x, y, 0, w)>> : x \in 1 .. MaxLine, y \in Lengths, w \in Lengths}
Double == {<<At(x, y, 0, w), At(x2, y2, w - y, w2)>> :
             x \in 1 .. 2, y \in Lengths, w \in Lengths, x2 \in 1 .. MaxLine, y2 \in {1, MaxLength}, w2 \in {1, 2}}
SomeRecents == {r \in [Files -> {<<>>} \cup Single \cup Double] :
                  /\ \A file \in Files : IsDiff(r[file])
                  /\ r[g] \in {<<>>, <<At(1, 1, 0, 2)>>}}
In(file, n, len) == [file |-> file, n1 |-> n, len1 |-> len, n2 |-> n + 1, len2 |-> len]
Added == [file |-> NewFile, n1 |-> 0, len1 |-> 0, n2 |-> 1, len2 |-> 1]
SomePatches == {<<In(f, n, len), h>> : n \in 1 .. MaxLine, len \in Lengths,
                                        h \in {Added, In(g, 1, 2), In(g, 3, 1), In(f, MaxLine, 1)}}
=============================================================================
