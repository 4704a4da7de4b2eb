-------------------------- MODULE HardDriveProofs --------------------------
(***************************************************************************)
(* Proofs about HardDrive, for any files and encryptions.                  *)
(***************************************************************************)
EXTENDS HardDrive, TLAPS

USE FilesAssumption, BodiesAssumption, KeysAssumption

\* The step of the program tells which locals it has.
LEMMA Locals ==
  ASSUME TypeOK
  PROVE  /\ At("choose") => doing = Choose(doing.enc) /\ doing.enc \in EncryptionIds
         /\ At("seal") => /\ doing = Seal(doing.file, doing.enc, doing.out)
                          /\ doing.file \in Files
                          /\ doing.enc \in EncryptionIds
                          /\ doing.out \in Content
         /\ At("remember") => /\ doing = Remember(doing.file, doing.enc)
                              /\ doing.file \in Files
                              /\ doing.enc \in EncryptionIds
         /\ At("poll") => /\ doing = Poll(doing.file, doing.enc)
                          /\ doing.file \in Files
                          /\ doing.enc \in EncryptionIds
         /\ At("open") => /\ doing = Open(doing.file, doing.out)
                          /\ doing.file \in Files
                          /\ doing.out \in Content
BY DEF TypeOK, Doing, At, Menu, Over, Choose, Seal, Remember, Poll, Open

\* The steps a program goes to are steps of it.
LEMMA JobsAreTyped ==
  ASSUME NEW f \in Files, NEW e \in EncryptionIds, NEW c \in Content
  PROVE  /\ {Menu, Over, Choose(e), Remember(f, e), Poll(f, e)} \subseteq Doing
         /\ {Seal(f, e, c), Open(f, c)} \subseteq Doing
BY DEF Doing, Menu, Over, Choose, Seal, Remember, Poll, Open

\* Contents stay contents, whatever is read, encrypted or decrypted.
LEMMA PlainType ==
  ASSUME NEW b \in Bodies
  PROVE  Plain(b) \in Content
BY DEF Plain, Content

LEMMA EncryptType ==
  ASSUME NEW c \in Content, NEW k \in Keys
  PROVE  /\ Encrypt(c, k) \in Content
         /\ Encrypt(c, k).body = c.body
         /\ c.layers = <<>> => Encrypt(c, k).layers = <<k>>
<1>1. c.layers \in Seq(Keys) /\ Append(c.layers, k) \in Seq(Keys)
  BY DEF Content
<1>2. Encrypt(c, k) \in Content /\ Encrypt(c, k).body = c.body
  BY <1>1 DEF Encrypt, Content
<1>3. Encrypt(c, k).layers = Append(c.layers, k)
  BY DEF Encrypt, Content
<1>4. Append(<<>>, k) = <<k>>
  OBVIOUS
<1>5. QED
  BY <1>2, <1>3, <1>4

LEMMA DecryptType ==
  ASSUME NEW c \in Content, NEW k \in Keys
  PROVE  Decrypt(c, k) \subseteq Content
<1>1. c.layers # <<>> => Front(c.layers) \in Seq(Keys)
  BY DEF Front, Content
<1>2. c.layers # <<>> => [c EXCEPT !.layers = Front(@)] \in Content
  BY <1>1 DEF Content
<1>3. {Plain(Nothing), Plain(Noise)} \subseteq Content
  BY PlainType DEF Bodies
<1>4. CASE c.layers = <<>>
  BY <1>4 DEF Decrypt
<1>5. CASE c.layers # <<>> /\ Last(c.layers) = k
  BY <1>2, <1>5 DEF Decrypt
<1>6. CASE c.layers # <<>> /\ Last(c.layers) # k
  BY <1>3, <1>6 DEF Decrypt
<1>7. QED
  BY <1>4, <1>5, <1>6

\* The right key takes the one layer off and leaves the body; what has no
\* layer is never decrypted to anything but itself.
LEMMA DecryptRight ==
  ASSUME NEW c \in Content, NEW k \in Keys, NEW d \in Decrypt(c, k),
         c.layers \in {<<>>, <<k>>}
  PROVE  d.layers = <<>> /\ d.body = c.body
<1>1. CASE c.layers = <<>>
  BY <1>1 DEF Decrypt
<1>2. CASE c.layers = <<k>>
  <2>1. c.layers # <<>> /\ Last(c.layers) = k
    BY <1>2 DEF Last
  <2>2. d = [c EXCEPT !.layers = Front(@)]
    BY <2>1 DEF Decrypt
  <2>3. Front(<<k>>) = <<>>
    BY DEF Front
  <2>4. QED
    BY <1>2, <2>2, <2>3 DEF Content
<1>3. QED
  BY <1>1, <1>2

LEMMA ReadType ==
  ASSUME TypeOK, NEW f \in Files
  PROVE  /\ ReadToEnd(f) \in Content
         /\ ReadToEnd(f).layers = files[f].layers
         /\ f \notin BinaryFiles => ReadToEnd(f) = files[f]
<1>1. Plain(Noise) \in Content /\ Plain(Noise).layers = <<>> /\ Plain(f).layers = <<>>
  BY PlainType DEF Bodies, Plain
<1>2. QED
  BY <1>1 DEF ReadToEnd, TypeOK

-----------------------------------------------------------------------------
(* Type correctness *)

LEMMA TypeStep ==
  ASSUME TypeOK, [Next]_vars
  PROVE  TypeOK'
<1> USE DEF history
<1>1. Plain(Nothing) \in Content
  BY PlainType DEF Bodies
<1>2. EncryptionIds \subseteq Keys
  BY DEF Keys
<1>3. CASE PostSetup
  <2>1. PICK e \in EncryptionIds : drawn' = drawn \cup {e} /\ doing' = Choose(e)
    BY <1>3 DEF PostSetup
  <2>2. Choose(e) \in Doing
    BY DEF Doing, Choose
  <2>3. QED
    BY <1>3, <2>1, <2>2 DEF PostSetup, TypeOK
<1>4. ASSUME NEW f \in Files, EncryptFile(f)
      PROVE  TypeOK'
  <2>1. doing.enc \in EncryptionIds
    BY <1>4, Locals DEF EncryptFile
  <2>2. Encrypt(ReadToEnd(f), doing.enc) \in Content
    BY <2>1, <1>2, ReadType, EncryptType
  <2>3. doing' \in Doing
    BY <1>4, <2>1, <2>2, JobsAreTyped DEF EncryptFile
  <2>4. harmed' \subseteq Files
    BY <1>4 DEF EncryptFile, TypeOK
  <2>5. QED
    BY <1>1, <1>4, <2>3, <2>4 DEF EncryptFile, Truncate, TypeOK
<1>5. CASE WriteEncrypted
  <2>1. /\ doing.file \in Files
        /\ doing.enc \in EncryptionIds
        /\ doing.out \in Content
    BY <1>5, Locals DEF WriteEncrypted
  <2>2. doing' \in Doing
    BY <1>5, <2>1, JobsAreTyped DEF WriteEncrypted
  <2>3. QED
    BY <1>5, <2>1, <2>2 DEF WriteEncrypted, WriteOut, TypeOK
<1>6. CASE AddId
  <2>1. doing.file \in Files /\ doing.enc \in EncryptionIds
    BY <1>6, Locals DEF AddId
  <2>2. ids' \in Seq(Files \X EncryptionIds)
    BY <1>6, <2>1 DEF AddId, TypeOK
  <2>3. doing' \in Doing
    BY <1>6 DEF AddId, Doing
  <2>4. QED
    BY <1>6, <2>2, <2>3 DEF AddId, TypeOK
<1>7. ASSUME NEW f \in Files, PostDecrypt(f)
      PROVE  TypeOK'
  <2>1. PICK i \in DOMAIN ids : doing' = Poll(f, ids[i][2])
    BY <1>7 DEF PostDecrypt, LastIdOf, IdsOf
  <2>2. ids[i][2] \in EncryptionIds
    BY DEF TypeOK
  <2>3. doing' \in Doing
    BY <2>1, <2>2 DEF Doing, Poll
  <2>4. QED
    BY <1>7, <2>3 DEF PostDecrypt, TypeOK
<1>8. ASSUME NEW key \in Keys, ReceiveKey(key)
      PROVE  TypeOK'
  <2>1. doing.file \in Files
    BY <1>8, Locals DEF ReceiveKey
  <2>2. PICK out \in Decrypt(ReadToEnd(doing.file), key) : doing' = Open(doing.file, out)
    BY <1>8 DEF ReceiveKey
  <2>3. out \in Content
    BY <2>1, ReadType, DecryptType
  <2>4. doing' \in Doing
    BY <2>1, <2>2, <2>3 DEF Doing, Open
  <2>5. harmed' \subseteq Files
    BY <1>8, <2>1 DEF ReceiveKey, TypeOK
  <2>6. QED
    BY <1>1, <1>8, <2>4, <2>5 DEF ReceiveKey, Truncate, TypeOK
<1>9. CASE WriteDecrypted
  <2>1. doing.file \in Files /\ doing.out \in Content
    BY <1>9, Locals DEF WriteDecrypted
  <2>2. QED
    BY <1>9, <2>1 DEF WriteDecrypted, WriteOut, TypeOK, Doing
<1>10. CASE Ends
  <2>1. harmed' \subseteq Files
    BY <1>10, Locals DEF Ends, TypeOK
  <2>2. QED
    BY <1>10, <2>1 DEF Ends, TypeOK, Doing
<1>11. CASE Main
  BY <1>11 DEF Main, TypeOK, Doing
<1>12. CASE UNCHANGED vars
  BY <1>12 DEF vars, TypeOK
<1>13. QED
  BY <1>3, <1>4, <1>5, <1>6, <1>7, <1>8, <1>9, <1>10, <1>11, <1>12 DEF Next

-----------------------------------------------------------------------------
(* The locals fit the file in hand *)

LEMMA LocalsStep ==
  ASSUME IInv, [Next]_vars
  PROVE  LocalsRight'
<1> USE DEF history
<1>1. TypeOK /\ OneLayer /\ LocalsRight
  BY DEF IInv
<1>2. CASE PostSetup
  BY <1>2 DEF PostSetup, LocalsRight, At, Choose
<1>3. ASSUME NEW f \in Files, EncryptFile(f)
      PROVE  LocalsRight'
  <2>1. doing.enc \in EncryptionIds /\ doing.enc \in drawn
    BY <1>1, <1>3, Locals DEF EncryptFile, LocalsRight
  <2>2. doing.enc \in Keys
    BY <2>1 DEF Keys
  <2>3. f \in harmed' \/ Encrypt(ReadToEnd(f), doing.enc).layers = <<doing.enc>>
    BY <1>1, <1>3, <2>2, ReadType, EncryptType DEF EncryptFile
  <2>4. files'[f] = Plain(Nothing)
    BY <1>1, <1>3 DEF EncryptFile, Truncate, TypeOK
  <2>5. QED
    BY <1>3, <2>1, <2>3, <2>4 DEF EncryptFile, LocalsRight, At, Seal
<1>4. CASE WriteEncrypted
  <2>1. doing.file \in Files /\ files'[doing.file] = doing.out
    BY <1>1, <1>4, Locals DEF WriteEncrypted, WriteOut, TypeOK
  <2>2. doing.file \in harmed \/ doing.out.layers = <<doing.enc>>
    BY <1>1, <1>4 DEF WriteEncrypted, LocalsRight
  <2>3. QED
    BY <1>4, <2>1, <2>2 DEF WriteEncrypted, LocalsRight, At, Remember
<1>5. CASE AddId
  BY <1>5 DEF AddId, LocalsRight, At, Menu
<1>6. ASSUME NEW f \in Files, PostDecrypt(f)
      PROVE  LocalsRight'
  <2>1. PICK i \in LastIdOf(f) : doing' = Poll(f, ids[i][2])
    BY <1>6 DEF PostDecrypt
  <2>2. OnItsWay(f) = files[f] /\ doing.step = "menu"
    BY <1>6 DEF PostDecrypt, OnItsWay, Writing, At
  <2>3. f \in harmed \/ files[f].layers \in {<<>>, <<ids[i][2]>>}
    <3>1. SUFFICES ASSUME f \notin harmed, files[f].layers # <<>>
                   PROVE  files[f].layers = <<ids[i][2]>>
      OBVIOUS
    <3>2. PICK e \in drawn : files[f].layers = <<e>> /\ KeyKept(f, e)
      BY <1>1, <2>2, <3>1 DEF OneLayer
    <3>3. i \in IdsOf(f)
      BY <2>1 DEF LastIdOf
    <3>4. PICK j \in LastIdOf(f) : ids[j][2] = e
      BY <2>2, <3>2, <3>3 DEF KeyKept, At, Remember
    <3>5. j = i
      BY <1>1, <2>1, <3>4 DEF LastIdOf, IdsOf, TypeOK
    <3>6. QED
      BY <3>2, <3>4, <3>5
  <2>4. QED
    BY <1>6, <2>1, <2>3 DEF PostDecrypt, LocalsRight, At, Poll
<1>7. ASSUME NEW key \in Keys, ReceiveKey(key)
      PROVE  LocalsRight'
  <2>1. doing.file \in Files
    BY <1>1, <1>7, Locals DEF ReceiveKey
  <2>2. files'[doing.file] = Plain(Nothing)
    BY <1>1, <1>7, <2>1 DEF ReceiveKey, Truncate, TypeOK
  <2>3. PICK out : doing' = Open(doing.file, out)
    BY <1>7 DEF ReceiveKey
  <2>4. QED
    BY <2>2, <2>3 DEF LocalsRight, At, Open
<1>8. CASE WriteDecrypted
  BY <1>8 DEF WriteDecrypted, LocalsRight, At, Menu
<1>9. CASE Ends
  BY <1>9 DEF Ends, LocalsRight, At, Over
<1>10. CASE Main
  BY <1>10 DEF Main, LocalsRight, At, Menu
<1>11. CASE UNCHANGED vars
  BY <1>1, <1>11 DEF vars, LocalsRight, At
<1>12. QED
  BY <1>2, <1>3, <1>4, <1>5, <1>6, <1>7, <1>8, <1>9, <1>10, <1>11 DEF Next

-----------------------------------------------------------------------------
(* The text survives *)

\* What a step does to what file g is on its way to: nothing, unless it
\* encrypts or decrypts g, or ends the program while it writes g.
LEMMA OnItsWayFacts ==
  ASSUME TypeOK, LocalsRight, [Next]_vars, NEW g \in Files, g \notin harmed'
  PROVE  /\ g \notin harmed
         /\ \/ OnItsWay(g)' = OnItsWay(g)
            \/ /\ EncryptFile(g)
               /\ ~ Writing(g)
               /\ files[g].layers = <<>>
               /\ OnItsWay(g)' = Encrypt(ReadToEnd(g), doing.enc)
            \/ /\ ReceiveKey(doing.enc)
               /\ ~ Writing(g)
               /\ doing.file = g
               /\ OnItsWay(g)' \in Decrypt(ReadToEnd(g), doing.enc)
<1> USE DEF history
<1>1. CASE PostSetup
  BY <1>1 DEF PostSetup, OnItsWay, Writing, At, Choose
<1>2. ASSUME NEW f \in Files, EncryptFile(f)
      PROVE  /\ g \notin harmed
             /\ \/ OnItsWay(g)' = OnItsWay(g)
                \/ /\ EncryptFile(g)
                   /\ ~ Writing(g)
                   /\ files[g].layers = <<>>
                   /\ OnItsWay(g)' = Encrypt(ReadToEnd(g), doing.enc)
  <2>1. ~ Writing(g)
    BY <1>2 DEF EncryptFile, Writing, At
  <2>2. CASE f = g
    BY <1>2, <2>1, <2>2 DEF EncryptFile, OnItsWay, Writing, At, Seal
  <2>3. CASE f # g
    BY <1>2, <2>1, <2>3 DEF EncryptFile, Truncate, OnItsWay, Writing, At, Seal, TypeOK
  <2>4. QED
    BY <2>2, <2>3
<1>3. CASE WriteEncrypted
  BY <1>3, Locals DEF WriteEncrypted, WriteOut, OnItsWay, Writing, At, Remember, TypeOK
<1>4. CASE AddId
  BY <1>4 DEF AddId, OnItsWay, Writing, At, Menu
<1>5. ASSUME NEW f \in Files, PostDecrypt(f)
      PROVE  g \notin harmed /\ OnItsWay(g)' = OnItsWay(g)
  BY <1>5 DEF PostDecrypt, OnItsWay, Writing, At, Poll
<1>6. ASSUME NEW key \in Keys, ReceiveKey(key)
      PROVE  /\ g \notin harmed
             /\ \/ OnItsWay(g)' = OnItsWay(g)
                \/ /\ ReceiveKey(doing.enc)
                   /\ ~ Writing(g)
                   /\ doing.file = g
                   /\ OnItsWay(g)' \in Decrypt(ReadToEnd(g), doing.enc)
  <2>1. ~ Writing(g)
    BY <1>6 DEF ReceiveKey, Writing, At
  <2>2. PICK out \in Decrypt(ReadToEnd(doing.file), key) : doing' = Open(doing.file, out)
    BY <1>6 DEF ReceiveKey
  <2>3. CASE doing.file = g
    <3>1. key = doing.enc /\ g \notin harmed
      BY <1>6, <2>3 DEF ReceiveKey
    <3>2. OnItsWay(g)' = out
      BY <2>2, <2>3 DEF OnItsWay, Writing, At, Open
    <3>3. QED
      BY <1>6, <2>1, <2>2, <2>3, <3>1, <3>2
  <2>4. CASE doing.file # g
    BY <1>6, <2>1, <2>2, <2>4 DEF ReceiveKey, Truncate, OnItsWay, Writing, At, Open, TypeOK
  <2>5. QED
    BY <2>3, <2>4
<1>7. CASE WriteDecrypted
  BY <1>7, Locals DEF WriteDecrypted, WriteOut, OnItsWay, Writing, At, Menu, TypeOK
<1>8. CASE Ends
  BY <1>8 DEF Ends, OnItsWay, Writing, At, Over
<1>9. CASE Main
  BY <1>9 DEF Main, OnItsWay, Writing, At, Menu
<1>10. CASE UNCHANGED vars
  BY <1>10 DEF vars, OnItsWay, Writing, At
<1>11. QED
  BY <1>1, <1>2, <1>3, <1>4, <1>5, <1>6, <1>7, <1>8, <1>9, <1>10 DEF Next

LEMMA TextStep ==
  ASSUME IInv, [Next]_vars
  PROVE  TextKept'
<1>1. TypeOK /\ TextKept /\ OneLayer /\ LocalsRight
  BY DEF IInv
<1>2. SUFFICES ASSUME NEW f \in Files, f \notin harmed', f \notin BinaryFiles
               PROVE  OnItsWay(f)'.body = f
  BY DEF TextKept
<1>3. f \notin harmed /\ OnItsWay(f).body = f
  BY <1>1, <1>2, OnItsWayFacts DEF TextKept
<1>4. ReadToEnd(f) = files[f] /\ files[f] \in Content
  BY <1>1, <1>2, ReadType DEF TypeOK
<1>5. CASE OnItsWay(f)' = OnItsWay(f)
  BY <1>3, <1>5
<1>6. CASE /\ EncryptFile(f)
           /\ ~ Writing(f)
           /\ OnItsWay(f)' = Encrypt(ReadToEnd(f), doing.enc)
  <2>1. doing.enc \in Keys
    BY <1>1, <1>6, Locals DEF EncryptFile, Keys
  <2>2. files[f].body = f
    BY <1>3, <1>6 DEF OnItsWay
  <2>3. QED
    BY <1>4, <1>6, <2>1, <2>2, EncryptType
<1>7. CASE /\ ReceiveKey(doing.enc)
           /\ ~ Writing(f)
           /\ doing.file = f
           /\ OnItsWay(f)' \in Decrypt(ReadToEnd(f), doing.enc)
  <2>1. doing.enc \in Keys
    BY <1>1, <1>7, Locals DEF ReceiveKey, Keys
  <2>2. files[f].body = f
    BY <1>3, <1>7 DEF OnItsWay
  <2>3. files[f].layers \in {<<>>, <<doing.enc>>}
    BY <1>1, <1>3, <1>7 DEF ReceiveKey, LocalsRight
  <2>4. QED
    BY <1>4, <1>7, <2>1, <2>2, <2>3, DecryptRight
<1>8. QED
  BY <1>1, <1>2, <1>5, <1>6, <1>7, OnItsWayFacts

-----------------------------------------------------------------------------
(* The key stays where LastIdOf looks *)

\* The last pair of the list after one is appended.
LEMMA LastIdAppended ==
  ASSUME TypeOK, NEW f \in Files, NEW e \in EncryptionIds, ids' = Append(ids, <<f, e>>)
  PROVE  /\ Len(ids) + 1 \in LastIdOf(f)'
         /\ ids'[Len(ids) + 1][2] = e
         /\ \A g \in Files \ {f} : LastIdOf(g)' = LastIdOf(g)
         /\ \A i \in DOMAIN ids : ids'[i] = ids[i]
<1>1. ids \in Seq(Files \X EncryptionIds) /\ Len(ids) \in Nat
  BY DEF TypeOK
<1>2. DOMAIN ids' = 1 .. Len(ids) + 1
  BY <1>1
<1>3. \A i \in DOMAIN ids : ids'[i] = ids[i]
  BY <1>1
<1>4. ids'[Len(ids) + 1] = <<f, e>>
  BY <1>1
<1>5. Len(ids) + 1 \in LastIdOf(f)'
  BY <1>1, <1>2, <1>4 DEF LastIdOf, IdsOf
<1>6. ASSUME NEW g \in Files \ {f}
      PROVE  LastIdOf(g)' = LastIdOf(g)
  <2>1. IdsOf(g)' = IdsOf(g)
    BY <1>1, <1>2, <1>3, <1>4 DEF IdsOf
  <2>2. QED
    BY <2>1 DEF LastIdOf
<1>7. QED
  BY <1>3, <1>4, <1>5, <1>6

\* A key that is kept stays kept by every step that leaves the file unharmed.
LEMMA KeyKeptStep ==
  ASSUME IInv, [Next]_vars, NEW f \in Files, f \notin harmed', NEW e \in drawn,
         OnItsWay(f).layers = <<e>>, OnItsWay(f)' = OnItsWay(f), KeyKept(f, e)
  PROVE  KeyKept(f, e)'
<1> USE DEF history
<1>1. TypeOK /\ LocalsRight
  BY DEF IInv
<1>2. CASE PostSetup
  BY <1>2 DEF PostSetup, KeyKept, At, Remember, LastIdOf, IdsOf
<1>3. ASSUME NEW g \in Files, EncryptFile(g)
      PROVE  KeyKept(f, e)'
  BY <1>3 DEF EncryptFile, KeyKept, At, Remember, LastIdOf, IdsOf
<1>4. CASE WriteEncrypted
  BY <1>4 DEF WriteEncrypted, KeyKept, At, Remember, LastIdOf, IdsOf
<1>5. CASE AddId
  <2>1. doing = Remember(doing.file, doing.enc) /\ doing.file \in Files
        /\ doing.enc \in EncryptionIds
    BY <1>1, <1>5, Locals DEF AddId
  <2>2. ids' = Append(ids, <<doing.file, doing.enc>>) /\ doing' = Menu
        /\ forgotten' = forgotten
    BY <1>5 DEF AddId
  <2>3. CASE doing.file = f
    <3>1. files[f].layers = <<e>> /\ f \notin harmed
      BY <1>5, <2>3 DEF OnItsWay, Writing, At, AddId
    <3>2. doing.enc = e
      BY <1>1, <1>5, <2>3, <3>1 DEF LocalsRight, AddId
    <3>3. QED
      BY <1>1, <2>1, <2>2, <2>3, <3>2, LastIdAppended DEF KeyKept
  <2>4. CASE doing.file # f
    <3>1. LastIdOf(f)' = LastIdOf(f) /\ \A i \in DOMAIN ids : ids'[i] = ids[i]
      BY <1>1, <2>1, <2>2, <2>4, LastIdAppended
    <3>2. IdsOf(f) = {} => IdsOf(f)' = {}
      BY <1>1, <2>1, <2>2, <2>4 DEF IdsOf, TypeOK
    <3>3. ~ At("seal") /\ doing # Remember(f, e)
      BY <1>5, <2>4 DEF AddId, At, Remember
    <3>4. CASE e \in forgotten /\ IdsOf(f) = {}
      BY <2>2, <3>2, <3>4 DEF KeyKept
    <3>5. ASSUME NEW i \in LastIdOf(f), ids[i][2] = e
          PROVE  KeyKept(f, e)'
      BY <3>1, <3>5 DEF KeyKept, LastIdOf, IdsOf
    <3>6. QED
      BY <3>3, <3>4, <3>5 DEF KeyKept
  <2>5. QED
    BY <2>3, <2>4
<1>6. ASSUME NEW g \in Files, PostDecrypt(g)
      PROVE  KeyKept(f, e)'
  BY <1>6 DEF PostDecrypt, KeyKept, At, Remember, LastIdOf, IdsOf
<1>7. ASSUME NEW key \in Keys, ReceiveKey(key)
      PROVE  KeyKept(f, e)'
  BY <1>7 DEF ReceiveKey, KeyKept, At, Remember, LastIdOf, IdsOf
<1>8. CASE WriteDecrypted
  BY <1>8 DEF WriteDecrypted, KeyKept, At, Remember, LastIdOf, IdsOf
<1>9. CASE Ends
  <2>1. IdsOf(f)' = {} /\ e \in forgotten'
    BY <1>9 DEF Ends, IdsOf
  <2>2. QED
    BY <2>1 DEF KeyKept
<1>10. CASE Main
  BY <1>10 DEF Main, KeyKept, At, Remember, Over, LastIdOf, IdsOf
<1>11. CASE UNCHANGED vars
  BY <1>11 DEF vars, KeyKept, At, Remember, LastIdOf, IdsOf
<1>12. QED
  BY <1>2, <1>3, <1>4, <1>5, <1>6, <1>7, <1>8, <1>9, <1>10, <1>11 DEF Next

LEMMA LayerStep ==
  ASSUME IInv, [Next]_vars
  PROVE  OneLayer'
<1> USE DEF history
<1>1. TypeOK /\ OneLayer /\ LocalsRight
  BY DEF IInv
<1>2. SUFFICES ASSUME NEW f \in Files, f \notin harmed', OnItsWay(f)'.layers # <<>>
               PROVE  \E e \in drawn' : OnItsWay(f)'.layers = <<e>> /\ KeyKept(f, e)'
  BY DEF OneLayer
<1>3. f \notin harmed
  BY <1>1, <1>2, OnItsWayFacts
<1>4. drawn \subseteq drawn'
  BY DEF Next, PostSetup, EncryptFile, WriteEncrypted, AddId, PostDecrypt, ReceiveKey,
         WriteDecrypted, Ends, Main, vars
<1>5. CASE OnItsWay(f)' = OnItsWay(f)
  <2>1. PICK e \in drawn : OnItsWay(f).layers = <<e>> /\ KeyKept(f, e)
    BY <1>1, <1>2, <1>3, <1>5 DEF OneLayer
  <2>2. KeyKept(f, e)'
    BY <1>2, <1>5, <2>1, KeyKeptStep
  <2>3. QED
    BY <1>4, <1>5, <2>1, <2>2
<1>6. CASE /\ EncryptFile(f)
           /\ files[f].layers = <<>>
           /\ OnItsWay(f)' = Encrypt(ReadToEnd(f), doing.enc)
  <2>1. PICK e \in drawn : e = doing.enc
    BY <1>1, <1>6 DEF EncryptFile, LocalsRight
  <2>2. e \in Keys
    BY <1>1, <1>6, <2>1, Locals DEF EncryptFile, Keys
  <2>3. OnItsWay(f)'.layers = <<e>>
    BY <1>1, <1>6, <2>1, <2>2, ReadType, EncryptType
  <2>4. KeyKept(f, e)'
    BY <1>6, <2>1 DEF EncryptFile, KeyKept, At, Seal
  <2>5. QED
    BY <1>4, <2>3, <2>4
<1>7. CASE /\ ReceiveKey(doing.enc)
           /\ doing.file = f
           /\ OnItsWay(f)' \in Decrypt(ReadToEnd(f), doing.enc)
  <2>1. doing.enc \in Keys
    BY <1>1, <1>7, Locals DEF ReceiveKey, Keys
  <2>2. files[f].layers \in {<<>>, <<doing.enc>>}
    BY <1>1, <1>3, <1>7 DEF ReceiveKey, LocalsRight
  <2>3. OnItsWay(f)'.layers = <<>>
    BY <1>1, <1>7, <2>1, <2>2, ReadType, DecryptRight
  <2>4. QED
    BY <1>2, <2>3
<1>8. QED
  BY <1>1, <1>2, <1>5, <1>6, <1>7, OnItsWayFacts

-----------------------------------------------------------------------------
(* Theorems *)

LEMMA InitInvariant ==
  ASSUME Init
  PROVE  IInv
<1>1. \A f \in Files : Plain(f) \in Content
  BY PlainType DEF Bodies
<1>2. TypeOK
  BY <1>1 DEF Init, TypeOK, Doing
<1>3. TextKept /\ OneLayer /\ LocalsRight
  BY DEF Init, TextKept, OneLayer, LocalsRight, OnItsWay, Writing, At, Menu, Plain
<1>4. QED
  BY <1>2, <1>3 DEF IInv

\* The inductive invariant: an unharmed file has at most one layer, the key of
\* the encryption whose pair is the file's last (Program.cs, Main).
THEOREM Invariance == Spec => []IInv
<1>1. IInv /\ [Next]_vars => IInv'
  BY TypeStep, TextStep, LayerStep, LocalsStep DEF IInv
<1>2. QED
  BY <1>1, InitInvariant, PTL DEF Spec

\* The program's variables and the files keep to their types.
THEOREM TypeCorrect == Spec => []TypeOK
<1>1. IInv => TypeOK
  BY DEF IInv
<1>2. QED
  BY <1>1, Invariance, PTL

\* DecryptFile and SetupFileWithEncryption lose no text of a file that was not
\* cut short, encrypted twice or given a wrong key, whatever ends and restarts.
THEOREM TextIsKept == Spec => []TextKept
<1>1. IInv => TextKept
  BY DEF IInv
<1>2. QED
  BY <1>1, Invariance, PTL

\* The pair DecryptFile picks for an encrypted file is that of the encryption
\* the file is under, while the program that encrypted it runs.
THEOREM IdIsAtHand == Spec => []IdAtHand
<1>1. IInv => IdAtHand
  <2>1. SUFFICES ASSUME IInv, NEW f \in Files, f \notin harmed,
                        NEW e \in Range(files[f].layers), e \notin forgotten
                 PROVE  doing = Remember(f, e) \/ \E i \in LastIdOf(f) : ids[i][2] = e
    BY DEF IdAtHand
  <2>2. TypeOK /\ OneLayer /\ LocalsRight
    BY <2>1 DEF IInv
  <2>3. files[f].layers # <<>>
    BY <2>1 DEF Range
  <2>4. ~ Writing(f)
    BY <2>2, <2>3 DEF LocalsRight, Writing, Plain
  <2>5. PICK d \in drawn : files[f].layers = <<d>> /\ KeyKept(f, d)
    BY <2>1, <2>2, <2>3, <2>4 DEF OneLayer, OnItsWay
  <2>6. d = e
    BY <2>5 DEF Range
  <2>7. QED
    BY <2>1, <2>4, <2>5, <2>6 DEF KeyKept, Writing
<1>2. QED
  BY <1>1, Invariance, PTL
=============================================================================
