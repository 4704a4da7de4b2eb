----------------------------- MODULE HardDrive -----------------------------
(***************************************************************************)
(* The disk client of MFAYubiCrypt (MFAYubiCryptHarddrive/.../Program.cs): *)
(* a console program that encrypts a file under the key of a new           *)
(* encryption of the server and, once the quorum has answered, decrypts    *)
(* it again.  It keeps the ids of its encryptions in memory only.          *)
(*                                                                         *)
(* A step is what the program does between two moments at which it waits   *)
(* (for a key press, the server or the disk) or at which its end would     *)
(* leave something half-done.  The server is external: a setup gives a     *)
(* fresh encryption, a poll gives nothing, the encryption's key or, after  *)
(* a wrong answer of a member, another one.                                *)
(*                                                                         *)
(* A file's content is a body under a stack of keys: Encrypt pushes one.   *)
(* An encryption id stands for its ShaKeys as well.  Bodies are taken not  *)
(* to be base64 by themselves, as ciphertexts are.                         *)
(***************************************************************************)
EXTENDS Integers, Sequences, SequencesExt

CONSTANTS
  Files,          \* the files of the working directory, and their texts
  BinaryFiles,    \* those that are not UTF-8 text
  EncryptionIds,  \* encryptions the server may set up
  WrongKeys,      \* keys of requests that a member answered wrongly
  Noise,          \* a body that means nothing: wrongly decoded or decrypted
  Nothing         \* the empty body

ASSUME FilesAssumption == BinaryFiles \subseteq Files
ASSUME BodiesAssumption == Noise \notin Files /\ Nothing \notin Files /\ Noise # Nothing
ASSUME KeysAssumption == WrongKeys \cap EncryptionIds = {}

VARIABLES
  files,      \* the content of each file
  ids,        \* encryptionIds of Main: what was encrypted under which id
  doing,      \* where the program is, with its local variables
  drawn,      \* encryptions set up so far
  harmed,     \* history: files cut short, encrypted twice or given a wrong key
  forgotten   \* history: encryptions of a program that has ended

vars == <<files, ids, doing, drawn, harmed, forgotten>>
history == <<harmed, forgotten>>
-----------------------------------------------------------------------------
(* Contents *)

Keys == EncryptionIds \cup WrongKeys
Bodies == Files \cup {Noise, Nothing}
Content == [body : Bodies, layers : Seq(Keys)]
Plain(body) == [body |-> body, layers |-> <<>>]

Encrypt(c, key) == [c EXCEPT !.layers = Append(@, key)]

\* What Decrypt may return.  It throws on what is not base64, so nothing; a
\* wrong key gives the empty string (bad padding) or noise.
Decrypt(c, key) ==
  CASE c.layers = <<>> -> IF c.body = Nothing THEN {c} ELSE {}
    [] c.layers # <<>> /\ Last(c.layers) = key -> {[c EXCEPT !.layers = Front(@)]}
    [] OTHER -> {Plain(Nothing), Plain(Noise)}

\* StreamReader decodes UTF-8 and replaces what it cannot decode.
ReadToEnd(f) ==
  IF files[f] = Plain(f) /\ f \in BinaryFiles THEN Plain(Noise) ELSE files[f]

-----------------------------------------------------------------------------
(* What the program is doing *)

Menu == [step |-> "menu"]
Choose(e) == [step |-> "choose", enc |-> e]
Seal(f, e, out) == [step |-> "seal", file |-> f, enc |-> e, out |-> out]
Remember(f, e) == [step |-> "remember", file |-> f, enc |-> e]
Poll(f, e) == [step |-> "poll", file |-> f, enc |-> e]
Open(f, out) == [step |-> "open", file |-> f, out |-> out]
Over == [step |-> "over"]

At(step) == doing.step = step

\* Opening the StreamWriter empties the file; its text is written when the
\* writer is disposed.
Truncate(f) == files' = [files EXCEPT ![f] = Plain(Nothing)]
WriteOut == files' = [files EXCEPT ![doing.file] = doing.out]

-----------------------------------------------------------------------------
(* SetupFileWithEncryption *)

PostSetup ==
  /\ At("menu")
  /\ \E e \in EncryptionIds \ drawn :
       /\ drawn' = drawn \cup {e}
       /\ doing' = Choose(e)
  /\ UNCHANGED <<files, ids, history>>

EncryptFile(f) ==
  /\ At("choose")
  /\ doing' = Seal(f, doing.enc, Encrypt(ReadToEnd(f), doing.enc))
  /\ Truncate(f)
  /\ harmed' = IF files[f].layers = <<>> THEN harmed ELSE harmed \cup {f}
  /\ UNCHANGED <<ids, drawn, forgotten>>

WriteEncrypted ==
  /\ At("seal")
  /\ WriteOut
  /\ doing' = Remember(doing.file, doing.enc)
  /\ UNCHANGED <<ids, drawn, history>>

(* A definition whose name ends in an underscore and a word is a faulty    *)
(* variant of the one it precedes: what TLC substitutes to see that a      *)
(* property notices the fault.  Nothing uses it.                           *)

AddId_Swapped ==
  /\ At("remember")
  /\ ids' = Append(ids, <<doing.enc, doing.file>>)
  /\ doing' = Menu
  /\ UNCHANGED <<files, drawn, history>>

AddId_InFront ==
  /\ At("remember")
  /\ ids' = <<<<doing.file, doing.enc>>>> \o ids
  /\ doing' = Menu
  /\ UNCHANGED <<files, drawn, history>>

\* The trial decryption decides nothing; Main adds the pair that is returned.
AddId ==
  /\ At("remember")
  /\ ids' = Append(ids, <<doing.file, doing.enc>>)
  /\ doing' = Menu
  /\ UNCHANGED <<files, drawn, history>>

-----------------------------------------------------------------------------
(* DecryptFile *)

IdsOf(f) == {i \in DOMAIN ids : ids[i][1] = f}

LastIdOf_First(f) == {i \in IdsOf(f) : \A j \in IdsOf(f) : i <= j}

\* The loop over encryptionIds keeps the last pair of the file (if any).
LastIdOf(f) == {i \in IdsOf(f) : \A j \in IdsOf(f) : j <= i}

PostDecrypt(f) ==
  /\ At("menu")
  /\ \E i \in LastIdOf(f) : doing' = Poll(f, ids[i][2])
  /\ UNCHANGED <<files, ids, drawn, history>>

\* A poll that finds a key.  (One that finds none changes nothing, one that
\* fails ends the program; so does a content that is not base64.)
ReceiveKey(key) ==
  /\ At("poll")
  /\ key \in {doing.enc} \cup WrongKeys
  /\ \E out \in Decrypt(ReadToEnd(doing.file), key) : doing' = Open(doing.file, out)
  /\ Truncate(doing.file)
  /\ harmed' = IF key = doing.enc THEN harmed ELSE harmed \cup {doing.file}
  /\ UNCHANGED <<ids, drawn, forgotten>>

WriteDecrypted ==
  /\ At("open")
  /\ WriteOut
  /\ doing' = Menu
  /\ UNCHANGED <<ids, drawn, history>>

-----------------------------------------------------------------------------
\* An exception nobody catches, or the user or the machine ends the program.
Ends ==
  /\ ~ At("over")
  /\ doing' = Over
  /\ ids' = <<>>
  /\ forgotten' = drawn
  /\ harmed' = IF At("seal") \/ At("open") THEN harmed \cup {doing.file} ELSE harmed
  /\ UNCHANGED <<files, drawn>>

Main ==
  /\ At("over")
  /\ doing' = Menu
  /\ UNCHANGED <<files, ids, drawn, history>>

Init ==
  /\ files = [f \in Files |-> Plain(f)]
  /\ ids = <<>>
  /\ doing = Menu
  /\ drawn = {}
  /\ harmed = {}
  /\ forgotten = {}

Next ==
  \/ PostSetup
  \/ \E f \in Files : EncryptFile(f)
  \/ WriteEncrypted
  \/ AddId
  \/ \E f \in Files : PostDecrypt(f)
  \/ \E key \in Keys : ReceiveKey(key)
  \/ WriteDecrypted
  \/ Ends
  \/ Main

Spec == Init /\ [][Next]_vars
-----------------------------------------------------------------------------
(* Properties *)

Doing ==
  {Menu, Over}
  \cup [step : {"choose"}, enc : EncryptionIds]
  \cup [step : {"seal"}, file : Files, enc : EncryptionIds, out : Content]
  \cup [step : {"remember", "poll"}, file : Files, enc : EncryptionIds]
  \cup [step : {"open"}, file : Files, out : Content]

\* The values of the program's variables and of the disk.
TypeOK ==
  /\ files \in [Files -> Content]
  /\ ids \in Seq(Files \X EncryptionIds)
  /\ doing \in Doing
  /\ drawn \subseteq EncryptionIds
  /\ harmed \subseteq Files
  /\ forgotten \subseteq EncryptionIds

Writing(f) == (At("seal") \/ At("open")) /\ doing.file = f
OnItsWay(f) == IF Writing(f) THEN doing.out ELSE files[f]

\* However often a text file is encrypted and decrypted, under however many
\* encryptions and through ends of the program, its text is never lost unless
\* the program ended while writing it, it was encrypted while encrypted, or
\* the server delivered a wrong key.  DecryptFile overwrites the file with
\* whatever Decrypt returns, so each key it uses has to be the right one.
TextKept ==
  \A f \in Files \ (harmed \cup BinaryFiles) : OnItsWay(f).body = f

\* An encrypted file can be decrypted: the pair DecryptFile will pick is that
\* of the file's encryption, or the program is about to add it, unless the
\* program that encrypted it has ended (it takes its ids with it).
IdAtHand ==
  \A f \in Files \ harmed : \A e \in Range(files[f].layers) \ forgotten :
    \/ doing = Remember(f, e)
    \/ \E i \in LastIdOf(f) : ids[i][2] = e

\* A file SetupFileWithEncryption has encrypted can be decrypted to what it
\* was, as its trial decryption is said to check.
CanBeDecrypted ==
  \A f \in Files \ harmed : files[f].layers # <<>> => files[f].body = f

-----------------------------------------------------------------------------
(* The inductive invariant behind TextKept and IdAtHand *)

\* The key of f's only layer is where the program will find it, or is lost
\* with every id the file had.
KeyKept(f, e) ==
  \/ At("seal") /\ doing.file = f /\ doing.enc = e
  \/ doing = Remember(f, e)
  \/ e \in forgotten /\ IdsOf(f) = {}
  \/ \E i \in LastIdOf(f) : ids[i][2] = e

OneLayer ==
  \A f \in Files \ harmed : OnItsWay(f).layers # <<>> =>
    \E e \in drawn : OnItsWay(f).layers = <<e>> /\ KeyKept(f, e)

\* What the local variables say of the file in hand, and the ids of drawn.
LocalsRight ==
  /\ At("choose") => doing.enc \in drawn
  /\ At("seal") => doing.file \in harmed \/ (doing.enc \in drawn /\ doing.out.layers = <<doing.enc>>)
  /\ At("remember") => doing.file \in harmed \/ files[doing.file].layers = <<doing.enc>>
  /\ At("poll") => doing.file \in harmed \/ files[doing.file].layers \in {<<>>, <<doing.enc>>}
  /\ At("seal") \/ At("open") => files[doing.file] = Plain(Nothing)

\* Every reachable state satisfies this, and every step keeps it: a file that
\* was not harmed has at most one layer, and its key is where LastIdOf looks.
IInv == TypeOK /\ TextKept /\ OneLayer /\ LocalsRight
=============================================================================
