---------------------------- MODULE QuorumSystem ----------------------------
(***************************************************************************)
(* The server together with the programs that call it: the members' client *)
(* (MFAYubiCryptClient/Program.cs), which polls for a challenge, has the   *)
(* YubiKey answer it and posts the answer, and the disk client             *)
(* (MFAYubiCryptHarddrive/.../Program.cs), which sets up an encryption,    *)
(* asks for its key and polls for it.  Nothing fails half-way here: the    *)
(* question is whether a request that the quorum answers comes to an end.  *)
(*                                                                         *)
(* A poll for a challenge (ChallengeBL.GetChallengeForUserId) only reads,  *)
(* in two accesses to redis: the ids, then the entities.                   *)
(***************************************************************************)
EXTENDS QuorumServer

VARIABLE client   \* the poll or the challenge each member has in hand

system == <<vars, client>>
Members == DOMAIN InitialUsers

NoPoll == [step |-> "idle"]
Listed(ids) == [step |-> "listed", ids |-> ids]
Holding(c) == [step |-> "holding", chal |-> c]
Solved(c) == [step |-> "solved", chal |-> c]

ClientGoes(u, j) == client' = [client EXCEPT ![u] = j]

-----------------------------------------------------------------------------
(* The member's client *)

ListChallenges(u) ==
  /\ client[u].step = "idle"
  /\ ClientGoes(u, Listed(DOMAIN challenges))
  /\ UNCHANGED vars

\* The entities of the listed ids that are still there and the member's own.
Mine(u) == {c \in client[u].ids \cap DOMAIN challenges : challenges[c].user = u}

PickChallenge(u) ==
  /\ client[u].step = "listed"
  /\ \/ \E c \in Mine(u) : ClientGoes(u, Holding(c))
     \/ Mine(u) = {} /\ ClientGoes(u, NoPoll)
  /\ UNCHANGED vars

\* YubiKey.GetResponse: an answer, or "Response from Yubikey failed", upon
\* which the member has to run the program again.
YubiKeyAnswers(u) ==
  /\ client[u].step = "holding"
  /\ ClientGoes(u, Solved(client[u].chal))
  /\ UNCHANGED vars

YubiKeyFails(u) ==
  /\ client[u].step = "holding"
  /\ ClientGoes(u, NoPoll)
  /\ UNCHANGED vars

\* The answer is posted; the server ignores one that comes late, when the
\* challenge is gone.
PostAnswer(u) ==
  /\ client[u].step = "solved"
  /\ \/ \E w \in Workers : RespondBegin(w, client[u].chal, users[u].secret)
     \/ client[u].chal \notin DOMAIN challenges /\ UNCHANGED vars
  /\ ClientGoes(u, NoPoll)

-----------------------------------------------------------------------------
(* The disk client *)

\* The users typed in: the first n, for any n (MaxNames bounds it).
FirstNames(n) == [i \in 1 .. n |-> InitialUsers[i].name]

AskSetup ==
  /\ \E w \in Workers, n \in DOMAIN InitialUsers \cap 1 .. MaxNames :
       Setup(w, FirstNames(n))
  /\ UNCHANGED client

\* A bound, not a guard of the code: a request is begun only if there are
\* identifiers left for all its challenges.
IdsLeft(e) ==
  (Cardinality(RequestIds \cap drawn) + 1) * Len(encryptKeys[e]) <= Cardinality(ChallengeIds)

AskDecrypt ==
  /\ \E w \in Workers, e \in EncryptionIds : IdsLeft(e) /\ DecryptBegin(w, e)
  /\ UNCHANGED client

AskKey(r) == /\ \E w \in Workers : GetKeyBegin(w, r)
             /\ UNCHANGED client

-----------------------------------------------------------------------------
\* What a handler does after its first step.
Handle(w) ==
  /\ \/ InsertRow(w) \/ SetupReply(w)
     \/ CreateChallenge(w) \/ StoreRequest(w)
     \/ DeleteChallenge(w) \/ StoreResponse(w)
     \/ CollectResponse(w) \/ ReleaseKey(w) \/ UnlockRefused(w)
  /\ UNCHANGED client

InitSystem == Init /\ client = [u \in Members |-> NoPoll]

Member(u) ==
  \/ ListChallenges(u) \/ PickChallenge(u)
  \/ YubiKeyAnswers(u) \/ YubiKeyFails(u) \/ PostAnswer(u)

NextSystem ==
  \/ \E w \in Workers : Handle(w)
  \/ \E u \in Members : Member(u)
  \/ AskSetup \/ AskDecrypt \/ \E r \in RequestIds : AskKey(r)

\* A handler that runs comes to its end; the host serves each caller sooner or
\* later; each member runs the program again and again, and the YubiKey does
\* not fail every time; the disk client goes on asking for its key.
SpecSystem ==
  /\ InitSystem
  /\ [][NextSystem]_system
  /\ \A w \in Workers : WF_system(Handle(w))
  /\ \A u \in Members :
       /\ WF_system(ListChallenges(u))
       /\ WF_system(PickChallenge(u))
       /\ SF_system(YubiKeyAnswers(u))
       /\ SF_system(PostAnswer(u))
  /\ \A r \in RequestIds : SF_system(AskKey(r))
-----------------------------------------------------------------------------
(* Properties *)

\* The purpose of the system: a stored request is given the key of its
\* encryption once every member runs the client, whichever of the pending
\* challenges a poll returns and however many of them wait for one member.
RequestIsServed ==
  \A r \in RequestIds :
    r \in DOMAIN requests ~>
      r \in DOMAIN requests /\ shaKeys[RequestedEncryption(r)] \in released[r]
=============================================================================
