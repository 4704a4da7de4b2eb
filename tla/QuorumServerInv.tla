-------------------------- MODULE QuorumServerInv --------------------------
(***************************************************************************)
(* The inductive invariant behind the safety of QuorumServer: what the     *)
(* handlers' locals say about the stores between two accesses.             *)
(***************************************************************************)
EXTENDS QuorumServer

\* Row i of encryption e, as Setup computes it for a user of the table.
IsRow(row, e, i) ==
  /\ row.user \in DOMAIN users
  /\ row.plain = <<e, i>>
  /\ row.password = HMACSHA1(GenerateChallenge(e, row.user), users[row.user].secret)

RowsRight ==
  \A e \in EncryptionIds : \A i \in DOMAIN encryptKeys[e] : IsRow(encryptKeys[e][i], e, i)

\* Nothing mentions a Guid that has not been drawn.
DrawnFirst ==
  /\ \A e \in EncryptionIds : encryptKeys[e] # <<>> => e \in drawn
  /\ DOMAIN shaKeys \cup DOMAIN requests \cup DOMAIN issued \subseteq drawn
  /\ \A w \in Workers : At(w, "insert") => job[w].enc \in drawn
  /\ \A w \in Workers : At(w, "issue") => job[w].req \in drawn

\* A Setup owns its EncryptionId until it replies, and has stored a prefix.
InsertOwned(w) ==
  /\ job[w].enc \notin DOMAIN shaKeys
  /\ job[w].rows # <<>>
  /\ job[w].done \in 0 .. Len(job[w].rows)
  /\ Len(encryptKeys[job[w].enc]) = job[w].done
  /\ \A i \in 1 .. job[w].done : encryptKeys[job[w].enc][i] = job[w].rows[i]
  /\ \A i \in DOMAIN job[w].rows : IsRow(job[w].rows[i], job[w].enc, i)
  /\ \A v \in Workers \ {w} : At(v, "insert") => job[v].enc # job[w].enc

InsertsOwned == \A w \in Workers : At(w, "insert") => InsertOwned(w)

\* The challenges cs were issued, in order, for the first rows of e.
Issued(cs, e) ==
  \A i \in DOMAIN cs : cs[i] \in DOMAIN issued /\ issued[cs[i]].row = <<e, i>>

\* A Decrypt owns its request id until the request is stored.
IssueRight(w) ==
  /\ job[w].enc \in DOMAIN shaKeys
  /\ job[w].rows = encryptKeys[job[w].enc]
  /\ job[w].req \notin DOMAIN requests
  /\ Len(job[w].chals) <= Len(job[w].rows)
  /\ Issued(job[w].chals, job[w].enc)
  /\ \A v \in Workers \ {w} : At(v, "issue") => job[v].req # job[w].req

IssuesRight == \A w \in Workers : At(w, "issue") => IssueRight(w)

RequestsRight ==
  \A r \in DOMAIN requests :
    \E e \in DOMAIN shaKeys :
      Len(requests[r]) = Len(encryptKeys[e]) /\ Issued(requests[r], e)

\* Every challenge is one for a stored row of a told encryption.
IssuedRight ==
  \A c \in DOMAIN issued :
    \E e \in DOMAIN shaKeys : \E i \in DOMAIN encryptKeys[e] :
      issued[c] = ChallengeEntity(encryptKeys[e][i], <<e, i>>)

PendingRight ==
  \A c \in DOMAIN challenges : c \in DOMAIN issued /\ challenges[c] = issued[c]

RespondsRight ==
  \A w \in Workers : job[w].step \in {"delete", "store"} =>
    job[w].chal \in DOMAIN issued /\ job[w].row = issued[job[w].chal].row

IsResponse(response, c) ==
  /\ c \in DOMAIN issued
  /\ response.row = issued[c].row
  /\ <<c, response.key>> \in answered

ResponsesRight == \A c \in DOMAIN responses : IsResponse(responses[c], c)

CollectRight(w) ==
  /\ job[w].req \in DOMAIN requests
  /\ job[w].chals = requests[job[w].req]
  /\ Len(job[w].got) <= Len(job[w].chals)
  /\ \A i \in DOMAIN job[w].got : IsResponse(job[w].got[i], job[w].chals[i])

CollectsRight == \A w \in Workers : At(w, "collect") => CollectRight(w)

\* A returned key is, row by row, what an answer to the request has unlocked.
KeyExplained(key, c, e, i) ==
  \/ key = <<e, i>> /\ <<c, RightAnswer(e, i)>> \in answered
  \/ /\ key = Garbage
     /\ \E a \in answered : a[1] = c /\ a[2] # RightAnswer(e, i)

ReleasedRight ==
  \A r \in RequestIds : \A keys \in released[r] :
    /\ r \in DOMAIN requests
    /\ Len(keys) = Len(requests[r])
    /\ \A i \in DOMAIN keys :
         KeyExplained(keys[i], requests[r][i], RequestedEncryption(r), i)

IInv ==
  /\ TypeOK
  /\ RowsRight
  /\ DrawnFirst
  /\ InsertsOwned
  /\ SetupComplete
  /\ IssuesRight
  /\ RequestsRight
  /\ IssuedRight
  /\ PendingRight
  /\ RespondsRight
  /\ ResponsesRight
  /\ CollectsRight
  /\ ReleasedRight

-----------------------------------------------------------------------------
(* What holds of every reachable state as well, given IInv.                *)

\* A challenge is asked in one request, of those that are stored and those
\* that a Decrypt is about to store.
Apart(cs, ds) == \A i \in DOMAIN cs : \A j \in DOMAIN ds : cs[i] # ds[j]

AskedOnce ==
  /\ \A r, s \in DOMAIN requests : r # s => Apart(requests[r], requests[s])
  /\ \A w \in Workers : At(w, "issue") =>
       /\ \A r \in DOMAIN requests : Apart(job[w].chals, requests[r])
       /\ \A v \in Workers \ {w} : At(v, "issue") => Apart(job[w].chals, job[v].chals)

\* What a responder is about to store is no longer pending.
StoredGone ==
  /\ AnsweredNotPending
  /\ \A w \in Workers : At(w, "store") => job[w].chal \notin DOMAIN challenges

\* A quorum has no more members than a setup may name.
SizesBounded ==
  /\ \A e \in DOMAIN shaKeys : Len(shaKeys[e]) <= MaxNames
  /\ \A w \in Workers : At(w, "insert") => Len(job[w].rows) <= MaxNames

AccessInv == AskedOnce /\ StoredGone /\ SizesBounded

\* A setup that is still inserting has found the users named, too.
NamesRight ==
  /\ DOMAIN quorum = DOMAIN shaKeys
  /\ NamedUsersEnrolled
  /\ \A w \in Workers : At(w, "insert") => Enrols(job[w].rows, job[w].names)

\* What no step undoes: what is told, and that an answer was given.
Growth == StoresGrow /\ answered \subseteq answered'
=============================================================================
