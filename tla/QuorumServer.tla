---------------------------- MODULE QuorumServer ----------------------------
(***************************************************************************)
(* The MFAYubiCrypt server (MFAYubiCryptServer/MFAYubiCryptServer): the    *)
(* HTTP handlers of YubiCryptService.cs with the logic they call           *)
(* (UserBL.cs, EncryptionBL.cs, ChallengeBL.cs) over the two stores they   *)
(* share, MySQL (Misc/db.sql) and redis.                                   *)
(*                                                                         *)
(* Requests run concurrently, one per worker thread.  A handler is one     *)
(* action per access to a store that another handler could interleave      *)
(* with; the record job[w] is what worker w holds in its local variables   *)
(* between two accesses.  A handler that throws, or whose connection to a  *)
(* store fails, stops where it is and leaves the stores as they are        *)
(* (RequestFails).                                                         *)
(*                                                                         *)
(* Cryptography is symbolic.  An HMAC is the pair of its challenge and its *)
(* secret, a challenge the pair it hashes, a key the row it was drawn for, *)
(* SHA256 of joined keys the sequence of the keys.                         *)
(***************************************************************************)
EXTENDS Integers, Sequences, FiniteSets, Functions

CONSTANTS
  Names,          \* user names
  Secrets,        \* what is programmed in a YubiKey slot, or sent as a secret
  GoodSecrets,    \* those HMACSHA1 accepts: 40 hex digits
  EncryptionIds,  \* Guids that Setup may draw
  RequestIds,     \* Guids that Decrypt may draw for a request
  ChallengeIds,   \* Guids that Decrypt may draw for a challenge
  Workers,        \* threads of the host, each running one request at a time
  Garbage,        \* what a wrong password turns a ciphertext into
  InitialUsers,   \* the users table when the server starts
  MaxUsers,       \* bound on the users table
  MaxNames        \* bound on the names of one setup request

User == [name : Names, secret : Secrets]
RowIds == EncryptionIds \X Nat

ASSUME SecretsAssumption == GoodSecrets \subseteq Secrets
ASSUME GarbageAssumption == Garbage \notin RowIds
ASSUME UsersAssumption == InitialUsers \in Seq(User) /\ MaxUsers \in Nat
ASSUME NamesAssumption == MaxNames \in Nat

VARIABLES
  users,        \* table users: user_id |-> name and secret
  encryptKeys,  \* table encrypt_keys: rows of an encryption in keys_id order
  challenges,   \* redis: pending ChallengeEntity by id
  responses,    \* redis: response_<id> |-> keys_id and the answer
  requests,     \* redis: request_<id> |-> the challenge ids, in order
  job,          \* what each worker is doing
  drawn,        \* Guids drawn so far
  shaKeys,      \* ShaKeys of the SetupInfo replies, by EncryptionId
  quorum,       \* history: the names those setups asked for, as listed
  released,     \* keys GetDecryptionKey has returned, by request
  issued,       \* history: every challenge that was ever stored
  answered      \* history: every answer that was ever stored

vars == <<users, encryptKeys, challenges, responses, requests, job, drawn,
          shaKeys, quorum, released, issued, answered>>
mysql == <<users, encryptKeys>>
redis == <<challenges, responses, requests>>
told == <<shaKeys, quorum, released>>
history == <<issued, answered>>

-----------------------------------------------------------------------------
(* Values *)

(* A definition whose name ends in an underscore and a word, like          *)
(* HMACSHA1_Swapped, is a faulty variant of the one it precedes: what TLC  *)
(* substitutes to see that a property notices the fault.  Nothing uses it. *)

GenerateChallenge(e, u) == [enc |-> e, user |-> u]
HMACSHA1_Swapped(challenge, secret) == [challenge |-> secret, secret |-> challenge]
HMACSHA1(challenge, secret) == [challenge |-> challenge, secret |-> secret]

\* Answers a YubiKey can compute, whoever it belongs to.
Challenge == [enc : EncryptionIds, user : Nat]
Answer == [challenge : Challenge, secret : Secrets]

EncryptionEntity_OneSecret(e, i, u) ==
  [user |-> u,
   plain |-> <<e, i>>,
   password |-> HMACSHA1(GenerateChallenge(e, u), users[1].secret)]

\* A row of encrypt_keys; its key is drawn for it and encrypted under the
\* answer its user is to give.
EncryptionEntity(e, i, u) ==
  [user |-> u,
   plain |-> <<e, i>>,
   password |-> HMACSHA1(GenerateChallenge(e, u), users[u].secret)]
Row == [user : Nat, plain : RowIds, password : Answer]

DecryptRow_Unchecked(row, answer) == row.plain

\* The right answer opens a row.  A wrong one breaks the padding (then the
\* request is refused, UnlockRefused) or leaves a valid padding over noise.
DecryptRow(row, answer) == IF answer = row.password THEN row.plain ELSE Garbage

RowOf(id) == encryptKeys[id[1]][id[2]]

ChallengeEntity(row, id) ==
  [user |-> row.user, challenge |-> GenerateChallenge(id[1], row.user), row |-> id]
Entity == [user : Nat, challenge : Challenge, row : RowIds]
Response == [row : RowIds, key : Answer]

Put(f, k, v) == [x \in DOMAIN f \cup {k} |-> IF x = k THEN v ELSE f[x]]
Delete_Forgotten(f, k) == f
Delete(f, k) == Restrict(f, DOMAIN f \ {k})

Empty == [x \in {} |-> {}]
Plains(rows) == [i \in DOMAIN rows |-> rows[i].plain]

-----------------------------------------------------------------------------
(* Jobs: the local variables a handler keeps between two store accesses *)

Idle == [step |-> "idle"]
InsertJob(e, names, rows) ==
  [step |-> "insert", enc |-> e, names |-> names, rows |-> rows, done |-> 0]
IssueJob(r, e, rows, chals) ==
  [step |-> "issue", req |-> r, enc |-> e, rows |-> rows, chals |-> chals]
CollectJob(r, chals, got) ==
  [step |-> "collect", req |-> r, chals |-> chals, got |-> got]
DeleteJob(c, row, answer) ==
  [step |-> "delete", chal |-> c, row |-> row, key |-> answer]
StoreJob(c, row, answer) ==
  [step |-> "store", chal |-> c, row |-> row, key |-> answer]

At(w, step) == job[w].step = step
Goto(w, j) == job' = [job EXCEPT ![w] = j]

-----------------------------------------------------------------------------
(* POST /api/users: UserBL.CreateUser and MysqlDataStore.CreateUser.  The  *)
(* insert is the whole effect; the reply is read back by name.             *)

CreateUser(w, name, secret) ==
  /\ At(w, "idle")
  /\ Len(users) < MaxUsers
  /\ users' = Append(users, [name |-> name, secret |-> secret])
  /\ UNCHANGED <<encryptKeys, redis, job, drawn, told, history>>

(* POST /api/setup.  GetUsersByName lists, by user_id, the users whose name *)
(* is in the list; the request is refused unless there are as many users as *)
(* names.  HMACSHA1 throws before anything is stored when a secret is bad.  *)

UsersNamed(names) == {u \in DOMAIN users : users[u].name \in Range(names)}

ListedById(list, S) ==
  /\ Range(list) = S
  /\ \A i, j \in DOMAIN list : i < j => list[i] < list[j]

CountMatches_Skipped(names, found) == found # {}
CountMatches(names, found) == Cardinality(found) = Len(names)

Setup(w, names) ==
  /\ At(w, "idle")
  /\ names # <<>>
  /\ CountMatches(names, UsersNamed(names))
  /\ \A u \in UsersNamed(names) : users[u].secret \in GoodSecrets
  /\ \E e \in EncryptionIds \ drawn,
        list \in [1 .. Cardinality(UsersNamed(names)) -> UsersNamed(names)] :
       /\ ListedById(list, UsersNamed(names))
       /\ drawn' = drawn \cup {e}
       /\ Goto(w, InsertJob(e, names,
                            [i \in DOMAIN list |-> EncryptionEntity(e, i, list[i])]))
  /\ UNCHANGED <<mysql, redis, told, history>>

InsertRow_Restarts(w) ==
  /\ At(w, "insert")
  /\ LET e == job[w].enc
         n == job[w].done
     IN /\ n < Len(job[w].rows)
        /\ encryptKeys' = [encryptKeys EXCEPT ![e] = <<job[w].rows[n + 1]>>]
        /\ Goto(w, [job[w] EXCEPT !.done = n + 1])
  /\ UNCHANGED <<users, redis, drawn, told, history>>

\* One INSERT of CreateNewEncryptions; there is no transaction around them.
InsertRow(w) ==
  /\ At(w, "insert")
  /\ LET e == job[w].enc
         n == job[w].done
     IN /\ n < Len(job[w].rows)
        /\ encryptKeys' = [encryptKeys EXCEPT ![e] = Append(@, job[w].rows[n + 1])]
        /\ Goto(w, [job[w] EXCEPT !.done = n + 1])
  /\ UNCHANGED <<users, redis, drawn, told, history>>

AllInserted_Early(j) == j.done > 0
AllInserted(j) == j.done = Len(j.rows)

SetupReply(w) ==
  /\ At(w, "insert")
  /\ AllInserted(job[w])
  /\ shaKeys' = Put(shaKeys, job[w].enc, Plains(job[w].rows))
  /\ quorum' = Put(quorum, job[w].enc, job[w].names)
  /\ Goto(w, Idle)
  /\ UNCHANGED <<mysql, redis, drawn, released, history>>

-----------------------------------------------------------------------------
(* POST /api/decrypt/{encryptid}: EncryptionBL.Decrypt, asked for with an   *)
(* id that a SetupInfo reply has told.                                      *)

DecryptBegin(w, e) ==
  /\ At(w, "idle")
  /\ e \in DOMAIN shaKeys
  /\ encryptKeys[e] # <<>>
  /\ \E r \in RequestIds \ drawn :
       /\ drawn' = drawn \cup {r}
       /\ Goto(w, IssueJob(r, e, encryptKeys[e], <<>>))
  /\ UNCHANGED <<mysql, redis, told, history>>

CreateChallenge(w) ==
  /\ At(w, "issue")
  /\ LET i == Len(job[w].chals) + 1
         e == job[w].enc
     IN /\ i <= Len(job[w].rows)
        /\ \E c \in ChallengeIds \ drawn :
             LET entity == ChallengeEntity(job[w].rows[i], <<e, i>>)
             IN /\ drawn' = drawn \cup {c}
                /\ challenges' = Put(challenges, c, entity)
                /\ issued' = Put(issued, c, entity)
                /\ Goto(w, [job[w] EXCEPT !.chals = Append(@, c)])
  /\ UNCHANGED <<mysql, responses, requests, told, answered>>

AllIssued_Early(j) == Len(j.chals) > 0
AllIssued(j) == Len(j.chals) = Len(j.rows)

StoreRequest(w) ==
  /\ At(w, "issue")
  /\ AllIssued(job[w])
  /\ requests' = Put(requests, job[w].req, job[w].chals)
  /\ Goto(w, Idle)
  /\ UNCHANGED <<mysql, challenges, responses, drawn, told, history>>

-----------------------------------------------------------------------------
(* POST /api/challenge/{responseid}: ChallengeBL.RespondToChallenge.  The   *)
(* pending entity is read, deleted and its response stored in three calls.  *)

RespondBegin(w, c, secret) ==
  /\ At(w, "idle")
  /\ c \in DOMAIN challenges
  /\ Goto(w, DeleteJob(c, challenges[c].row,
                       HMACSHA1(challenges[c].challenge, secret)))
  /\ UNCHANGED <<mysql, redis, drawn, told, history>>

DeleteChallenge(w) ==
  /\ At(w, "delete")
  /\ challenges' = Delete(challenges, job[w].chal)
  /\ Goto(w, StoreJob(job[w].chal, job[w].row, job[w].key))
  /\ UNCHANGED <<mysql, responses, requests, drawn, told, history>>

StoreResponse_IfPending(w) ==
  /\ At(w, "store")
  /\ IF job[w].chal \in DOMAIN challenges
     THEN /\ responses' = Put(responses, job[w].chal,
                              [row |-> job[w].row, key |-> job[w].key])
          /\ answered' = answered \cup {<<job[w].chal, job[w].key>>}
     ELSE UNCHANGED <<responses, answered>>
  /\ Goto(w, Idle)
  /\ UNCHANGED <<mysql, challenges, requests, drawn, told, issued>>

StoreResponse(w) ==
  /\ At(w, "store")
  /\ responses' = Put(responses, job[w].chal,
                      [row |-> job[w].row, key |-> job[w].key])
  /\ answered' = answered \cup {<<job[w].chal, job[w].key>>}
  /\ Goto(w, Idle)
  /\ UNCHANGED <<mysql, challenges, requests, drawn, told, issued>>

-----------------------------------------------------------------------------
(* GET /api/decrypt/{requestid}: EncryptionBL.GetDecryptionKey.             *)

GetKeyBegin(w, r) ==
  /\ At(w, "idle")
  /\ r \in DOMAIN requests
  /\ Goto(w, CollectJob(r, requests[r], <<>>))
  /\ UNCHANGED <<mysql, redis, drawn, told, history>>

CollectResponse(w) ==
  /\ At(w, "collect")
  /\ Len(job[w].got) < Len(job[w].chals)
  /\ LET c == job[w].chals[Len(job[w].got) + 1]
     IN IF c \in DOMAIN responses
        THEN Goto(w, [job[w] EXCEPT !.got = Append(@, responses[c])])
        ELSE Goto(w, Idle)
  /\ UNCHANGED <<mysql, redis, drawn, told, history>>

AllCollected_Early(j) == Len(j.got) > 0
AllCollected(j) == Len(j.got) = Len(j.chals)

\* What is left of the handler reads only rows, which never change: one step.
Unlocked(got) ==
  [i \in DOMAIN got |-> DecryptRow(RowOf(got[i].row), got[i].key)]

ReleaseKey(w) ==
  /\ At(w, "collect")
  /\ AllCollected(job[w])
  /\ released' = [released EXCEPT ![job[w].req] = @ \cup {Unlocked(job[w].got)}]
  /\ Goto(w, Idle)
  /\ UNCHANGED <<mysql, redis, drawn, shaKeys, quorum, history>>

UnlockRefused(w) ==
  /\ At(w, "collect")
  /\ AllCollected(job[w])
  /\ Garbage \in Range(Unlocked(job[w].got))
  /\ Goto(w, Idle)
  /\ UNCHANGED <<mysql, redis, drawn, told, history>>

-----------------------------------------------------------------------------
\* An exception, a lost connection to a store or the end of the process.
RequestFails(w) ==
  /\ ~ At(w, "idle")
  /\ Goto(w, Idle)
  /\ UNCHANGED <<mysql, redis, drawn, told, history>>

Init ==
  /\ users = InitialUsers
  /\ encryptKeys = [e \in EncryptionIds |-> <<>>]
  /\ challenges = Empty
  /\ responses = Empty
  /\ requests = Empty
  /\ job = [w \in Workers |-> Idle]
  /\ drawn = {}
  /\ shaKeys = Empty
  /\ quorum = Empty
  /\ released = [r \in RequestIds |-> {}]
  /\ issued = Empty
  /\ answered = {}

NameLists == UNION {[1 .. n -> Names] : n \in 0 .. MaxNames}

SetupStep(w) ==
  \/ \E names \in NameLists : Setup(w, names)
  \/ InsertRow(w)
  \/ SetupReply(w)

DecryptStep(w) ==
  \/ \E e \in EncryptionIds : DecryptBegin(w, e)
  \/ CreateChallenge(w)
  \/ StoreRequest(w)

RespondStep(w) ==
  \/ \E c \in ChallengeIds, secret \in Secrets : RespondBegin(w, c, secret)
  \/ DeleteChallenge(w)
  \/ StoreResponse(w)

GetKeyStep(w) ==
  \/ \E r \in RequestIds : GetKeyBegin(w, r)
  \/ CollectResponse(w)
  \/ ReleaseKey(w)
  \/ UnlockRefused(w)

ServerStep(w) ==
  \/ \E name \in Names, secret \in Secrets : CreateUser(w, name, secret)
  \/ SetupStep(w)
  \/ DecryptStep(w)
  \/ RespondStep(w)
  \/ GetKeyStep(w)

Next == \E w \in Workers : ServerStep(w) \/ RequestFails(w)
Spec == Init /\ [][Next]_vars
-----------------------------------------------------------------------------
(* Properties *)

JobType ==
  {Idle}
  \cup [step : {"insert"}, enc : EncryptionIds, names : NameLists,
        rows : Seq(Row), done : Nat]
  \cup [step : {"issue"}, req : RequestIds, enc : EncryptionIds,
        rows : Seq(Row), chals : Seq(ChallengeIds)]
  \cup [step : {"delete", "store"}, chal : ChallengeIds, row : RowIds, key : Answer]
  \cup [step : {"collect"}, req : RequestIds, chals : Seq(ChallengeIds),
        got : Seq(Response)]

PartialFunction(f, S, T) == DOMAIN f \subseteq S /\ \A x \in DOMAIN f : f[x] \in T

\* The values the tables, the redis keys and the handlers' locals range over.
TypeOK ==
  /\ users \in Seq(User)
  /\ encryptKeys \in [EncryptionIds -> Seq(Row)]
  /\ PartialFunction(challenges, ChallengeIds, Entity)
  /\ PartialFunction(responses, ChallengeIds, Response)
  /\ PartialFunction(requests, RequestIds, Seq(ChallengeIds))
  /\ job \in [Workers -> JobType]
  /\ drawn \subseteq EncryptionIds \cup RequestIds \cup ChallengeIds
  /\ PartialFunction(shaKeys, EncryptionIds, Seq(RowIds))
  /\ PartialFunction(quorum, EncryptionIds, NameLists)
  /\ released \in [RequestIds -> SUBSET Seq(RowIds \cup {Garbage})]
  /\ PartialFunction(issued, ChallengeIds, Entity)
  /\ answered \subseteq ChallengeIds \X Answer

\* The answer of the user behind row i of encryption e, from that user's secret.
RightAnswer(e, i) ==
  LET u == encryptKeys[e][i].user
  IN HMACSHA1(GenerateChallenge(e, u), users[u].secret)

\* Only the right answers of every member can have produced an encryption's
\* key: GetDecryptionKey returned the ShaKeys of Setup for a request only if
\* each member's row was answered, in that request, with the answer that
\* opens it (EncryptionBL.GetDecryptionKey over RespondToChallenge).
ReleasedWithConsent ==
  \A r \in RequestIds, e \in DOMAIN shaKeys :
    shaKeys[e] \in released[r] =>
      \A i \in DOMAIN shaKeys[e] :
        <<requests[r][i], RightAnswer(e, i)>> \in answered

RequestedEncryption(r) == issued[requests[r][1]].row[1]

\* A request all of whose answers were right gives the key its encryption was
\* set up with and nothing else, in the order of Setup, whatever interleaves
\* with it and whatever was answered in other requests.
HonestKeyCorrect ==
  \A r \in DOMAIN requests :
    (\A i \in DOMAIN requests[r] : \A a \in answered :
       a[1] = requests[r][i] => a[2] = RightAnswer(RequestedEncryption(r), i))
    => released[r] \subseteq {shaKeys[RequestedEncryption(r)]}

\* A stored request asks every row of its encryption once, in row order, and
\* no challenge of it belongs to another request (EncryptionBL.Decrypt).
RequestCoversQuorum ==
  \A r \in DOMAIN requests :
    LET e == RequestedEncryption(r)
    IN /\ e \in DOMAIN shaKeys
       /\ Len(requests[r]) = Len(shaKeys[e])
       /\ \A i \in DOMAIN requests[r] : issued[requests[r][i]].row = <<e, i>>
       /\ \A s \in DOMAIN requests \ {r} : Range(requests[s]) \cap Range(requests[r]) = {}

\* The rows behind an EncryptionId a client has been told are all stored, and
\* their keys are the ones the reply's ShaKeys was computed from (Setup and
\* CreateNewEncryptions, which inserts row by row without a transaction).
SetupComplete ==
  \A e \in DOMAIN shaKeys : Plains(encryptKeys[e]) = shaKeys[e] /\ shaKeys[e] # <<>>

\* A challenge whose response is stored is not offered again: the poll of
\* GetChallengeForUserId must not hand out what has been answered.
AnsweredNotPending == DOMAIN challenges \cap DOMAIN responses = {}

\* While no request fails half-way, a member's turn is never lost: each
\* challenge of a stored request is pending, answered, or in the hands of a
\* responder that is about to store its answer.
NoAnswerLost ==
  \A r \in DOMAIN requests : \A c \in Range(requests[r]) :
    \/ c \in DOMAIN challenges \cup DOMAIN responses
    \/ \E w \in Workers : At(w, "store") /\ job[w].chal = c

\* What a handler has told or stored for others stays as it was: users, the
\* rows of a told encryption, its ShaKeys, the challenges of a request, and
\* what was issued.  Handlers read these in several accesses and rely on it;
\* only the Guids keep concurrent handlers off each other's rows.
StoresGrow ==
  /\ \A u \in DOMAIN users : u \in DOMAIN users' /\ users'[u] = users[u]
  /\ \A e \in EncryptionIds : \A i \in DOMAIN encryptKeys[e] :
       i \in DOMAIN encryptKeys'[e] /\ encryptKeys'[e][i] = encryptKeys[e][i]
  /\ \A e \in DOMAIN shaKeys :
       e \in DOMAIN shaKeys' /\ shaKeys'[e] = shaKeys[e] /\ encryptKeys'[e] = encryptKeys[e]
  /\ \A r \in DOMAIN requests : r \in DOMAIN requests' /\ requests'[r] = requests[r]
  /\ \A c \in DOMAIN issued : c \in DOMAIN issued' /\ issued'[c] = issued[c]

ToldIsFinal == [][StoresGrow]_vars

\* The answer stored for c is settled: no responder that read the challenge
\* while it was pending is still on its way to store another.
Settled(c) ==
  /\ c \in DOMAIN responses
  /\ \A w \in Workers : job[w].step \in {"delete", "store"} => job[w].chal # c

\* A stored response stays, and stays one for its row.  Its answer may be
\* replaced by a responder that raced the one who stored it, by nobody else
\* (RespondToChallenge refuses when the entity is gone, and deletes before it
\* stores): a right answer that is settled cannot be spoilt by a later wrong
\* one, and a wrong one that is settled cannot be corrected any more.
AnswersSettle ==
  \A c \in DOMAIN responses :
    /\ c \in DOMAIN responses' /\ responses'[c].row = responses[c].row
    /\ Settled(c) => Settled(c)' /\ responses'[c] = responses[c]

SettledIsFinal == [][AnswersSettle]_vars

\* No two users have one of these names.
Unshared(names) ==
  \A u, v \in UsersNamed(names) : users[u].name = users[v].name => u = v

\* The rows are those of as many different users as were named, each of them
\* called by one of the names; and everybody who was named is among them, if
\* no two users share one of these names.
Enrols(rows, names) ==
  /\ Len(rows) = Len(names)
  /\ \A i, j \in DOMAIN rows : rows[i].user = rows[j].user => i = j
  /\ \A i \in DOMAIN rows : users[rows[i].user].name \in Range(names)
  /\ Unshared(names) => Range(names) = {users[rows[i].user].name : i \in DOMAIN rows}

\* The quorum of a set-up encryption is made of the users asked for.  Setup
\* only compares how many users it found with how many names it was given, and
\* names are not unique (CreateUser, db.sql): where two users share a name, one
\* of them may stand in for somebody who does not exist.
NamedUsersEnrolled ==
  \A e \in DOMAIN quorum : Enrols(encryptKeys[e], quorum[e])
-----------------------------------------------------------------------------
(* The server implements QuorumAccess: a request is asked when it is stored,*)
(* consented to when a right answer is stored, granted when its key leaves. *)

Consents ==
  {p \in RequestIds \X (1 .. MaxNames) :
     /\ p[1] \in DOMAIN requests
     /\ p[2] \in DOMAIN requests[p[1]]
     /\ <<requests[p[1]][p[2]], RightAnswer(RequestedEncryption(p[1]), p[2])>> \in answered}

Access == INSTANCE QuorumAccess WITH
  Encryptions <- EncryptionIds,
  Requests <- RequestIds,
  MaxMembers <- MaxNames,
  members <- [e \in DOMAIN shaKeys |-> Len(shaKeys[e])],
  asked <- [r \in DOMAIN requests |-> RequestedEncryption(r)],
  consents <- Consents,
  granted <- {r \in DOMAIN requests : shaKeys[RequestedEncryption(r)] \in released[r]}

\* Every step of the handlers is a step of the quorum protocol or invisible to
\* it, with any interleaving of requests and any of them failing half-way.
GrantsOnlyByQuorum == Access!Spec
=============================================================================
