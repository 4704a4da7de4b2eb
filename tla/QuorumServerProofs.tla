------------------------- MODULE QuorumServerProofs -------------------------
(***************************************************************************)
(* Proofs about QuorumServer, for any users, identifiers and workers.      *)
(***************************************************************************)
EXTENDS QuorumServerInv, TLAPS

-----------------------------------------------------------------------------
(* The stores as partial functions *)

\* A put of a well-typed value and a delete keep a store well-typed.
LEMMA PutPartial ==
  ASSUME NEW f, NEW S, NEW T, NEW k \in S, NEW v \in T, PartialFunction(f, S, T)
  PROVE  PartialFunction(Put(f, k, v), S, T)
BY DEF Put, PartialFunction

\* Removing a key from a well-typed store keeps it so.
LEMMA DeletePartial ==
  ASSUME NEW f, NEW S, NEW T, NEW k, PartialFunction(f, S, T)
  PROVE  PartialFunction(Delete(f, k), S, T)
BY DEF Delete, Restrict, PartialFunction

\* Appending keeps the elements that were there, at their places.
LEMMA AppendKeeps ==
  ASSUME NEW S, NEW s \in Seq(S), NEW x \in S
  PROVE  /\ Append(s, x) \in Seq(S)
         /\ Len(Append(s, x)) = Len(s) + 1
         /\ \A i \in DOMAIN s : i \in DOMAIN Append(s, x) /\ Append(s, x)[i] = s[i]
         /\ DOMAIN Append(s, x) = DOMAIN s \cup {Len(s) + 1}
         /\ Append(s, x)[Len(s) + 1] = x
OBVIOUS

-----------------------------------------------------------------------------
(* The locals of a handler, by the step it is at *)

InsertType ==
  [step : {"insert"}, enc : EncryptionIds, names : NameLists,
   rows : Seq(Row), done : Nat]
IssueType ==
  [step : {"issue"}, req : RequestIds, enc : EncryptionIds,
   rows : Seq(Row), chals : Seq(ChallengeIds)]
RespondType ==
  [step : {"delete", "store"}, chal : ChallengeIds, row : RowIds, key : Answer]
CollectType ==
  [step : {"collect"}, req : RequestIds, chals : Seq(ChallengeIds),
   got : Seq(Response)]

\* The step of a job tells which locals the handler has.
LEMMA JobTypes ==
  ASSUME TypeOK, NEW w \in Workers
  PROVE  /\ At(w, "insert") => job[w] \in InsertType
         /\ At(w, "issue") => job[w] \in IssueType
         /\ At(w, "delete") \/ At(w, "store") => job[w] \in RespondType
         /\ At(w, "collect") => job[w] \in CollectType
BY DEF TypeOK, JobType, Idle, At, InsertType, IssueType, RespondType, CollectType

\* A worker that goes to a well-typed job leaves the others where they were.
LEMMA GotoFacts ==
  ASSUME TypeOK, NEW w \in Workers, NEW j, Goto(w, j)
  PROVE  /\ job'[w] = j
         /\ \A v \in Workers : v # w => job'[v] = job[v]
         /\ j \in JobType => job' \in [Workers -> JobType]
BY DEF TypeOK, Goto

\* Each kind of job is a job.
LEMMA JobsAreTyped ==
  /\ Idle \in JobType
  /\ InsertType \subseteq JobType
  /\ IssueType \subseteq JobType
  /\ RespondType \subseteq JobType
  /\ CollectType \subseteq JobType
BY DEF JobType, InsertType, IssueType, RespondType, CollectType
\* The keys of well-typed rows are keys.
LEMMA PlainsType ==
  ASSUME NEW rows \in Seq(Row)
  PROVE  Plains(rows) \in Seq(RowIds)
<1>1. \A i \in DOMAIN rows : rows[i] \in Row
  OBVIOUS
<1>2. DOMAIN rows = 1 .. Len(rows) /\ Len(rows) \in Nat
  OBVIOUS
<1>3. \A i \in DOMAIN rows : rows[i].plain \in RowIds
  BY <1>1 DEF Row
<1> QED
  BY <1>2, <1>3 DEF Plains

\* A user_id of the table is a number with a user behind it.
LEMMA UserFacts ==
  ASSUME TypeOK, NEW u \in DOMAIN users
  PROVE  u \in Nat /\ users[u] \in User /\ users[u].secret \in Secrets
<1>1. users \in Seq(User)
  BY DEF TypeOK
<1>2. u \in Nat /\ users[u] \in User
  BY <1>1
<1> QED
  BY <1>2 DEF User

\* What an issued challenge asks for is a stored row of a told encryption.
LEMMA IssuedRow ==
  ASSUME IInv, NEW c \in DOMAIN issued
  PROVE  LET e == issued[c].row[1]
             i == issued[c].row[2]
         IN /\ issued[c].row = <<e, i>>
            /\ e \in DOMAIN shaKeys /\ e \in EncryptionIds
            /\ i \in DOMAIN encryptKeys[e]
            /\ RowOf(issued[c].row) = encryptKeys[e][i]
            /\ encryptKeys[e][i] \in Row
            /\ IsRow(encryptKeys[e][i], e, i)
            /\ issued[c] = ChallengeEntity(encryptKeys[e][i], <<e, i>>)
<1>0. PICK e \in DOMAIN shaKeys : \E i \in DOMAIN encryptKeys[e] :
        issued[c] = ChallengeEntity(encryptKeys[e][i], <<e, i>>)
  BY DEF IInv, IssuedRight
<1>1. PICK i \in DOMAIN encryptKeys[e] :
        issued[c] = ChallengeEntity(encryptKeys[e][i], <<e, i>>)
  BY <1>0
<1>2. issued[c].row = <<e, i>> /\ e \in EncryptionIds
  BY <1>1 DEF ChallengeEntity, IInv, TypeOK, PartialFunction
<1>3. encryptKeys[e] \in Seq(Row)
  BY <1>2 DEF IInv, TypeOK
<1>4. encryptKeys[e][i] \in Row
  BY <1>3
<1> QED
  BY <1>1, <1>2, <1>4 DEF RowOf, IInv, RowsRight

-----------------------------------------------------------------------------
(* Type correctness *)

\* Every step of every handler keeps the types; only GetDecryptionKey needs
\* more than types, that the rows its responses name are stored.
LEMMA TypeStep ==
  ASSUME IInv, [Next]_vars
  PROVE  TypeOK'
<1> USE DEF IInv
<1>1. CASE UNCHANGED vars
  BY <1>1 DEF TypeOK, vars, PartialFunction
<1> SUFFICES ASSUME NEW w \in Workers, ServerStep(w) \/ RequestFails(w)
             PROVE  TypeOK'
  BY <1>1 DEF Next
<1> USE JobsAreTyped
<1>2. CASE RequestFails(w)
  BY <1>2, GotoFacts DEF RequestFails, TypeOK, redis, mysql, told, history
<1>3. ASSUME NEW name \in Names, NEW secret \in Secrets, CreateUser(w, name, secret)
      PROVE  TypeOK'
  BY <1>3 DEF CreateUser, TypeOK, User, redis, told, history
<1>4. ASSUME NEW names \in NameLists, Setup(w, names)
      PROVE  TypeOK'
  <2>1. PICK e \in EncryptionIds, list \in [1 .. Cardinality(UsersNamed(names)) -> UsersNamed(names)] :
          /\ drawn' = drawn \cup {e}
          /\ Goto(w, InsertJob(e, names,
                       [i \in DOMAIN list |-> EncryptionEntity(e, i, list[i])]))
    BY <1>4 DEF Setup
  <2>2. Cardinality(UsersNamed(names)) \in Nat
    BY <1>4 DEF Setup, CountMatches, NameLists
  <2> DEFINE rows == [i \in DOMAIN list |-> EncryptionEntity(e, i, list[i])]
  <2>3. \A i \in DOMAIN list : EncryptionEntity(e, i, list[i]) \in Row
    <3> SUFFICES ASSUME NEW i \in DOMAIN list
                 PROVE  EncryptionEntity(e, i, list[i]) \in Row
      OBVIOUS
    <3>1. i \in Nat /\ list[i] \in DOMAIN users
      BY <2>2 DEF UsersNamed
    <3>2. list[i] \in Nat /\ users[list[i]].secret \in Secrets
      BY <3>1, UserFacts
    <3> QED
      BY <3>1, <3>2 DEF EncryptionEntity, Row, HMACSHA1, GenerateChallenge, RowIds, Answer, Challenge
  <2>4. rows \in Seq(Row)
    BY <2>1, <2>2, <2>3
  <2>5. InsertJob(e, names, rows) \in JobType
    BY <2>4, <1>4 DEF InsertJob, InsertType
  <2> QED
    BY <1>4, <2>1, <2>5, GotoFacts DEF Setup, TypeOK, mysql, redis, told, history
<1>5. CASE InsertRow(w)
  <2>1. job[w] \in InsertType
    BY <1>5, JobTypes DEF InsertRow
  <2> DEFINE e == job[w].enc
             n == job[w].done
  <2>2. job[w].rows[n + 1] \in Row /\ [job[w] EXCEPT !.done = n + 1] \in InsertType
    BY <1>5, <2>1 DEF InsertRow, InsertType
  <2>3. encryptKeys' \in [EncryptionIds -> Seq(Row)]
    BY <1>5, <2>1, <2>2 DEF InsertRow, InsertType, TypeOK
  <2> QED
    BY <1>5, <2>2, <2>3, GotoFacts DEF InsertRow, TypeOK, redis, told, history
<1>6. CASE SetupReply(w)
  <2>1. job[w] \in InsertType
    BY <1>6, JobTypes DEF SetupReply
  <2>2. Plains(job[w].rows) \in Seq(RowIds)
    BY <2>1, PlainsType DEF InsertType
  <2>3. job[w].names \in NameLists
    BY <2>1 DEF InsertType
  <2>4. PartialFunction(shaKeys', EncryptionIds, Seq(RowIds))
    BY <1>6, <2>1, <2>2, PutPartial DEF SetupReply, TypeOK, InsertType
  <2>5. PartialFunction(quorum', EncryptionIds, NameLists)
    BY <1>6, <2>1, <2>3, PutPartial DEF SetupReply, TypeOK, InsertType
  <2> QED
    BY <1>6, <2>4, <2>5, GotoFacts DEF SetupReply, TypeOK, mysql, redis, history
<1>7. ASSUME NEW e \in EncryptionIds, DecryptBegin(w, e)
      PROVE  TypeOK'
  <2>1. PICK r \in RequestIds :
          drawn' = drawn \cup {r} /\ Goto(w, IssueJob(r, e, encryptKeys[e], <<>>))
    BY <1>7 DEF DecryptBegin
  <2>2. IssueJob(r, e, encryptKeys[e], <<>>) \in JobType
    <3>1. encryptKeys[e] \in Seq(Row) /\ <<>> \in Seq(ChallengeIds)
      BY DEF TypeOK
    <3> QED
      BY <3>1 DEF IssueJob, IssueType
  <2> QED
    BY <1>7, <2>1, <2>2, GotoFacts DEF DecryptBegin, TypeOK, mysql, redis, told, history
<1>8. CASE CreateChallenge(w)
  <2>1. job[w] \in IssueType
    BY <1>8, JobTypes DEF CreateChallenge
  <2> DEFINE i == Len(job[w].chals) + 1
             e == job[w].enc
             entity == ChallengeEntity(job[w].rows[i], <<e, i>>)
  <2>2. PICK c \in ChallengeIds :
          /\ drawn' = drawn \cup {c}
          /\ challenges' = Put(challenges, c, entity)
          /\ issued' = Put(issued, c, entity)
          /\ Goto(w, [job[w] EXCEPT !.chals = Append(@, c)])
    BY <1>8 DEF CreateChallenge
  <2>3. e \in EncryptionIds /\ i \in Nat /\ job[w].rows[i] \in Row
    BY <1>8, <2>1 DEF CreateChallenge, IssueType
  <2>4. entity \in Entity
    BY <2>3 DEF ChallengeEntity, Entity, GenerateChallenge, Challenge, Row, RowIds
  <2>5. [job[w] EXCEPT !.chals = Append(@, c)] \in IssueType
    <3>1. Append(job[w].chals, c) \in Seq(ChallengeIds)
      BY <2>1 DEF IssueType
    <3> QED
      BY <2>1, <3>1 DEF IssueType
  <2>6. /\ PartialFunction(challenges', ChallengeIds, Entity)
        /\ PartialFunction(issued', ChallengeIds, Entity)
    BY <2>2, <2>4, PutPartial DEF TypeOK
  <2> QED
    BY <1>8, <2>2, <2>5, <2>6, GotoFacts DEF CreateChallenge, TypeOK, mysql, told
<1>9. CASE StoreRequest(w)
  <2>1. job[w] \in IssueType
    BY <1>9, JobTypes DEF StoreRequest
  <2>2. PartialFunction(requests', RequestIds, Seq(ChallengeIds))
    BY <1>9, <2>1, PutPartial DEF StoreRequest, TypeOK, IssueType
  <2> QED
    BY <1>9, <2>2, GotoFacts DEF StoreRequest, TypeOK, mysql, told, history
<1>10. ASSUME NEW c \in ChallengeIds, NEW secret \in Secrets, RespondBegin(w, c, secret)
       PROVE  TypeOK'
  <2>1. challenges[c] \in Entity
    BY <1>10 DEF RespondBegin, TypeOK, PartialFunction
  <2>2. DeleteJob(c, challenges[c].row, HMACSHA1(challenges[c].challenge, secret)) \in RespondType
    BY <2>1 DEF DeleteJob, HMACSHA1, RespondType, Entity, Answer
  <2> QED
    BY <1>10, <2>2, GotoFacts DEF RespondBegin, TypeOK, mysql, redis, told, history
<1>11. CASE DeleteChallenge(w)
  <2>1. job[w] \in RespondType
    BY <1>11, JobTypes DEF DeleteChallenge
  <2>2. StoreJob(job[w].chal, job[w].row, job[w].key) \in RespondType
    BY <2>1 DEF StoreJob, RespondType
  <2>3. PartialFunction(challenges', ChallengeIds, Entity)
    BY <1>11, DeletePartial DEF DeleteChallenge, TypeOK
  <2> QED
    BY <1>11, <2>2, <2>3, GotoFacts DEF DeleteChallenge, TypeOK, mysql, told, history
<1>12. CASE StoreResponse(w)
  <2>1. job[w] \in RespondType
    BY <1>12, JobTypes DEF StoreResponse
  <2>2. [row |-> job[w].row, key |-> job[w].key] \in Response
    BY <2>1 DEF RespondType, Response
  <2>3. PartialFunction(responses', ChallengeIds, Response)
    BY <1>12, <2>1, <2>2, PutPartial DEF StoreResponse, TypeOK, RespondType
  <2> QED
    BY <1>12, <2>1, <2>3, GotoFacts DEF StoreResponse, TypeOK, RespondType, mysql, told
<1>13. ASSUME NEW r \in RequestIds, GetKeyBegin(w, r)
       PROVE  TypeOK'
  <2>1. requests[r] \in Seq(ChallengeIds)
    BY <1>13 DEF GetKeyBegin, TypeOK, PartialFunction
  <2>2. CollectJob(r, requests[r], <<>>) \in CollectType
    BY <2>1 DEF CollectJob, CollectType
  <2> QED
    BY <1>13, <2>2, GotoFacts DEF GetKeyBegin, TypeOK, mysql, redis, told, history
<1>14. CASE CollectResponse(w)
  <2>1. job[w] \in CollectType
    BY <1>14, JobTypes DEF CollectResponse
  <2>2. \A c \in DOMAIN responses : [job[w] EXCEPT !.got = Append(@, responses[c])] \in CollectType
    <3> TAKE c \in DOMAIN responses
    <3>1. responses[c] \in Response
      BY DEF TypeOK, PartialFunction
    <3>2. Append(job[w].got, responses[c]) \in Seq(Response)
      BY <2>1, <3>1 DEF CollectType
    <3> QED
      BY <2>1, <3>2 DEF CollectType
  <2> QED
    BY <1>14, <2>2, GotoFacts DEF CollectResponse, TypeOK, mysql, redis, told, history
<1>15. CASE ReleaseKey(w)
  <2>1. job[w] \in CollectType
    BY <1>15, JobTypes DEF ReleaseKey
  <2>2. \A i \in DOMAIN job[w].got : RowOf(job[w].got[i].row).plain \in RowIds
    <3> TAKE i \in DOMAIN job[w].got
    <3>1. IsResponse(job[w].got[i], job[w].chals[i])
      BY <1>15 DEF ReleaseKey, CollectsRight, CollectRight
    <3> QED
      BY <3>1, IssuedRow DEF IsResponse, Row
  <2>3. Unlocked(job[w].got) \in Seq(RowIds \cup {Garbage})
    BY <2>1, <2>2 DEF Unlocked, DecryptRow, CollectType
  <2> QED
    BY <1>15, <2>1, <2>3, GotoFacts DEF ReleaseKey, TypeOK, CollectType, mysql, redis, history
<1>16. CASE UnlockRefused(w)
  BY <1>16, GotoFacts DEF UnlockRefused, TypeOK, mysql, redis, told, history
<1> QED
  BY <1>2, <1>3, <1>4, <1>5, <1>6, <1>7, <1>8, <1>9, <1>10, <1>11, <1>12,
     <1>13, <1>14, <1>15, <1>16
  DEF ServerStep, SetupStep, DecryptStep, RespondStep, GetKeyStep
-----------------------------------------------------------------------------
(* Which action changes what *)

\* Every store is written by few actions.
Written ==
  /\ users' = users \/
       \E w \in Workers, name \in Names, secret \in Secrets : CreateUser(w, name, secret)
  /\ encryptKeys' = encryptKeys \/ \E w \in Workers : InsertRow(w)
  /\ shaKeys' = shaKeys \/ \E w \in Workers : SetupReply(w)
  /\ challenges' = challenges \/
       \E w \in Workers : CreateChallenge(w) \/ DeleteChallenge(w)
  /\ issued' = issued \/ \E w \in Workers : CreateChallenge(w)
  /\ requests' = requests \/ \E w \in Workers : StoreRequest(w)
  /\ (responses' = responses /\ answered' = answered) \/
       \E w \in Workers : StoreResponse(w)
  /\ released' = released \/ \E w \in Workers : ReleaseKey(w)
  /\ drawn' = drawn \/
       \E w \in Workers : \/ \E names \in NameLists : Setup(w, names)
                          \/ \E e \in EncryptionIds : DecryptBegin(w, e)
                          \/ CreateChallenge(w)

\* A worker is at a kind of job because it was there or has just entered it.
Entered(w) ==
  LET entered == ~ job'[w] = job[w]
  IN /\ entered /\ job'[w].step = "insert" =>
          InsertRow(w) \/ \E names \in NameLists : Setup(w, names)
     /\ entered /\ job'[w].step = "issue" =>
          CreateChallenge(w) \/ \E e \in EncryptionIds : DecryptBegin(w, e)
     /\ entered /\ job'[w].step \in {"delete", "store"} =>
          DeleteChallenge(w) \/
            \E c \in ChallengeIds, secret \in Secrets : RespondBegin(w, c, secret)
     /\ entered /\ job'[w].step = "collect" =>
          CollectResponse(w) \/ \E r \in RequestIds : GetKeyBegin(w, r)

\* Written and Entered hold of every step.
LEMMA Writers ==
  ASSUME TypeOK, [Next]_vars
  PROVE  Written /\ \A w \in Workers : Entered(w)
<1> USE DEF mysql, redis, told, history
<1>1. CASE UNCHANGED vars
  BY <1>1 DEF vars, Written, Entered
<1> SUFFICES ASSUME NEW w \in Workers, ServerStep(w) \/ RequestFails(w)
             PROVE  Written /\ Entered(w)
                    /\ \A v \in Workers \ {w} : job'[v] = job[v]
  BY <1>1 DEF Next, Entered
<1>2. CASE RequestFails(w)
  BY <1>2, GotoFacts DEF RequestFails, Idle, Written, Entered
<1>3. ASSUME NEW name \in Names, NEW secret \in Secrets, CreateUser(w, name, secret)
      PROVE  Written /\ job' = job
  BY <1>3 DEF CreateUser, Written
<1>4. CASE SetupStep(w)
  <2>1. CASE \E names \in NameLists : Setup(w, names)
    <3>1. \E j : Goto(w, j) /\ j.step = "insert"
      BY <2>1 DEF Setup, InsertJob
    <3>2. Written
      BY <2>1 DEF Written, Setup
    <3> QED
      BY <2>1, <3>1, <3>2, GotoFacts DEF Entered
  <2>2. CASE InsertRow(w)
    <3>1. \E j : Goto(w, j) /\ j.step = "insert"
      BY <2>2, JobTypes DEF InsertRow, InsertType
    <3>2. Written
      BY <2>2 DEF Written, InsertRow
    <3> QED
      BY <2>2, <3>1, <3>2, GotoFacts DEF Entered
  <2>3. CASE SetupReply(w)
    BY <2>3, GotoFacts DEF Written, Entered, SetupReply, Idle
  <2> QED
    BY <1>4, <2>1, <2>2, <2>3 DEF SetupStep
<1>5. CASE DecryptStep(w)
  <2>1. CASE \E e \in EncryptionIds : DecryptBegin(w, e)
    <3>1. \E j : Goto(w, j) /\ j.step = "issue"
      BY <2>1 DEF DecryptBegin, IssueJob
    <3>2. Written
      BY <2>1 DEF Written, DecryptBegin
    <3> QED
      BY <2>1, <3>1, <3>2, GotoFacts DEF Entered
  <2>2. CASE CreateChallenge(w)
    <3>1. \E j : Goto(w, j) /\ j.step = "issue"
      <4>1. PICK c : Goto(w, [job[w] EXCEPT !.chals = Append(@, c)])
        BY <2>2 DEF CreateChallenge
      <4>2. job[w] \in IssueType
        BY <2>2, JobTypes DEF CreateChallenge
      <4> QED
        BY <4>1, <4>2 DEF IssueType
    <3>2. Written
      BY <2>2 DEF Written, CreateChallenge
    <3> QED
      BY <2>2, <3>1, <3>2, GotoFacts DEF Entered
  <2>3. CASE StoreRequest(w)
    BY <2>3, GotoFacts DEF Written, Entered, StoreRequest, Idle
  <2> QED
    BY <1>5, <2>1, <2>2, <2>3 DEF DecryptStep
<1>6. CASE RespondStep(w)
  <2>1. CASE \E c \in ChallengeIds, secret \in Secrets : RespondBegin(w, c, secret)
    <3>1. \E j : Goto(w, j) /\ j.step = "delete"
      BY <2>1 DEF RespondBegin, DeleteJob
    <3>2. Written
      BY <2>1 DEF Written, RespondBegin
    <3> QED
      BY <2>1, <3>1, <3>2, GotoFacts DEF Entered
  <2>2. CASE DeleteChallenge(w)
    <3>1. \E j : Goto(w, j) /\ j.step = "store"
      BY <2>2 DEF DeleteChallenge, StoreJob
    <3>2. Written
      BY <2>2 DEF Written, DeleteChallenge
    <3> QED
      BY <2>2, <3>1, <3>2, GotoFacts DEF Entered
  <2>3. CASE StoreResponse(w)
    BY <2>3, GotoFacts DEF Written, Entered, StoreResponse, Idle
  <2> QED
    BY <1>6, <2>1, <2>2, <2>3 DEF RespondStep
<1>7. CASE GetKeyStep(w)
  <2>1. CASE \E r \in RequestIds : GetKeyBegin(w, r)
    <3>1. \E j : Goto(w, j) /\ j.step = "collect"
      BY <2>1 DEF GetKeyBegin, CollectJob
    <3>2. Written
      BY <2>1 DEF Written, GetKeyBegin
    <3> QED
      BY <2>1, <3>1, <3>2, GotoFacts DEF Entered
  <2>2. CASE CollectResponse(w)
    <3>1. \E j : Goto(w, j) /\ j.step \in {"collect", "idle"}
      <4>1. job[w] \in CollectType
        BY <2>2, JobTypes DEF CollectResponse
      <4> QED
        BY <2>2, <4>1 DEF CollectResponse, CollectType, Idle
    <3>2. Written
      BY <2>2 DEF Written, CollectResponse
    <3> QED
      BY <2>2, <3>1, <3>2, GotoFacts DEF Entered
  <2>3. CASE ReleaseKey(w)
    <3>1. Goto(w, Idle)
      BY <2>3 DEF ReleaseKey
    <3>2. Written
      BY <2>3 DEF Written, ReleaseKey
    <3> QED
      BY <3>1, <3>2, GotoFacts DEF Entered, Idle
  <2>4. CASE UnlockRefused(w)
    BY <2>4, GotoFacts DEF Written, Entered, UnlockRefused, Idle
  <2> QED
    BY <1>7, <2>1, <2>2, <2>3, <2>4 DEF GetKeyStep
<1> QED
  BY <1>2, <1>3, <1>4, <1>5, <1>6, <1>7 DEF ServerStep, Entered
-----------------------------------------------------------------------------
(* What has been stored or told stays *)

\* One row is appended to the encryption of the worker that inserts.
LEMMA InsertEffect ==
  ASSUME TypeOK, NEW w \in Workers, InsertRow(w)
  PROVE  LET e == job[w].enc
             n == job[w].done
         IN /\ job[w] \in InsertType
            /\ e \in EncryptionIds /\ n + 1 \in DOMAIN job[w].rows
            /\ encryptKeys[e] \in Seq(Row) /\ job[w].rows[n + 1] \in Row
            /\ encryptKeys'[e] = Append(encryptKeys[e], job[w].rows[n + 1])
            /\ \A d \in EncryptionIds \ {e} : encryptKeys'[d] = encryptKeys[d]
            /\ job'[w].enc = e /\ job'[w].rows = job[w].rows /\ job'[w].done = n + 1
            /\ users' = users /\ shaKeys' = shaKeys /\ drawn' = drawn
<1>1. job[w] \in InsertType
  BY JobTypes DEF InsertRow
<1>2. job'[w] = [job[w] EXCEPT !.done = job[w].done + 1]
  BY GotoFacts DEF InsertRow
<1>3. /\ job'[w].enc = job[w].enc /\ job'[w].rows = job[w].rows
      /\ job'[w].done = job[w].done + 1
  BY <1>1, <1>2 DEF InsertType
<1> QED
  BY <1>1, <1>3 DEF InsertRow, InsertType, TypeOK, told

\* No handler changes what another may already have read or been told.
LEMMA GrowthStep ==
  ASSUME IInv, [Next]_vars
  PROVE  Growth
<1>1. TypeOK /\ Written
  BY Writers DEF IInv
<1>2. \A u \in DOMAIN users : u \in DOMAIN users' /\ users'[u] = users[u]
  <2>1. ASSUME NEW w \in Workers, NEW name \in Names, NEW secret \in Secrets,
               CreateUser(w, name, secret)
        PROVE  \A u \in DOMAIN users : u \in DOMAIN users' /\ users'[u] = users[u]
    <3>1. users \in Seq(User) /\ [name |-> name, secret |-> secret] \in User
      BY <1>1 DEF TypeOK, User
    <3>2. users' = Append(users, [name |-> name, secret |-> secret])
      BY <2>1 DEF CreateUser
    <3> QED
      BY <3>1, <3>2, AppendKeeps
  <2> QED
    BY <1>1, <2>1 DEF Written
<1>3. \A e \in EncryptionIds : \A i \in DOMAIN encryptKeys[e] :
        i \in DOMAIN encryptKeys'[e] /\ encryptKeys'[e][i] = encryptKeys[e][i]
  <2>1. ASSUME NEW w \in Workers, InsertRow(w),
               NEW e \in EncryptionIds, NEW i \in DOMAIN encryptKeys[e]
        PROVE  i \in DOMAIN encryptKeys'[e] /\ encryptKeys'[e][i] = encryptKeys[e][i]
    <3>1. CASE e = job[w].enc
      BY <1>1, <2>1, <3>1, InsertEffect, AppendKeeps
    <3>2. CASE e # job[w].enc
      BY <1>1, <2>1, <3>2, InsertEffect
    <3> QED
      BY <3>1, <3>2
  <2> QED
    BY <1>1, <2>1 DEF Written
<1>4. \A e \in DOMAIN shaKeys : e \in DOMAIN shaKeys' /\ shaKeys'[e] = shaKeys[e]
  <2>1. ASSUME NEW w \in Workers, SetupReply(w)
        PROVE  \A e \in DOMAIN shaKeys : e \in DOMAIN shaKeys' /\ shaKeys'[e] = shaKeys[e]
    <3>1. shaKeys' = Put(shaKeys, job[w].enc, Plains(job[w].rows))
      BY <2>1 DEF SetupReply
    <3>2. job[w].enc \notin DOMAIN shaKeys
      BY <2>1 DEF SetupReply, IInv, InsertsOwned, InsertOwned
    <3> QED
      BY <3>1, <3>2 DEF Put
  <2> QED
    BY <1>1, <2>1 DEF Written
<1>5. \A e \in DOMAIN shaKeys : encryptKeys'[e] = encryptKeys[e]
  <2>1. ASSUME NEW w \in Workers, InsertRow(w), NEW e \in DOMAIN shaKeys
        PROVE  encryptKeys'[e] = encryptKeys[e]
    <3>1. e \in EncryptionIds /\ e # job[w].enc
      BY <1>1, <2>1 DEF TypeOK, PartialFunction, IInv, InsertsOwned, InsertOwned, InsertRow
    <3> QED
      BY <1>1, <2>1, <3>1, InsertEffect
  <2> QED
    BY <1>1, <2>1 DEF Written
<1>6. \A r \in DOMAIN requests : r \in DOMAIN requests' /\ requests'[r] = requests[r]
  <2>1. ASSUME NEW w \in Workers, StoreRequest(w)
        PROVE  \A r \in DOMAIN requests : r \in DOMAIN requests' /\ requests'[r] = requests[r]
    <3>1. requests' = Put(requests, job[w].req, job[w].chals)
      BY <2>1 DEF StoreRequest
    <3>2. job[w].req \notin DOMAIN requests
      BY <2>1 DEF StoreRequest, IInv, IssuesRight, IssueRight
    <3> QED
      BY <3>1, <3>2 DEF Put
  <2> QED
    BY <1>1, <2>1 DEF Written
<1>7. \A c \in DOMAIN issued : c \in DOMAIN issued' /\ issued'[c] = issued[c]
  <2>1. ASSUME NEW w \in Workers, CreateChallenge(w), NEW c \in DOMAIN issued
        PROVE  c \in DOMAIN issued' /\ issued'[c] = issued[c]
    <3>1. PICK d \in ChallengeIds \ drawn : \E entity : issued' = Put(issued, d, entity)
      BY <2>1 DEF CreateChallenge
    <3>2. c # d
      BY <3>1 DEF IInv, DrawnFirst
    <3> QED
      BY <3>1, <3>2 DEF Put
  <2> QED
    BY <1>1, <2>1 DEF Written
<1>8. answered \subseteq answered'
  BY <1>1 DEF Written, StoreResponse
<1> QED
  BY <1>2, <1>3, <1>4, <1>5, <1>6, <1>7, <1>8 DEF Growth, StoresGrow
-----------------------------------------------------------------------------
(* The parts of the inductive invariant, one after the other *)

\* Rows stay the rows Setup computed.
LEMMA RowsStep ==
  ASSUME IInv, [Next]_vars
  PROVE  RowsRight'
<1>1. TypeOK /\ Written /\ Growth
  BY Writers, GrowthStep DEF IInv
<1> SUFFICES ASSUME NEW e \in EncryptionIds, NEW i \in DOMAIN encryptKeys'[e]
             PROVE  IsRow(encryptKeys[e][i], e, i)'
  BY DEF RowsRight
<1>2. CASE i \in DOMAIN encryptKeys[e]
  <2>1. IsRow(encryptKeys[e][i], e, i) /\ encryptKeys'[e][i] = encryptKeys[e][i]
    BY <1>1, <1>2 DEF IInv, RowsRight, Growth, StoresGrow
  <2> QED
    BY <1>1, <2>1 DEF IsRow, Growth, StoresGrow
<1>3. CASE i \notin DOMAIN encryptKeys[e]
  <2>1. PICK w \in Workers : InsertRow(w)
    BY <1>1, <1>3 DEF Written
  <2>2. e = job[w].enc
    BY <1>1, <1>3, <2>1, InsertEffect
  <2>3. /\ Len(encryptKeys[e]) = job[w].done
        /\ IsRow(job[w].rows[job[w].done + 1], e, job[w].done + 1)
    BY <1>1, <2>1, <2>2, InsertEffect DEF IInv, InsertsOwned, InsertOwned, InsertRow
  <2>4. i = job[w].done + 1 /\ encryptKeys'[e][i] = job[w].rows[job[w].done + 1]
    BY <1>1, <1>3, <2>1, <2>2, <2>3, InsertEffect, AppendKeeps
  <2> QED
    BY <1>1, <2>3, <2>4 DEF IsRow, Growth, StoresGrow
<1> QED
  BY <1>2, <1>3
\* No Guid is ever given back.
LEMMA DrawnGrows ==
  ASSUME TypeOK, [Next]_vars
  PROVE  drawn \subseteq drawn'
BY Writers DEF Written, Setup, DecryptBegin, CreateChallenge

\* What the actions that draw a Guid do with it.
LEMMA SetupEffect ==
  ASSUME TypeOK, NEW w \in Workers, NEW names \in NameLists, Setup(w, names)
  PROVE  \E e \in EncryptionIds \ drawn :
           /\ drawn' = drawn \cup {e}
           /\ job'[w].step = "insert" /\ job'[w].enc = e /\ job'[w].done = 0
           /\ job'[w].rows # <<>> /\ job'[w].rows \in Seq(Row)
           /\ \A i \in DOMAIN job'[w].rows : IsRow(job'[w].rows[i], e, i)
           /\ encryptKeys' = encryptKeys /\ users' = users /\ shaKeys' = shaKeys
<1> DEFINE found == UsersNamed(names)
<1>1. PICK e \in EncryptionIds \ drawn, list \in [1 .. Cardinality(found) -> found] :
        /\ drawn' = drawn \cup {e}
        /\ Goto(w, InsertJob(e, names,
                     [i \in DOMAIN list |-> EncryptionEntity(e, i, list[i])]))
  BY DEF Setup
<1>2. Cardinality(found) \in Nat /\ Cardinality(found) # 0
  <2>1. PICK n \in 0 .. MaxNames : names \in [1 .. n -> Names]
    BY DEF NameLists
  <2>2. Len(names) = n /\ n # 0
    BY <2>1 DEF Setup
  <2> QED
    BY <2>2 DEF Setup, CountMatches
<1> DEFINE rows == [i \in DOMAIN list |-> EncryptionEntity(e, i, list[i])]
<1>3. \A i \in DOMAIN list :
        i \in Nat /\ list[i] \in DOMAIN users /\ list[i] \in Nat
        /\ users[list[i]].secret \in Secrets
  BY <1>2, UserFacts DEF UsersNamed
<1>4. \A i \in DOMAIN rows : rows[i] = EncryptionEntity(e, i, list[i])
  OBVIOUS
<1>5. \A i \in DOMAIN rows : rows[i] \in Row /\ IsRow(rows[i], e, i)
  BY <1>3, <1>4 DEF EncryptionEntity, Row, IsRow, HMACSHA1, GenerateChallenge,
                    RowIds, Answer, Challenge
<1>6. rows \in Seq(Row) /\ rows # <<>>
  BY <1>2, <1>5
<1>7. job'[w] = InsertJob(e, names, rows)
  BY <1>1, GotoFacts
<1>8. encryptKeys' = encryptKeys /\ users' = users /\ shaKeys' = shaKeys
  BY DEF Setup, mysql, told
<1>9. /\ job'[w].step = "insert" /\ job'[w].enc = e /\ job'[w].done = 0
      /\ job'[w].rows = rows
  BY <1>7 DEF InsertJob
<1> HIDE DEF rows
<1> QED
  BY <1>1, <1>5, <1>6, <1>8, <1>9

\* Decrypt starts with the rows of a told encryption and a fresh request id.
LEMMA DecryptEffect ==
  ASSUME TypeOK, NEW w \in Workers, NEW e \in EncryptionIds, DecryptBegin(w, e)
  PROVE  \E r \in RequestIds \ drawn :
           /\ drawn' = drawn \cup {r}
           /\ job'[w].req = r /\ job'[w].enc = e
           /\ job'[w].rows = encryptKeys[e] /\ job'[w].chals = <<>>
           /\ e \in DOMAIN shaKeys
           /\ encryptKeys' = encryptKeys /\ shaKeys' = shaKeys /\ requests' = requests
BY GotoFacts DEF DecryptBegin, IssueJob, mysql, redis, told

\* CreateChallenge issues the next row's challenge under a fresh id.
LEMMA ChallengeEffect ==
  ASSUME TypeOK, NEW w \in Workers, CreateChallenge(w)
  PROVE  LET i == Len(job[w].chals) + 1
             e == job[w].enc
             entity == ChallengeEntity(job[w].rows[i], <<e, i>>)
         IN \E c \in ChallengeIds \ drawn :
              /\ job[w] \in IssueType /\ i \in DOMAIN job[w].rows
              /\ drawn' = drawn \cup {c}
              /\ challenges' = Put(challenges, c, entity)
              /\ issued' = Put(issued, c, entity)
              /\ job'[w].chals = Append(job[w].chals, c)
              /\ job'[w].req = job[w].req /\ job'[w].enc = job[w].enc
              /\ job'[w].rows = job[w].rows
              /\ encryptKeys' = encryptKeys /\ shaKeys' = shaKeys /\ requests' = requests
<1>1. job[w] \in IssueType
  BY JobTypes DEF CreateChallenge
<1>2. Len(job[w].chals) + 1 \in DOMAIN job[w].rows
  BY <1>1 DEF CreateChallenge, IssueType
<1>3. PICK c \in ChallengeIds \ drawn :
        LET entity == ChallengeEntity(job[w].rows[Len(job[w].chals) + 1],
                                      <<job[w].enc, Len(job[w].chals) + 1>>)
        IN /\ drawn' = drawn \cup {c}
           /\ challenges' = Put(challenges, c, entity)
           /\ issued' = Put(issued, c, entity)
           /\ Goto(w, [job[w] EXCEPT !.chals = Append(@, c)])
  BY DEF CreateChallenge
<1>4. job'[w] = [job[w] EXCEPT !.chals = Append(@, c)]
  BY <1>3, GotoFacts
<1>5. /\ job'[w].chals = Append(job[w].chals, c)
      /\ job'[w].req = job[w].req /\ job'[w].enc = job[w].enc
      /\ job'[w].rows = job[w].rows
  BY <1>1, <1>4 DEF IssueType
<1>6. encryptKeys' = encryptKeys /\ shaKeys' = shaKeys /\ requests' = requests
  BY DEF CreateChallenge, mysql, told
<1> QED
  BY <1>1, <1>2, <1>3, <1>4, <1>5, <1>6
\* Whatever is mentioned after a step has been drawn.
LEMMA DrawnStep ==
  ASSUME IInv, [Next]_vars
  PROVE  DrawnFirst'
<1>1. TypeOK /\ Written /\ Growth /\ drawn \subseteq drawn' /\ \A w \in Workers : Entered(w)
  BY Writers, GrowthStep, DrawnGrows DEF IInv
<1>2. ASSUME NEW e \in EncryptionIds, encryptKeys'[e] # <<>>
      PROVE  e \in drawn'
  <2>1. CASE encryptKeys' = encryptKeys
    BY <1>1, <1>2, <2>1 DEF IInv, DrawnFirst
  <2>2. ASSUME NEW w \in Workers, InsertRow(w)
        PROVE  e \in drawn'
    BY <1>1, <1>2, <2>2, InsertEffect DEF IInv, DrawnFirst, InsertRow
  <2> QED
    BY <1>1, <2>1, <2>2 DEF Written
<1>3. DOMAIN shaKeys' \subseteq drawn'
  <2>1. ASSUME NEW w \in Workers, SetupReply(w)
        PROVE  DOMAIN shaKeys' \subseteq drawn'
    BY <1>1, <2>1 DEF SetupReply, Put, IInv, DrawnFirst
  <2> QED
    BY <1>1, <2>1 DEF Written, IInv, DrawnFirst
<1>4. DOMAIN requests' \subseteq drawn'
  <2>1. ASSUME NEW w \in Workers, StoreRequest(w)
        PROVE  DOMAIN requests' \subseteq drawn'
    BY <1>1, <2>1 DEF StoreRequest, Put, IInv, DrawnFirst
  <2> QED
    BY <1>1, <2>1 DEF Written, IInv, DrawnFirst
<1>5. DOMAIN issued' \subseteq drawn'
  <2>1. ASSUME NEW w \in Workers, CreateChallenge(w)
        PROVE  DOMAIN issued' \subseteq drawn'
    BY <1>1, <2>1 DEF CreateChallenge, Put, IInv, DrawnFirst
  <2> QED
    BY <1>1, <2>1 DEF Written, IInv, DrawnFirst
<1>6. ASSUME NEW w \in Workers, At(w, "insert")'
      PROVE  job'[w].enc \in drawn'
  <2>1. CASE job'[w] = job[w]
    BY <1>1, <1>6, <2>1 DEF At, IInv, DrawnFirst
  <2>2. CASE InsertRow(w)
    BY <1>1, <1>6, <2>2, JobTypes, GotoFacts DEF InsertRow, InsertType, IInv, DrawnFirst
  <2>3. ASSUME NEW names \in NameLists, Setup(w, names)
        PROVE  job'[w].enc \in drawn'
    BY <1>1, <2>3, SetupEffect
  <2> QED
    BY <1>1, <1>6, <2>1, <2>2, <2>3 DEF Entered, At
<1>7. ASSUME NEW w \in Workers, At(w, "issue")'
      PROVE  job'[w].req \in drawn'
  <2>1. CASE job'[w] = job[w]
    BY <1>1, <1>7, <2>1 DEF At, IInv, DrawnFirst
  <2>2. CASE CreateChallenge(w)
    <3>1. job'[w].req = job[w].req
      BY <1>1, <2>2, ChallengeEffect
    <3> QED
      BY <1>1, <2>2, <3>1 DEF CreateChallenge, IInv, DrawnFirst
  <2>3. ASSUME NEW e \in EncryptionIds, DecryptBegin(w, e)
        PROVE  job'[w].req \in drawn'
    BY <1>1, <2>3, DecryptEffect
  <2> QED
    BY <1>1, <1>7, <2>1, <2>2, <2>3 DEF Entered, At
<1> QED
  BY <1>2, <1>3, <1>4, <1>5, <1>6, <1>7 DEF DrawnFirst
\* A Setup keeps its EncryptionId to itself until it replies.
LEMMA InsertsStep ==
  ASSUME IInv, [Next]_vars
  PROVE  InsertsOwned'
<1>1. /\ TypeOK /\ Written /\ Growth /\ drawn \subseteq drawn'
      /\ \A w \in Workers : Entered(w)
  BY Writers, GrowthStep, DrawnGrows DEF IInv
<1> SUFFICES ASSUME NEW w \in Workers, job'[w].step = "insert"
             PROVE  InsertOwned(w)'
  BY DEF InsertsOwned, At
<1>2. CASE job'[w] = job[w]
  <2>1. At(w, "insert") /\ job[w] \in InsertType
    BY <1>1, <1>2, JobTypes DEF At
  <2>2. job[w].enc \notin DOMAIN shaKeys'
    <3>1. ASSUME NEW v \in Workers, SetupReply(v)
          PROVE  job[w].enc \notin DOMAIN shaKeys'
      <4>1. v # w
        BY <1>1, <1>2, <2>1, <3>1, GotoFacts DEF SetupReply, At, Idle
      <4>2. shaKeys' = Put(shaKeys, job[v].enc, Plains(job[v].rows)) /\ At(v, "insert")
        BY <3>1 DEF SetupReply
      <4> QED
        BY <2>1, <4>1, <4>2 DEF Put, IInv, InsertsOwned, InsertOwned
    <3> QED
      BY <1>1, <2>1, <3>1 DEF Written, IInv, InsertsOwned, InsertOwned
  <2>3. encryptKeys'[job[w].enc] = encryptKeys[job[w].enc]
    <3>1. ASSUME NEW v \in Workers, InsertRow(v)
          PROVE  encryptKeys'[job[w].enc] = encryptKeys[job[w].enc]
      <4>1. v # w
        BY <1>1, <1>2, <2>1, <3>1, InsertEffect DEF InsertType
      <4>2. job[w].enc # job[v].enc /\ job[w].enc \in EncryptionIds
        BY <2>1, <3>1, <4>1 DEF InsertRow, IInv, InsertsOwned, InsertOwned, InsertType
      <4> QED
        BY <1>1, <3>1, <4>2, InsertEffect
    <3> QED
      BY <1>1, <3>1 DEF Written
  <2>4. \A i \in DOMAIN job[w].rows : IsRow(job[w].rows[i], job[w].enc, i)'
    BY <1>1, <1>2, <2>1 DEF IInv, InsertsOwned, InsertOwned, IsRow, Growth, StoresGrow
  <2>5. ASSUME NEW v \in Workers \ {w}, job'[v].step = "insert"
        PROVE  job'[v].enc # job[w].enc
    <3>1. CASE job'[v] = job[v]
      BY <2>1, <2>5, <3>1 DEF IInv, InsertsOwned, InsertOwned, At
    <3>2. CASE InsertRow(v)
      <4>1. job'[v].enc = job[v].enc /\ At(v, "insert")
        BY <1>1, <3>2, InsertEffect DEF InsertRow
      <4> QED
        BY <2>1, <4>1 DEF IInv, InsertsOwned, InsertOwned
    <3>3. ASSUME NEW names \in NameLists, Setup(v, names)
          PROVE  job'[v].enc # job[w].enc
      BY <1>1, <2>1, <3>3, SetupEffect DEF IInv, DrawnFirst
    <3> QED
      BY <1>1, <2>5, <3>1, <3>2, <3>3 DEF Entered
  <2> QED
    BY <1>2, <2>1, <2>2, <2>3, <2>4, <2>5 DEF IInv, InsertsOwned, InsertOwned, At
<1>3. CASE InsertRow(w)
  <2> DEFINE e == job[w].enc
             n == job[w].done
  <2>1. /\ At(w, "insert") /\ job[w] \in InsertType
        /\ job'[w].enc = e /\ job'[w].rows = job[w].rows /\ job'[w].done = n + 1
        /\ shaKeys' = shaKeys /\ drawn' = drawn
    BY <1>1, <1>3, InsertEffect DEF InsertRow
  <2>2. /\ n + 1 \in DOMAIN job[w].rows /\ n \in Nat /\ Len(encryptKeys[e]) = n
        /\ encryptKeys'[e] = Append(encryptKeys[e], job[w].rows[n + 1])
        /\ encryptKeys[e] \in Seq(Row) /\ job[w].rows[n + 1] \in Row
    BY <1>1, <1>3, <2>1, InsertEffect DEF IInv, InsertsOwned, InsertOwned, InsertType
  <2>3. Len(encryptKeys'[e]) = n + 1
    BY <2>2, AppendKeeps
  <2>4. \A i \in 1 .. n + 1 : encryptKeys'[e][i] = job[w].rows[i]
    BY <2>1, <2>2, AppendKeeps DEF IInv, InsertsOwned, InsertOwned
  <2>5. \A i \in DOMAIN job[w].rows : IsRow(job[w].rows[i], job[w].enc, i)'
    BY <1>1, <2>1 DEF IInv, InsertsOwned, InsertOwned, IsRow, Growth, StoresGrow
  <2>6. ASSUME NEW v \in Workers \ {w}, job'[v].step = "insert"
        PROVE  job'[v].enc # e
    BY <1>1, <1>3, <2>1, <2>6, GotoFacts DEF InsertRow, IInv, InsertsOwned, InsertOwned, At
  <2>7. e \notin DOMAIN shaKeys /\ job[w].rows # <<>> /\ n + 1 \in 0 .. Len(job[w].rows)
    BY <2>1, <2>2 DEF IInv, InsertsOwned, InsertOwned, InsertType
  <2> QED
    BY <2>1, <2>3, <2>4, <2>5, <2>6, <2>7 DEF InsertOwned, At
<1>4. ASSUME NEW names \in NameLists, Setup(w, names)
      PROVE  InsertOwned(w)'
  <2>1. PICK e \in EncryptionIds \ drawn :
           /\ drawn' = drawn \cup {e}
           /\ job'[w].enc = e /\ job'[w].done = 0
           /\ job'[w].rows # <<>> /\ job'[w].rows \in Seq(Row)
           /\ \A i \in DOMAIN job'[w].rows : IsRow(job'[w].rows[i], e, i)
           /\ encryptKeys' = encryptKeys /\ users' = users /\ shaKeys' = shaKeys
    BY <1>1, <1>4, SetupEffect
  <2>2. e \notin DOMAIN shaKeys /\ encryptKeys[e] = <<>>
    BY <2>1 DEF IInv, DrawnFirst
  <2>3. \A i \in DOMAIN job'[w].rows : IsRow(job[w].rows[i], job[w].enc, i)'
    BY <2>1 DEF IsRow
  <2>4. ASSUME NEW v \in Workers \ {w}, job'[v].step = "insert"
        PROVE  job'[v].enc # e
    <3>1. job'[v] = job[v]
      BY <1>1, <1>4, GotoFacts DEF Setup
    <3> QED
      BY <2>1, <2>4, <3>1 DEF IInv, DrawnFirst, At
  <2> QED
    BY <2>1, <2>2, <2>3, <2>4 DEF InsertOwned, At
<1> QED
  BY <1>1, <1>2, <1>3, <1>4 DEF Entered
\* SetupReply tells of an encryption once its last row is in.
LEMMA SetupCompleteStep ==
  ASSUME IInv, [Next]_vars
  PROVE  SetupComplete'
<1>1. TypeOK /\ Written /\ Growth
  BY Writers, GrowthStep DEF IInv
<1> SUFFICES ASSUME NEW e \in DOMAIN shaKeys'
             PROVE  Plains(encryptKeys'[e]) = shaKeys'[e] /\ shaKeys'[e] # <<>>
  BY DEF SetupComplete, Plains
<1>2. CASE e \in DOMAIN shaKeys
  BY <1>1, <1>2 DEF Growth, StoresGrow, IInv, SetupComplete
<1>3. CASE e \notin DOMAIN shaKeys
  <2>1. PICK w \in Workers : SetupReply(w)
    BY <1>1, <1>3 DEF Written
  <2>2. /\ At(w, "insert") /\ job[w].done = Len(job[w].rows)
        /\ shaKeys' = Put(shaKeys, job[w].enc, Plains(job[w].rows))
        /\ encryptKeys' = encryptKeys
    BY <2>1 DEF SetupReply, AllInserted, mysql
  <2>3. job[w] \in InsertType /\ InsertOwned(w)
    BY <1>1, <2>2, JobTypes DEF IInv, InsertsOwned
  <2>4. e = job[w].enc /\ shaKeys'[e] = Plains(job[w].rows)
    BY <1>3, <2>2 DEF Put
  <2>5. encryptKeys[e] = job[w].rows
    <3>1. encryptKeys[e] \in Seq(Row) /\ job[w].rows \in Seq(Row)
      BY <1>1, <2>3, <2>4 DEF TypeOK, InsertType
    <3>2. /\ Len(encryptKeys[e]) = Len(job[w].rows)
          /\ \A i \in 1 .. Len(job[w].rows) : encryptKeys[e][i] = job[w].rows[i]
      BY <2>2, <2>3, <2>4 DEF InsertOwned
    <3> QED
      BY <3>1, <3>2
  <2>6. Plains(job[w].rows) # <<>>
    BY <2>3 DEF InsertOwned, InsertType, Plains
  <2> QED
    BY <2>2, <2>4, <2>5, <2>6
<1> QED
  BY <1>2, <1>3

\* A Decrypt keeps its request to itself, and has issued in row order.
LEMMA IssuesStep ==
  ASSUME IInv, [Next]_vars
  PROVE  IssuesRight'
<1>1. /\ TypeOK /\ Written /\ Growth /\ drawn \subseteq drawn'
      /\ \A w \in Workers : Entered(w)
  BY Writers, GrowthStep, DrawnGrows DEF IInv
<1> SUFFICES ASSUME NEW w \in Workers, job'[w].step = "issue"
             PROVE  IssueRight(w)'
  BY DEF IssuesRight, At
<1>2. CASE job'[w] = job[w]
  <2>1. At(w, "issue") /\ job[w] \in IssueType /\ IssueRight(w)
    BY <1>1, <1>2, JobTypes DEF At, IInv, IssuesRight
  <2>2. job[w].req \notin DOMAIN requests'
    <3>1. ASSUME NEW v \in Workers, StoreRequest(v)
          PROVE  job[w].req \notin DOMAIN requests'
      <4>1. v # w
        BY <1>1, <1>2, <2>1, <3>1, GotoFacts DEF StoreRequest, At, Idle
      <4>2. requests' = Put(requests, job[v].req, job[v].chals) /\ At(v, "issue")
        BY <3>1 DEF StoreRequest
      <4> QED
        BY <2>1, <4>1, <4>2 DEF Put, IssueRight
    <3> QED
      BY <1>1, <2>1, <3>1 DEF Written, IssueRight
  <2>3. Issued(job[w].chals, job[w].enc)'
    BY <1>1, <1>2, <2>1 DEF IssueRight, Issued, Growth, StoresGrow
  <2>4. ASSUME NEW v \in Workers \ {w}, job'[v].step = "issue"
        PROVE  job'[v].req # job[w].req
    <3>1. CASE job'[v] = job[v]
      BY <2>1, <2>4, <3>1 DEF IssueRight, At
    <3>2. CASE CreateChallenge(v)
      <4>1. job'[v].req = job[v].req /\ At(v, "issue")
        BY <1>1, <3>2, ChallengeEffect DEF CreateChallenge
      <4> QED
        BY <2>1, <4>1 DEF IssueRight
    <3>3. ASSUME NEW e \in EncryptionIds, DecryptBegin(v, e)
          PROVE  job'[v].req # job[w].req
      BY <1>1, <2>1, <3>3, DecryptEffect DEF IInv, DrawnFirst
    <3> QED
      BY <1>1, <2>4, <3>1, <3>2, <3>3 DEF Entered
  <2>5. job[w].enc \in DOMAIN shaKeys' /\ job[w].rows = encryptKeys'[job[w].enc]
    BY <1>1, <2>1 DEF IssueRight, Growth, StoresGrow
  <2> QED
    BY <1>2, <2>1, <2>2, <2>3, <2>4, <2>5 DEF IssueRight, At
<1>3. CASE CreateChallenge(w)
  <2> DEFINE i == Len(job[w].chals) + 1
             e == job[w].enc
             entity == ChallengeEntity(job[w].rows[i], <<e, i>>)
  <2>1. PICK c \in ChallengeIds \ drawn :
              /\ job[w] \in IssueType /\ i \in DOMAIN job[w].rows
              /\ issued' = Put(issued, c, entity)
              /\ job'[w].chals = Append(job[w].chals, c)
              /\ job'[w].req = job[w].req /\ job'[w].enc = e
              /\ job'[w].rows = job[w].rows
              /\ encryptKeys' = encryptKeys /\ shaKeys' = shaKeys /\ requests' = requests
    BY <1>1, <1>3, ChallengeEffect
  <2>2. At(w, "issue") /\ IssueRight(w)
    BY <1>3 DEF CreateChallenge, IInv, IssuesRight
  <2>3. job[w].chals \in Seq(ChallengeIds) /\ job[w].rows \in Seq(Row)
    BY <2>1 DEF IssueType
  <2>4. Len(job'[w].chals) = i /\ i <= Len(job[w].rows)
    BY <2>1, <2>3, AppendKeeps
  <2>5. ASSUME NEW k \in DOMAIN job'[w].chals
        PROVE  job'[w].chals[k] \in DOMAIN issued' /\ issued'[job'[w].chals[k]].row = <<e, k>>
    <3>1. CASE k \in DOMAIN job[w].chals
      <4>1. job'[w].chals[k] = job[w].chals[k]
        BY <2>1, <2>3, <3>1, AppendKeeps
      <4> QED
        BY <1>1, <2>2, <3>1, <4>1 DEF IssueRight, Issued, Growth, StoresGrow
    <3>2. CASE k = i
      <4>1. job'[w].chals[k] = c
        BY <2>1, <2>3, <3>2, AppendKeeps
      <4>2. issued'[c] = entity /\ c \in DOMAIN issued'
        BY <2>1 DEF Put
      <4>3. entity.row = <<e, k>>
        BY <3>2 DEF ChallengeEntity
      <4> QED
        BY <4>1, <4>2, <4>3
    <3> QED
      <4>1. DOMAIN job'[w].chals = DOMAIN job[w].chals \cup {i}
        BY <2>1, <2>3, AppendKeeps
      <4> QED
        BY <2>5, <3>1, <3>2, <4>1
  <2>6. ASSUME NEW v \in Workers \ {w}, job'[v].step = "issue"
        PROVE  job'[v].req # job[w].req
    BY <1>1, <1>3, <2>2, <2>6, GotoFacts DEF CreateChallenge, IssueRight, At
  <2> QED
    BY <2>1, <2>2, <2>4, <2>5, <2>6 DEF IssueRight, Issued, At
<1>4. ASSUME NEW e \in EncryptionIds, DecryptBegin(w, e)
      PROVE  IssueRight(w)'
  <2>1. PICK r \in RequestIds \ drawn :
           /\ job'[w].req = r /\ job'[w].enc = e
           /\ job'[w].rows = encryptKeys[e] /\ job'[w].chals = <<>>
           /\ e \in DOMAIN shaKeys
           /\ encryptKeys' = encryptKeys /\ shaKeys' = shaKeys /\ requests' = requests
    BY <1>1, <1>4, DecryptEffect
  <2>2. r \notin DOMAIN requests
    BY <2>1 DEF IInv, DrawnFirst
  <2>3. ASSUME NEW v \in Workers \ {w}, job'[v].step = "issue"
        PROVE  job'[v].req # r
    <3>1. job'[v] = job[v]
      BY <1>1, <1>4, GotoFacts DEF DecryptBegin
    <3> QED
      BY <2>1, <2>3, <3>1 DEF IInv, DrawnFirst, At
  <2>4. encryptKeys[e] \in Seq(Row)
    BY <1>1 DEF TypeOK
  <2> QED
    BY <2>1, <2>2, <2>3, <2>4 DEF IssueRight, Issued, At
<1> QED
  BY <1>1, <1>2, <1>3, <1>4 DEF Entered
\* A stored request keeps covering the rows of its encryption.
LEMMA RequestsStep ==
  ASSUME IInv, [Next]_vars
  PROVE  RequestsRight'
<1>1. TypeOK /\ Written /\ Growth
  BY Writers, GrowthStep DEF IInv
<1> SUFFICES ASSUME NEW r \in DOMAIN requests'
             PROVE  \E e \in DOMAIN shaKeys' :
                      /\ Len(requests'[r]) = Len(encryptKeys'[e])
                      /\ \A i \in DOMAIN requests'[r] :
                           /\ requests'[r][i] \in DOMAIN issued'
                           /\ issued'[requests'[r][i]].row = <<e, i>>
  BY DEF RequestsRight, Issued
<1>2. CASE r \in DOMAIN requests
  <2>1. PICK e \in DOMAIN shaKeys :
          Len(requests[r]) = Len(encryptKeys[e]) /\ Issued(requests[r], e)
    BY <1>2 DEF IInv, RequestsRight
  <2> QED
    BY <1>1, <1>2, <2>1 DEF Growth, StoresGrow, Issued
<1>3. CASE r \notin DOMAIN requests
  <2>1. PICK w \in Workers : StoreRequest(w)
    BY <1>1, <1>3 DEF Written
  <2>2. /\ At(w, "issue") /\ Len(job[w].chals) = Len(job[w].rows)
        /\ requests' = Put(requests, job[w].req, job[w].chals)
        /\ encryptKeys' = encryptKeys /\ shaKeys' = shaKeys /\ issued' = issued
    BY <2>1 DEF StoreRequest, AllIssued, mysql, told, history
  <2>3. r = job[w].req /\ requests'[r] = job[w].chals
    BY <1>3, <2>2 DEF Put
  <2>4. IssueRight(w)
    BY <2>2 DEF IInv, IssuesRight
  <2> QED
    BY <2>2, <2>3, <2>4 DEF IssueRight, Issued
<1> QED
  BY <1>2, <1>3

\* An issued challenge stays one for a stored row.
LEMMA IssuedStep ==
  ASSUME IInv, [Next]_vars
  PROVE  IssuedRight'
<1>1. TypeOK /\ Written /\ Growth
  BY Writers, GrowthStep DEF IInv
<1> SUFFICES ASSUME NEW c \in DOMAIN issued'
             PROVE  \E e \in DOMAIN shaKeys' : \E i \in DOMAIN encryptKeys'[e] :
                      issued'[c] = ChallengeEntity(encryptKeys'[e][i], <<e, i>>)
  BY DEF IssuedRight, ChallengeEntity, GenerateChallenge
<1>2. CASE c \in DOMAIN issued
  BY <1>1, <1>2 DEF IInv, IssuedRight, Growth, StoresGrow
<1>3. CASE c \notin DOMAIN issued
  <2>1. PICK w \in Workers : CreateChallenge(w)
    BY <1>1, <1>3 DEF Written
  <2> DEFINE i == Len(job[w].chals) + 1
             e == job[w].enc
             entity == ChallengeEntity(job[w].rows[i], <<e, i>>)
  <2>2. PICK d \in ChallengeIds \ drawn :
              /\ i \in DOMAIN job[w].rows
              /\ issued' = Put(issued, d, entity)
              /\ encryptKeys' = encryptKeys /\ shaKeys' = shaKeys
    BY <1>1, <2>1, ChallengeEffect
  <2>3. issued'[c] = entity
    BY <1>3, <2>2 DEF Put
  <2>4. IssueRight(w)
    BY <2>1 DEF CreateChallenge, IInv, IssuesRight
  <2> QED
    BY <2>2, <2>3, <2>4 DEF IssueRight
<1> QED
  BY <1>2, <1>3

\* A pending challenge is the one that was issued under its id.
LEMMA PendingStep ==
  ASSUME IInv, [Next]_vars
  PROVE  PendingRight'
<1>1. TypeOK /\ Written /\ Growth
  BY Writers, GrowthStep DEF IInv
<1> SUFFICES ASSUME NEW c \in DOMAIN challenges'
             PROVE  c \in DOMAIN issued' /\ challenges'[c] = issued'[c]
  BY DEF PendingRight
<1>2. CASE challenges' = challenges
  BY <1>1, <1>2 DEF IInv, PendingRight, Growth, StoresGrow
<1>3. ASSUME NEW w \in Workers, DeleteChallenge(w)
      PROVE  c \in DOMAIN issued' /\ challenges'[c] = issued'[c]
  <2>1. c \in DOMAIN challenges /\ challenges'[c] = challenges[c]
    BY <1>3 DEF DeleteChallenge, Delete, Restrict
  <2> QED
    BY <1>1, <2>1 DEF IInv, PendingRight, Growth, StoresGrow
<1>4. ASSUME NEW w \in Workers, CreateChallenge(w)
      PROVE  c \in DOMAIN issued' /\ challenges'[c] = issued'[c]
  <2>1. PICK d \in ChallengeIds \ drawn : \E entity :
          challenges' = Put(challenges, d, entity) /\ issued' = Put(issued, d, entity)
    BY <1>4 DEF CreateChallenge
  <2>2. PICK entity :
          challenges' = Put(challenges, d, entity) /\ issued' = Put(issued, d, entity)
    BY <2>1
  <2> QED
    BY <1>1, <2>2 DEF Put, IInv, PendingRight
<1> QED
  BY <1>1, <1>2, <1>3, <1>4 DEF Written

\* A responder holds the row of the challenge it answers.
LEMMA RespondsStep ==
  ASSUME IInv, [Next]_vars
  PROVE  RespondsRight'
<1>1. TypeOK /\ Growth /\ \A w \in Workers : Entered(w)
  BY Writers, GrowthStep DEF IInv
<1> SUFFICES ASSUME NEW w \in Workers, job'[w].step \in {"delete", "store"}
             PROVE  job'[w].chal \in DOMAIN issued' /\ job'[w].row = issued'[job'[w].chal].row
  BY DEF RespondsRight
<1>2. CASE job'[w] = job[w]
  BY <1>1, <1>2 DEF IInv, RespondsRight, Growth, StoresGrow
<1>3. CASE DeleteChallenge(w)
  <2>1. job'[w].chal = job[w].chal /\ job'[w].row = job[w].row /\ At(w, "delete")
    BY <1>1, <1>3, GotoFacts DEF DeleteChallenge, StoreJob
  <2> QED
    BY <1>1, <2>1 DEF IInv, RespondsRight, Growth, StoresGrow, At
<1>4. ASSUME NEW c \in ChallengeIds, NEW secret \in Secrets, RespondBegin(w, c, secret)
      PROVE  job'[w].chal \in DOMAIN issued' /\ job'[w].row = issued'[job'[w].chal].row
  <2>1. job'[w].chal = c /\ job'[w].row = challenges[c].row /\ c \in DOMAIN challenges
    BY <1>1, <1>4, GotoFacts DEF RespondBegin, DeleteJob
  <2> QED
    BY <1>1, <2>1 DEF IInv, PendingRight, Growth, StoresGrow
<1> QED
  BY <1>1, <1>2, <1>3, <1>4 DEF Entered

\* A stored response names its challenge's row and an answer given to it.
LEMMA ResponsesStep ==
  ASSUME IInv, [Next]_vars
  PROVE  ResponsesRight'
<1>1. TypeOK /\ Written /\ Growth
  BY Writers, GrowthStep DEF IInv
<1> SUFFICES ASSUME NEW c \in DOMAIN responses'
             PROVE  IsResponse(responses[c], c)'
  BY DEF ResponsesRight
<1>2. CASE responses' = responses
  BY <1>1, <1>2 DEF IInv, ResponsesRight, IsResponse, Growth, StoresGrow
<1>3. ASSUME NEW w \in Workers, StoreResponse(w)
      PROVE  IsResponse(responses[c], c)'
  <2>1. /\ At(w, "store")
        /\ responses' = Put(responses, job[w].chal, [row |-> job[w].row, key |-> job[w].key])
        /\ answered' = answered \cup {<<job[w].chal, job[w].key>>}
        /\ issued' = issued
    BY <1>3 DEF StoreResponse
  <2>2. CASE c = job[w].chal
    BY <2>1, <2>2 DEF Put, IInv, RespondsRight, IsResponse, At
  <2>3. CASE c # job[w].chal
    <3>1. c \in DOMAIN responses /\ responses'[c] = responses[c]
      BY <2>1, <2>3 DEF Put
    <3> QED
      BY <1>1, <3>1 DEF IInv, ResponsesRight, IsResponse, Growth, StoresGrow
  <2> QED
    BY <2>2, <2>3
<1> QED
  BY <1>1, <1>2, <1>3 DEF Written
\* A collector holds responses to its request's challenges, in order.
LEMMA CollectsStep ==
  ASSUME IInv, [Next]_vars
  PROVE  CollectsRight'
<1>1. TypeOK /\ Growth /\ \A w \in Workers : Entered(w)
  BY Writers, GrowthStep DEF IInv
<1> SUFFICES ASSUME NEW w \in Workers, job'[w].step = "collect"
             PROVE  CollectRight(w)'
  BY DEF CollectsRight, At
<1>2. CASE job'[w] = job[w]
  <2>1. CollectRight(w)
    BY <1>2 DEF IInv, CollectsRight, At
  <2>2. job[w].req \in DOMAIN requests' /\ job[w].chals = requests'[job[w].req]
    BY <1>1, <2>1 DEF CollectRight, Growth, StoresGrow
  <2>3. \A i \in DOMAIN job[w].got : IsResponse(job[w].got[i], job[w].chals[i])'
    <3> TAKE i \in DOMAIN job[w].got
    <3>1. IsResponse(job[w].got[i], job[w].chals[i])
      BY <2>1 DEF CollectRight
    <3> QED
      BY <1>1, <1>2, <3>1 DEF IsResponse, Growth, StoresGrow
  <2> QED
    BY <1>2, <2>1, <2>2, <2>3 DEF CollectRight
<1>3. CASE CollectResponse(w)
  <2> DEFINE c == job[w].chals[Len(job[w].got) + 1]
  <2>1. /\ At(w, "collect") /\ Len(job[w].got) < Len(job[w].chals)
        /\ job[w] \in CollectType /\ CollectRight(w)
        /\ requests' = requests /\ issued' = issued /\ answered' = answered
    BY <1>1, <1>3, JobTypes DEF CollectResponse, IInv, CollectsRight, redis, history
  <2>2. c \in DOMAIN responses /\ job'[w] = [job[w] EXCEPT !.got = Append(@, responses[c])]
    BY <1>1, <1>3, GotoFacts DEF CollectResponse, Idle
  <2>3. /\ job'[w].got = Append(job[w].got, responses[c])
        /\ job'[w].req = job[w].req /\ job'[w].chals = job[w].chals
    BY <2>1, <2>2 DEF CollectType
  <2>4. job[w].got \in Seq(Response) /\ responses[c] \in Response /\ Len(job[w].chals) \in Nat
    BY <1>1, <2>1, <2>2 DEF CollectType, TypeOK, PartialFunction
  <2>5. Len(job'[w].got) <= Len(job'[w].chals)
    BY <2>1, <2>3, <2>4, AppendKeeps
  <2>6. IsResponse(responses[c], c)
    BY <2>2 DEF IInv, ResponsesRight
  <2>7. ASSUME NEW i \in DOMAIN job'[w].got
        PROVE  IsResponse(job'[w].got[i], job[w].chals[i])
    <3>1. CASE i \in DOMAIN job[w].got
      <4>1. job'[w].got[i] = job[w].got[i]
        BY <2>3, <2>4, <3>1, AppendKeeps
      <4> QED
        BY <2>1, <3>1, <4>1 DEF CollectRight
    <3>2. CASE i = Len(job[w].got) + 1
      <4>1. job'[w].got[i] = responses[c]
        BY <2>3, <2>4, <3>2, AppendKeeps
      <4> QED
        BY <2>6, <3>2, <4>1
    <3>3. DOMAIN job'[w].got = DOMAIN job[w].got \cup {Len(job[w].got) + 1}
      BY <2>3, <2>4, AppendKeeps
    <3> QED
      BY <2>7, <3>1, <3>2, <3>3
  <2> QED
    BY <2>1, <2>3, <2>5, <2>7 DEF CollectRight, IsResponse
<1>4. ASSUME NEW r \in RequestIds, GetKeyBegin(w, r)
      PROVE  CollectRight(w)'
  <2>1. /\ job'[w].req = r /\ job'[w].chals = requests[r] /\ job'[w].got = <<>>
        /\ r \in DOMAIN requests /\ requests' = requests
    BY <1>1, <1>4, GotoFacts DEF GetKeyBegin, CollectJob, redis
  <2>2. requests[r] \in Seq(ChallengeIds)
    BY <1>1, <2>1 DEF TypeOK, PartialFunction
  <2> QED
    BY <2>1, <2>2 DEF CollectRight
<1> QED
  BY <1>1, <1>2, <1>3, <1>4 DEF Entered

\* A stored request has a challenge for each row of the encryption it names.
LEMMA RequestFacts ==
  ASSUME IInv, NEW r \in DOMAIN requests
  PROVE  LET e == RequestedEncryption(r)
         IN /\ e \in DOMAIN shaKeys /\ e \in EncryptionIds
            /\ requests[r] \in Seq(ChallengeIds) /\ requests[r] # <<>>
            /\ encryptKeys[e] \in Seq(Row)
            /\ DOMAIN requests[r] = DOMAIN encryptKeys[e]
            /\ Len(requests[r]) = Len(encryptKeys[e])
            /\ Issued(requests[r], e)
            /\ \A i \in DOMAIN requests[r] : IsRow(encryptKeys[e][i], e, i)
<1>1. PICK e \in DOMAIN shaKeys :
        Len(requests[r]) = Len(encryptKeys[e]) /\ Issued(requests[r], e)
  BY DEF IInv, RequestsRight
<1>2. /\ requests[r] \in Seq(ChallengeIds) /\ e \in EncryptionIds
      /\ encryptKeys[e] \in Seq(Row)
  BY DEF IInv, TypeOK, PartialFunction
<1>3. encryptKeys[e] # <<>>
  BY <1>2 DEF IInv, SetupComplete, Plains
<1>4. 1 \in DOMAIN requests[r] /\ DOMAIN requests[r] = DOMAIN encryptKeys[e]
  BY <1>1, <1>2, <1>3
<1>5. RequestedEncryption(r) = e
  BY <1>1, <1>4 DEF RequestedEncryption, Issued
<1> QED
  BY <1>1, <1>2, <1>3, <1>4, <1>5 DEF IInv, RowsRight
\* The right answer to a stored row never changes.
LEMMA RightAnswerStays ==
  ASSUME IInv, Growth, NEW e \in DOMAIN shaKeys, NEW i \in DOMAIN encryptKeys[e]
  PROVE  RightAnswer(e, i)' = RightAnswer(e, i)
<1>1. encryptKeys'[e] = encryptKeys[e] /\ e \in EncryptionIds
  BY DEF Growth, StoresGrow, IInv, TypeOK, PartialFunction
<1>2. encryptKeys[e][i].user \in DOMAIN users
  BY <1>1 DEF IInv, RowsRight, IsRow
<1> QED
  BY <1>1, <1>2 DEF RightAnswer, Growth, StoresGrow

\* The encryption a request is for never changes.
LEMMA RequestedStays ==
  ASSUME IInv, Growth, NEW r \in DOMAIN requests
  PROVE  RequestedEncryption(r)' = RequestedEncryption(r)
<1>1. 1 \in DOMAIN requests[r]
  BY RequestFacts
<1>2. requests[r][1] \in DOMAIN issued
  BY <1>1, RequestFacts DEF Issued
<1> QED
  BY <1>2 DEF RequestedEncryption, Growth, StoresGrow

\* What the collected responses unlock is explained by the answers given.
LEMMA UnlockedExplained ==
  ASSUME IInv, NEW w \in Workers, At(w, "collect"), AllCollected(job[w])
  PROVE  LET r == job[w].req
             keys == Unlocked(job[w].got)
         IN /\ r \in DOMAIN requests /\ Len(keys) = Len(requests[r])
            /\ \A i \in DOMAIN requests[r] :
                 KeyExplained(keys[i], requests[r][i], RequestedEncryption(r), i)
<1> DEFINE r == job[w].req
           got == job[w].got
           keys == Unlocked(got)
           e == RequestedEncryption(r)
<1>1. job[w] \in CollectType /\ CollectRight(w)
  BY JobTypes DEF IInv, CollectsRight
<1>2. /\ r \in DOMAIN requests /\ got \in Seq(Response)
      /\ Len(got) = Len(requests[r])
  BY <1>1 DEF CollectType, CollectRight, AllCollected
<1>3. /\ requests[r] \in Seq(ChallengeIds) /\ DOMAIN requests[r] = DOMAIN encryptKeys[e]
      /\ Issued(requests[r], e)
      /\ \A i \in DOMAIN requests[r] : IsRow(encryptKeys[e][i], e, i)
  BY <1>2, RequestFacts
<1>4. Len(keys) = Len(requests[r]) /\ DOMAIN got = DOMAIN requests[r]
  BY <1>2, <1>3 DEF Unlocked
<1>5. ASSUME NEW i \in DOMAIN requests[r]
      PROVE  KeyExplained(keys[i], requests[r][i], e, i)
  <2>1. IsResponse(got[i], requests[r][i])
    BY <1>1, <1>4 DEF CollectRight
  <2>2. got[i].row = <<e, i>> /\ <<requests[r][i], got[i].key>> \in answered
    BY <1>3, <2>1 DEF IsResponse, Issued
  <2>3. RowOf(got[i].row) = encryptKeys[e][i]
    BY <2>2 DEF RowOf
  <2>4. encryptKeys[e][i].password = RightAnswer(e, i) /\ encryptKeys[e][i].plain = <<e, i>>
    BY <1>3 DEF IsRow, RightAnswer
  <2>5. keys[i] = DecryptRow(encryptKeys[e][i], got[i].key)
    BY <1>4, <2>3 DEF Unlocked
  <2>6. CASE got[i].key = RightAnswer(e, i)
    BY <2>2, <2>4, <2>5, <2>6 DEF DecryptRow, KeyExplained
  <2>7. CASE got[i].key # RightAnswer(e, i)
    BY <2>2, <2>4, <2>5, <2>7 DEF DecryptRow, KeyExplained
  <2> QED
    BY <2>6, <2>7
<1> QED
  BY <1>2, <1>4, <1>5

\* Whatever key leaves is explained by the answers to its request.
LEMMA ReleasedStep ==
  ASSUME IInv, [Next]_vars
  PROVE  ReleasedRight'
<1>1. TypeOK /\ Written /\ Growth
  BY Writers, GrowthStep DEF IInv
<1> SUFFICES ASSUME NEW r \in RequestIds, NEW keys \in released'[r]
             PROVE  /\ r \in DOMAIN requests'
                    /\ Len(keys) = Len(requests'[r])
                    /\ \A i \in DOMAIN keys :
                         KeyExplained(keys[i], requests[r][i], RequestedEncryption(r), i)'
  BY DEF ReleasedRight
<1>2. ASSUME r \in DOMAIN requests, Len(keys) = Len(requests[r]),
             \A i \in DOMAIN requests[r] :
               KeyExplained(keys[i], requests[r][i], RequestedEncryption(r), i)
      PROVE  /\ r \in DOMAIN requests'
             /\ Len(keys) = Len(requests'[r])
             /\ \A i \in DOMAIN keys :
                  KeyExplained(keys[i], requests[r][i], RequestedEncryption(r), i)'
  <2>0. PICK e : e = RequestedEncryption(r)
    OBVIOUS
  <2>1. r \in DOMAIN requests' /\ requests'[r] = requests[r]
    BY <1>1, <1>2 DEF Growth, StoresGrow
  <2>2. DOMAIN keys = DOMAIN requests[r]
    <3>1. keys \in Seq(RowIds \cup {Garbage})
      BY TypeStep DEF TypeOK
    <3>2. requests[r] \in Seq(ChallengeIds)
      BY <1>2, RequestFacts
    <3> QED
      BY <1>2, <3>1, <3>2
  <2>3. RequestedEncryption(r)' = e
    BY <1>1, <1>2, <2>0, RequestedStays
  <2>4. ASSUME NEW i \in DOMAIN keys
        PROVE  KeyExplained(keys[i], requests[r][i], RequestedEncryption(r), i)'
    <3>1. KeyExplained(keys[i], requests[r][i], e, i)
      BY <1>2, <2>0, <2>2
    <3>2. e \in DOMAIN shaKeys /\ i \in DOMAIN encryptKeys[e]
      BY <1>2, <2>0, <2>2, RequestFacts
    <3>3. RightAnswer(e, i)' = RightAnswer(e, i)
      BY <1>1, <3>2, RightAnswerStays
    <3>4. answered \subseteq answered'
      BY <1>1 DEF Growth, StoresGrow
    <3>5. RightAnswer(RequestedEncryption(r), i)' = RightAnswer(e, i)
      BY <2>3, <3>3 DEF RightAnswer
    <3> QED
      BY <2>1, <2>3, <3>1, <3>4, <3>5 DEF KeyExplained
  <2> QED
    BY <1>2, <2>1, <2>4
<1>3. CASE keys \in released[r]
  <2>1. r \in DOMAIN requests /\ Len(keys) = Len(requests[r])
    BY <1>3 DEF IInv, ReleasedRight
  <2>2. keys \in Seq(RowIds \cup {Garbage}) /\ requests[r] \in Seq(ChallengeIds)
    BY <1>1, <1>3, <2>1, RequestFacts DEF TypeOK
  <2>3. DOMAIN keys = DOMAIN requests[r]
    BY <2>1, <2>2
  <2> QED
    BY <1>2, <1>3, <2>1, <2>3 DEF IInv, ReleasedRight
<1>4. CASE keys \notin released[r]
  <2>1. PICK w \in Workers : ReleaseKey(w)
    BY <1>1, <1>4 DEF Written
  <2>2. /\ At(w, "collect") /\ AllCollected(job[w])
        /\ released' = [released EXCEPT ![job[w].req] = @ \cup {Unlocked(job[w].got)}]
    BY <2>1 DEF ReleaseKey
  <2>3. r = job[w].req /\ keys = Unlocked(job[w].got)
    BY <1>1, <1>4, <2>2 DEF TypeOK
  <2> QED
    BY <1>2, <2>2, <2>3, UnlockedExplained
<1> QED
  BY <1>3, <1>4
-----------------------------------------------------------------------------
(* Theorems of the specification *)

\* The invariant holds when the server starts.
LEMMA InitInv == Init => IInv
<1> SUFFICES ASSUME Init PROVE IInv
  OBVIOUS
<1> USE DEF Init, Empty
<1>1. TypeOK
  BY UsersAssumption, JobsAreTyped DEF TypeOK, PartialFunction
<1>2. RowsRight /\ DrawnFirst /\ SetupComplete
  BY DEF RowsRight, DrawnFirst, SetupComplete, At, Idle
<1>3. InsertsOwned /\ IssuesRight /\ RespondsRight /\ CollectsRight
  BY DEF InsertsOwned, IssuesRight, RespondsRight, CollectsRight, At, Idle
<1>4. RequestsRight /\ IssuedRight /\ PendingRight /\ ResponsesRight /\ ReleasedRight
  BY DEF RequestsRight, IssuedRight, PendingRight, ResponsesRight, ReleasedRight
<1> QED
  BY <1>1, <1>2, <1>3, <1>4 DEF IInv

\* The invariant survives every step of every worker.
LEMMA NextInv == IInv /\ [Next]_vars => IInv'
BY TypeStep, RowsStep, DrawnStep, InsertsStep, SetupCompleteStep, IssuesStep,
   RequestsStep, IssuedStep, PendingStep, RespondsStep, ResponsesStep,
   CollectsStep, ReleasedStep DEF IInv

\* The invariant that ties the handlers' locals to the stores is inductive.
THEOREM Invariance == Spec => []IInv
BY InitInv, NextInv, PTL DEF Spec

\* The tables, the redis keys and the locals stay in their types.
THEOREM TypeCorrect == Spec => []TypeOK
<1>1. IInv => TypeOK
  BY DEF IInv
<1> QED
  BY <1>1, Invariance, PTL

\* A client is told only of encryptions whose rows are all stored.
THEOREM SetupIsComplete == Spec => []SetupComplete
<1>1. IInv => SetupComplete
  BY DEF IInv
<1> QED
  BY <1>1, Invariance, PTL

\* What has been told, or issued for others, is final: a user, a row of a told
\* encryption, its ShaKeys, a request and a challenge.
THEOREM ToldStays == Spec => ToldIsFinal
<1>1. IInv /\ [Next]_vars => StoresGrow
  BY GrowthStep DEF Growth
<1> QED
  BY <1>1, Invariance, PTL DEF Spec, ToldIsFinal

\* A key that leaves has the right answer of every member behind it.
LEMMA ConsentFromInv == IInv => ReleasedWithConsent
<1> SUFFICES ASSUME IInv, NEW r \in RequestIds, NEW e \in DOMAIN shaKeys,
                    shaKeys[e] \in released[r], NEW i \in DOMAIN shaKeys[e]
             PROVE  <<requests[r][i], RightAnswer(e, i)>> \in answered
  BY DEF ReleasedWithConsent
<1> DEFINE d == RequestedEncryption(r)
<1>1. /\ r \in DOMAIN requests
      /\ \A k \in DOMAIN shaKeys[e] : KeyExplained(shaKeys[e][k], requests[r][k], d, k)
  BY DEF IInv, ReleasedRight
<1>2. e \in EncryptionIds /\ encryptKeys[e] \in Seq(Row)
  BY DEF IInv, TypeOK, PartialFunction
<1>3. /\ DOMAIN shaKeys[e] = DOMAIN encryptKeys[e]
      /\ \A k \in DOMAIN shaKeys[e] : shaKeys[e][k] = <<e, k>> /\ <<e, k>> \in RowIds
  BY <1>2 DEF IInv, SetupComplete, RowsRight, Plains, IsRow, RowIds
<1>4. shaKeys[e][i] = <<d, i>> /\ <<requests[r][i], RightAnswer(d, i)>> \in answered
  <2>1. KeyExplained(shaKeys[e][i], requests[r][i], d, i)
    BY <1>1
  <2>2. shaKeys[e][i] # Garbage
    BY <1>3, GarbageAssumption
  <2> QED
    BY <2>1, <2>2 DEF KeyExplained
<1>5. <<e, i>> = <<d, i>>
  BY <1>3, <1>4
<1>6. e = d
  BY <1>5
<1> QED
  BY <1>4, <1>6

\* GetDecryptionKey returns the key of an encryption only to a request that
\* every member of its quorum has answered rightly, whatever the interleaving.
THEOREM KeyNeedsEveryone == Spec => []ReleasedWithConsent
BY ConsentFromInv, Invariance, PTL

\* A request that was answered rightly gives the key of its encryption.
LEMMA HonestFromInv == IInv => HonestKeyCorrect
<1> SUFFICES ASSUME IInv, NEW r \in DOMAIN requests, NEW keys \in released[r],
                    \A i \in DOMAIN requests[r] : \A a \in answered :
                      a[1] = requests[r][i] => a[2] = RightAnswer(RequestedEncryption(r), i)
             PROVE  keys = shaKeys[RequestedEncryption(r)]
  BY DEF HonestKeyCorrect
<1> DEFINE e == RequestedEncryption(r)
<1>1. r \in RequestIds /\ keys \in Seq(RowIds \cup {Garbage})
  BY DEF IInv, TypeOK, PartialFunction
<1>2. /\ e \in DOMAIN shaKeys /\ requests[r] \in Seq(ChallengeIds)
      /\ encryptKeys[e] \in Seq(Row) /\ Len(requests[r]) = Len(encryptKeys[e])
      /\ \A i \in DOMAIN requests[r] : encryptKeys[e][i].plain = <<e, i>>
  BY RequestFacts DEF IsRow
<1>3. Len(keys) = Len(requests[r]) /\ DOMAIN keys = DOMAIN requests[r]
  BY <1>1, <1>2 DEF IInv, ReleasedRight
<1>4. \A i \in DOMAIN keys : keys[i] = <<e, i>>
  BY <1>1, <1>3 DEF IInv, ReleasedRight, KeyExplained
<1>5. /\ shaKeys[e] \in Seq(RowIds) /\ Len(shaKeys[e]) = Len(keys)
      /\ \A i \in DOMAIN keys : shaKeys[e][i] = <<e, i>>
  <2>1. shaKeys[e] = Plains(encryptKeys[e]) /\ shaKeys[e] \in Seq(RowIds)
    BY <1>2 DEF IInv, SetupComplete, TypeOK, PartialFunction
  <2> QED
    BY <1>2, <1>3, <2>1 DEF Plains
<1>6. keys \in [DOMAIN keys -> RowIds \cup {Garbage}]
  BY <1>1
<1>7. shaKeys[e] \in [DOMAIN keys -> RowIds \cup {Garbage}]
  BY <1>1, <1>5
<1>8. \A i \in DOMAIN keys : keys[i] = shaKeys[e][i]
  BY <1>4, <1>5
<1> HIDE DEF e
<1>9. keys = shaKeys[e]
  BY <1>6, <1>7, <1>8
<1> QED
  BY <1>9 DEF e

\* A request answered rightly by whoever answered it never gets a wrong key.
THEOREM RightAnswersGiveTheKey == Spec => []HonestKeyCorrect
BY HonestFromInv, Invariance, PTL
=============================================================================
