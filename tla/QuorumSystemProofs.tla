------------------------- MODULE QuorumSystemProofs -------------------------
(***************************************************************************)
(* Theorems about the server as its callers see it: what a request asks    *)
(* for, that its handlers implement QuorumAccess, and that the composed    *)
(* system QuorumSystem is a system around that server and loses no answer. *)
(***************************************************************************)
EXTENDS QuorumSystem, QuorumServerProofs, FiniteSetTheorems

-----------------------------------------------------------------------------
(* Challenges are asked once *)

\* The challenges that requests and running Decrypts have were issued.
LEMMA AskedWereIssued ==
  ASSUME IInv
  PROVE  /\ \A r \in DOMAIN requests : \A i \in DOMAIN requests[r] : requests[r][i] \in DOMAIN issued
         /\ \A w \in Workers : At(w, "issue") =>
              \A i \in DOMAIN job[w].chals : job[w].chals[i] \in DOMAIN issued
         /\ DOMAIN issued \subseteq drawn
<1>1. \A r \in DOMAIN requests : \A i \in DOMAIN requests[r] : requests[r][i] \in DOMAIN issued
  BY DEF IInv, RequestsRight, Issued
<1>2. \A w \in Workers : At(w, "issue") =>
        \A i \in DOMAIN job[w].chals : job[w].chals[i] \in DOMAIN issued
  BY DEF IInv, IssuesRight, IssueRight, Issued
<1> QED
  BY <1>1, <1>2 DEF IInv, DrawnFirst

\* What a Decrypt has issued after a step it had issued before, or is new.
LEMMA IssuedSoFar ==
  ASSUME IInv, [Next]_vars, NEW w \in Workers, job'[w].step = "issue",
         NEW i \in DOMAIN job'[w].chals
  PROVE  \/ /\ At(w, "issue") /\ i \in DOMAIN job[w].chals
            /\ job'[w].chals[i] = job[w].chals[i]
         \/ CreateChallenge(w) /\ job'[w].chals[i] \notin DOMAIN issued
<1>1. TypeOK /\ Entered(w) /\ DOMAIN issued \subseteq drawn
  BY Writers, AskedWereIssued DEF IInv
<1>2. CASE job'[w] = job[w]
  BY <1>2 DEF At
<1>3. CASE CreateChallenge(w)
  <2>1. PICK c \in ChallengeIds \ drawn :
          job[w] \in IssueType /\ job'[w].chals = Append(job[w].chals, c)
    BY <1>1, <1>3, ChallengeEffect
  <2>2. job[w].chals \in Seq(ChallengeIds)
    BY <2>1 DEF IssueType
  <2>3. CASE i \in DOMAIN job[w].chals
    <3>1. job'[w].chals[i] = job[w].chals[i]
      BY <2>1, <2>2, <2>3, AppendKeeps
    <3> QED
      BY <1>3, <2>3, <3>1 DEF CreateChallenge
  <2>4. CASE i = Len(job[w].chals) + 1
    <3>1. job'[w].chals[i] = c
      BY <2>1, <2>2, <2>4, AppendKeeps
    <3> QED
      BY <1>1, <1>3, <2>1, <3>1
  <2>5. i \in DOMAIN job[w].chals \cup {Len(job[w].chals) + 1}
    BY <2>1, <2>2, AppendKeeps
  <2> QED
    BY <2>3, <2>4, <2>5
<1>4. ASSUME NEW e \in EncryptionIds, DecryptBegin(w, e)
      PROVE  FALSE
  <2>1. job'[w].chals = <<>>
    BY <1>1, <1>4, DecryptEffect
  <2> QED
    BY <2>1
<1> QED
  BY <1>1, <1>2, <1>3, <1>4 DEF Entered

\* No challenge comes to be asked twice.
LEMMA AskedOnceStep ==
  ASSUME IInv, AskedOnce, [Next]_vars
  PROVE  AskedOnce'
<1>1. TypeOK /\ Written /\ Growth
  BY Writers, GrowthStep DEF IInv
<1>2. ASSUME NEW v \in Workers, StoreRequest(v)
      PROVE  /\ At(v, "issue") /\ requests' = Put(requests, job[v].req, job[v].chals)
             /\ job'[v].step = "idle"
  BY <1>1, <1>2, GotoFacts DEF StoreRequest, Idle
<1>3. ASSUME NEW r \in DOMAIN requests', NEW s \in DOMAIN requests', r # s
      PROVE  Apart(requests'[r], requests'[s])
  <2>1. CASE requests' = requests
    BY <1>3, <2>1 DEF AskedOnce
  <2>2. ASSUME NEW v \in Workers, StoreRequest(v)
        PROVE  Apart(requests'[r], requests'[s])
    <3>1. At(v, "issue") /\ requests' = Put(requests, job[v].req, job[v].chals)
      BY <1>2, <2>2
    <3>2. \A q \in DOMAIN requests : Apart(job[v].chals, requests[q])
      BY <3>1 DEF AskedOnce
    <3> QED
      BY <1>3, <3>1, <3>2 DEF AskedOnce, Put, Apart
  <2> QED
    BY <1>1, <2>1, <2>2 DEF Written
<1>4. ASSUME NEW w \in Workers, job'[w].step = "issue", NEW r \in DOMAIN requests'
      PROVE  Apart(job'[w].chals, requests'[r])
  <2>1. SUFFICES ASSUME NEW i \in DOMAIN job'[w].chals, NEW j \in DOMAIN requests'[r]
                 PROVE  job'[w].chals[i] # requests'[r][j]
    BY DEF Apart
  <2>2. CASE At(w, "issue") /\ i \in DOMAIN job[w].chals /\ job'[w].chals[i] = job[w].chals[i]
    <3>1. CASE r \in DOMAIN requests
      <4>1. requests'[r] = requests[r] /\ Apart(job[w].chals, requests[r])
        BY <1>1, <2>2, <3>1 DEF Growth, StoresGrow, AskedOnce
      <4> QED
        BY <2>1, <2>2, <4>1 DEF Apart
    <3>2. CASE r \notin DOMAIN requests
      <4>1. PICK v \in Workers : StoreRequest(v)
        BY <1>1, <3>2 DEF Written
      <4>2. /\ At(v, "issue") /\ requests' = Put(requests, job[v].req, job[v].chals)
            /\ job'[v].step = "idle"
        BY <1>2, <4>1
      <4>3. v # w /\ requests'[r] = job[v].chals
        BY <1>4, <3>2, <4>2 DEF Put
      <4>4. Apart(job[w].chals, job[v].chals)
        BY <2>2, <4>2, <4>3 DEF AskedOnce
      <4> QED
        BY <2>1, <2>2, <4>3, <4>4 DEF Apart
    <3> QED
      BY <3>1, <3>2
  <2>3. CASE CreateChallenge(w) /\ job'[w].chals[i] \notin DOMAIN issued
    <3>1. requests' = requests
      BY <1>1, <2>3, ChallengeEffect
    <3> QED
      BY <2>1, <2>3, <3>1, AskedWereIssued
  <2> QED
    BY <1>4, <2>1, <2>2, <2>3, IssuedSoFar
<1>5. ASSUME NEW w \in Workers, job'[w].step = "issue",
             NEW v \in Workers \ {w}, job'[v].step = "issue"
      PROVE  Apart(job'[w].chals, job'[v].chals)
  <2>1. SUFFICES ASSUME NEW i \in DOMAIN job'[w].chals, NEW j \in DOMAIN job'[v].chals
                 PROVE  job'[w].chals[i] # job'[v].chals[j]
    BY DEF Apart
  <2>2. ASSUME NEW u \in Workers, CreateChallenge(u), NEW t \in Workers \ {u}, job'[t].step = "issue"
        PROVE  \A k \in DOMAIN job'[t].chals : job'[t].chals[k] \in DOMAIN issued
    <3>1. job'[t] = job[t]
      BY <1>1, <2>2, GotoFacts DEF CreateChallenge
    <3> QED
      BY <2>2, <3>1, AskedWereIssued DEF At
  <2>3. \/ At(w, "issue") /\ i \in DOMAIN job[w].chals /\ job'[w].chals[i] = job[w].chals[i]
        \/ CreateChallenge(w) /\ job'[w].chals[i] \notin DOMAIN issued
    BY <1>5, <2>1, IssuedSoFar
  <2>4. \/ At(v, "issue") /\ j \in DOMAIN job[v].chals /\ job'[v].chals[j] = job[v].chals[j]
        \/ CreateChallenge(v) /\ job'[v].chals[j] \notin DOMAIN issued
    BY <1>5, <2>1, IssuedSoFar
  <2>5. CASE /\ At(w, "issue") /\ i \in DOMAIN job[w].chals /\ job'[w].chals[i] = job[w].chals[i]
             /\ At(v, "issue") /\ j \in DOMAIN job[v].chals /\ job'[v].chals[j] = job[v].chals[j]
    <3>1. Apart(job[w].chals, job[v].chals)
      BY <1>5, <2>5 DEF AskedOnce
    <3> QED
      BY <2>5, <3>1 DEF Apart
  <2>6. CASE CreateChallenge(w) /\ job'[w].chals[i] \notin DOMAIN issued
    BY <1>5, <2>1, <2>2, <2>6
  <2>7. CASE CreateChallenge(v) /\ job'[v].chals[j] \notin DOMAIN issued
    <3>1. job'[w].chals[i] \in DOMAIN issued
      BY <1>5, <2>1, <2>2, <2>7
    <3> QED
      BY <2>7, <3>1
  <2> QED
    BY <2>3, <2>4, <2>5, <2>6, <2>7
<1> QED
  BY <1>3, <1>4, <1>5 DEF AskedOnce, At, Apart

-----------------------------------------------------------------------------
(* What is answered is no longer pending *)

\* Nothing stored as answered is pending, nor what is about to be stored.
LEMMA StoredGoneStep ==
  ASSUME IInv, StoredGone, [Next]_vars
  PROVE  StoredGone'
<1>1. TypeOK /\ Written /\ (\A w \in Workers : Entered(w)) /\ DOMAIN issued \subseteq drawn
  BY Writers, AskedWereIssued DEF IInv
<1>2. DOMAIN responses \subseteq DOMAIN issued
  BY DEF IInv, ResponsesRight, IsResponse
<1>3. ASSUME NEW c \in DOMAIN challenges', c \in DOMAIN issued
      PROVE  c \in DOMAIN challenges
  <2>1. ASSUME NEW w \in Workers, CreateChallenge(w)
        PROVE  c \in DOMAIN challenges
    <3>1. PICK d \in ChallengeIds \ drawn : DOMAIN challenges' = DOMAIN challenges \cup {d}
      BY <1>1, <2>1, ChallengeEffect DEF Put
    <3> QED
      BY <1>1, <1>3, <3>1
  <2>2. ASSUME NEW w \in Workers, DeleteChallenge(w)
        PROVE  c \in DOMAIN challenges
    BY <2>2 DEF DeleteChallenge, Delete, Restrict
  <2> QED
    BY <1>1, <2>1, <2>2 DEF Written
<1>4. AnsweredNotPending'
  <2>1. SUFFICES ASSUME NEW c \in DOMAIN challenges', c \in DOMAIN responses'
                 PROVE  FALSE
    BY DEF AnsweredNotPending
  <2>2. CASE c \in DOMAIN responses
    BY <1>2, <1>3, <2>1, <2>2 DEF StoredGone, AnsweredNotPending
  <2>3. CASE c \notin DOMAIN responses
    <3>1. PICK w \in Workers : StoreResponse(w)
      BY <1>1, <2>1, <2>3 DEF Written
    <3>2. At(w, "store") /\ c = job[w].chal /\ challenges' = challenges
      BY <2>1, <2>3, <3>1 DEF StoreResponse, Put
    <3> QED
      BY <2>1, <3>2 DEF StoredGone
  <2> QED
    BY <2>2, <2>3
<1>5. ASSUME NEW w \in Workers, job'[w].step = "store"
      PROVE  job'[w].chal \notin DOMAIN challenges'
  <2>1. CASE job'[w] = job[w]
    <3>1. At(w, "store") /\ job[w].chal \in DOMAIN issued
      BY <1>5, <2>1 DEF At, IInv, RespondsRight
    <3> QED
      BY <1>3, <2>1, <3>1 DEF StoredGone
  <2>2. CASE DeleteChallenge(w)
    <3>1. job'[w].chal = job[w].chal
      BY <1>1, <2>2, GotoFacts DEF DeleteChallenge, StoreJob
    <3>2. DOMAIN challenges' = DOMAIN challenges \ {job[w].chal}
      BY <2>2 DEF DeleteChallenge, Delete, Restrict
    <3> QED
      BY <3>1, <3>2
  <2>3. ASSUME NEW c \in ChallengeIds, NEW secret \in Secrets, RespondBegin(w, c, secret)
        PROVE  FALSE
    BY <1>1, <1>5, <2>3, GotoFacts DEF RespondBegin, DeleteJob
  <2> QED
    BY <1>1, <1>5, <2>1, <2>2, <2>3 DEF Entered
<1> QED
  BY <1>4, <1>5 DEF StoredGone, At

-----------------------------------------------------------------------------
(* What a setup enrols *)

\* Setup's rows are for the users named, and it has as many of them as names.
LEMMA SetupEnrols ==
  ASSUME TypeOK, NEW w \in Workers, NEW names \in NameLists, Setup(w, names)
  PROVE  \E list \in [1 .. Len(names) -> UsersNamed(names)] :
           /\ Len(names) \in 1 .. MaxNames /\ names \in [1 .. Len(names) -> Names]
           /\ Cardinality(UsersNamed(names)) = Len(names)
           /\ Range(list) = UsersNamed(names)
           /\ job'[w].names = names
           /\ DOMAIN job'[w].rows = DOMAIN list
           /\ Len(job'[w].rows) = Len(names)
           /\ \A i \in DOMAIN list : job'[w].rows[i].user = list[i]
           /\ \A i, j \in DOMAIN list : list[i] = list[j] => i = j
           /\ quorum' = quorum /\ shaKeys' = shaKeys
           /\ encryptKeys' = encryptKeys /\ users' = users
<1> DEFINE found == UsersNamed(names)
<1>1. PICK e \in EncryptionIds \ drawn, list \in [1 .. Cardinality(found) -> found] :
        /\ ListedById(list, found)
        /\ Goto(w, InsertJob(e, names,
                     [i \in DOMAIN list |-> EncryptionEntity(e, i, list[i])]))
  BY DEF Setup
<1>2. Len(names) \in 1 .. MaxNames /\ names \in [1 .. Len(names) -> Names]
  <2>1. PICK n \in 0 .. MaxNames : names \in [1 .. n -> Names]
    BY DEF NameLists
  <2>2. Len(names) = n /\ n # 0
    BY <2>1 DEF Setup
  <2> QED
    BY <2>1, <2>2
<1>3. Cardinality(found) = Len(names)
  BY DEF Setup, CountMatches
<1>4. job'[w] = InsertJob(e, names, [i \in DOMAIN list |-> EncryptionEntity(e, i, list[i])])
  BY <1>1, GotoFacts
<1>5. /\ job'[w].names = names
      /\ job'[w].rows = [i \in DOMAIN list |-> EncryptionEntity(e, i, list[i])]
  BY <1>4 DEF InsertJob
<1>6. DOMAIN job'[w].rows = 1 .. Len(names) /\ Len(job'[w].rows) = Len(names)
  BY <1>2, <1>3, <1>5
<1>7. \A i \in DOMAIN list : job'[w].rows[i].user = list[i]
  BY <1>5 DEF EncryptionEntity
<1>8. Range(list) = found /\ list \in [1 .. Len(names) -> found]
  BY <1>1, <1>3 DEF ListedById
<1>9. quorum' = quorum /\ shaKeys' = shaKeys /\ encryptKeys' = encryptKeys /\ users' = users
  BY DEF Setup, mysql, told
<1>10. \A i, j \in DOMAIN list : list[i] = list[j] => i = j
  <2>1. \A i, j \in DOMAIN list : i < j => list[i] < list[j]
    BY <1>1 DEF ListedById
  <2>2. \A i \in DOMAIN list : list[i] \in Nat /\ i \in Nat
    <3>1. found \subseteq DOMAIN users /\ DOMAIN users \subseteq Nat
      BY DEF UsersNamed, TypeOK
    <3> QED
      BY <1>8, <1>2, <3>1
  <2> QED
    BY <2>1, <2>2
<1> QED
  BY <1>2, <1>3, <1>5, <1>6, <1>7, <1>8, <1>9, <1>10

\* No setup, running or told, has more members than it may name.
LEMMA SizesBoundedStep ==
  ASSUME IInv, SizesBounded, [Next]_vars
  PROVE  SizesBounded'
<1>1. TypeOK /\ Written /\ \A w \in Workers : Entered(w)
  BY Writers DEF IInv
<1>2. ASSUME NEW e \in DOMAIN shaKeys'
      PROVE  Len(shaKeys'[e]) <= MaxNames
  <2>1. CASE e \in DOMAIN shaKeys /\ shaKeys' = shaKeys
    BY <2>1 DEF SizesBounded
  <2>2. ASSUME NEW w \in Workers, SetupReply(w)
        PROVE  Len(shaKeys'[e]) <= MaxNames
    <3>1. /\ shaKeys' = Put(shaKeys, job[w].enc, Plains(job[w].rows))
          /\ Len(job[w].rows) <= MaxNames /\ job[w] \in InsertType
      BY <1>1, <2>2, JobTypes DEF SetupReply, SizesBounded
    <3>2. Len(Plains(job[w].rows)) = Len(job[w].rows)
      BY <3>1 DEF Plains, InsertType
    <3> QED
      BY <1>2, <3>1, <3>2 DEF Put, SizesBounded
  <2> QED
    BY <1>1, <1>2, <2>1, <2>2 DEF Written
<1>3. ASSUME NEW w \in Workers, job'[w].step = "insert"
      PROVE  Len(job'[w].rows) <= MaxNames
  <2>1. CASE job'[w] = job[w]
    BY <1>3, <2>1 DEF SizesBounded, At
  <2>2. CASE InsertRow(w)
    BY <1>1, <2>2, InsertEffect DEF InsertRow, SizesBounded
  <2>3. ASSUME NEW names \in NameLists, Setup(w, names)
        PROVE  Len(job'[w].rows) <= MaxNames
    <3>1. Len(names) \in 1 .. MaxNames /\ Len(job'[w].rows) = Len(names)
      BY <1>1, <2>3, SetupEnrols
    <3> QED
      BY <3>1, NamesAssumption
  <2> QED
    BY <1>1, <1>3, <2>1, <2>2, <2>3 DEF Entered
<1> QED
  BY <1>2, <1>3 DEF SizesBounded, At

\* When as many users as names are found and no two share one of the names,
\* every name given is the name of one of them.
LEMMA EveryNameFound ==
  ASSUME TypeOK, NEW n \in Nat, NEW names \in [1 .. n -> Names], Unshared(names),
         Cardinality(UsersNamed(names)) = n
  PROVE  Range(names) = {users[u].name : u \in UsersNamed(names)}
<1> DEFINE found == UsersNamed(names)
           named == Range(names)
           nameOf == [u \in found |-> users[u].name]
<1>1. names \in Surjection(1 .. n, named)
  BY DEF Surjection, Range
<1>2. IsFiniteSet(1 .. n) /\ Cardinality(1 .. n) = n
  BY FS_Interval
<1>3. IsFiniteSet(named) /\ Cardinality(named) <= n
  <2> HIDE DEF named
  <2> QED
    BY <1>1, <1>2, FS_Surjection
<1>4. nameOf \in Injection(found, named)
  BY DEF Injection, IsInjective, UsersNamed, Unshared
<1>5. /\ Cardinality(found) <= Cardinality(named)
      /\ Cardinality(found) = Cardinality(named) <=> nameOf \in Surjection(found, named)
  <2> HIDE DEF named, found, nameOf
  <2> QED
    BY <1>3, <1>4, FS_Injection
<1>6. Cardinality(found) = Cardinality(named)
  <2>1. Cardinality(named) \in Nat
    BY <1>3, FS_CardinalityType
  <2> HIDE DEF named
  <2> QED
    BY <1>3, <1>5, <2>1
<1>7. nameOf \in Surjection(found, named)
  BY <1>5, <1>6
<1>8. \A x \in named : \E u \in found : users[u].name = x
  BY <1>7 DEF Surjection
<1>9. \A u \in found : users[u].name \in named
  BY DEF UsersNamed
<1> QED
  BY <1>8, <1>9

\* What a setup has enrolled stays so while users register.
LEMMA EnrolledStays ==
  ASSUME TypeOK, Growth, NEW names, NEW rows, NEW e,
         \A i \in DOMAIN rows : IsRow(rows[i], e, i), Enrols(rows, names)
  PROVE  Enrols(rows, names)'
<1>1. \A i \in DOMAIN rows : users'[rows[i].user] = users[rows[i].user]
  BY DEF Growth, StoresGrow, IsRow
<1>2. \A u \in DOMAIN users : u \in DOMAIN users' /\ users'[u] = users[u]
  BY DEF Growth, StoresGrow
<1>3. Unshared(names)' => Unshared(names)
  BY <1>2 DEF Unshared, UsersNamed
<1> QED
  BY <1>1, <1>3 DEF Enrols

\* A setup enrols as many different users as it names.
LEMMA SetupEnrolsNamed ==
  ASSUME TypeOK, NEW w \in Workers, NEW names \in NameLists, Setup(w, names)
  PROVE  \E rows : job'[w].rows = rows /\ job'[w].names = names /\ Enrols(rows, names)'
<1>1. PICK list \in [1 .. Len(names) -> UsersNamed(names)] :
        /\ Len(names) \in 1 .. MaxNames /\ names \in [1 .. Len(names) -> Names]
        /\ Cardinality(UsersNamed(names)) = Len(names)
        /\ Range(list) = UsersNamed(names)
        /\ job'[w].names = names
        /\ DOMAIN job'[w].rows = DOMAIN list
        /\ Len(job'[w].rows) = Len(names)
        /\ \A i \in DOMAIN list : job'[w].rows[i].user = list[i]
        /\ \A i, j \in DOMAIN list : list[i] = list[j] => i = j
        /\ quorum' = quorum /\ shaKeys' = shaKeys
        /\ encryptKeys' = encryptKeys /\ users' = users
  BY SetupEnrols
<1>2. PICK rows : rows = job'[w].rows
  OBVIOUS
<1>3. \A i, j \in DOMAIN rows : rows[i].user = rows[j].user => i = j
  BY <1>1, <1>2
<1>4. \A i \in DOMAIN rows : users[rows[i].user].name \in Range(names)
  BY <1>1, <1>2 DEF UsersNamed
<1>5. ASSUME Unshared(names)
      PROVE  Range(names) = {users[rows[i].user].name : i \in DOMAIN rows}
  <2>1. Range(names) = {users[u].name : u \in UsersNamed(names)}
    BY <1>1, <1>5, EveryNameFound, NamesAssumption
  <2>2. UsersNamed(names) = {list[i] : i \in DOMAIN list}
    BY <1>1 DEF Range
  <2>3. {users[u].name : u \in UsersNamed(names)} = {users[list[i]].name : i \in DOMAIN list}
    BY <2>2
  <2>4. {users[list[i]].name : i \in DOMAIN list} = {users[rows[i].user].name : i \in DOMAIN rows}
    BY <1>1, <1>2
  <2> QED
    BY <2>1, <2>3, <2>4
<1>6. Unshared(names)' => Unshared(names)
  BY <1>1 DEF Unshared, UsersNamed
<1>7. /\ Len(rows) = Len(names)
      /\ \A i \in DOMAIN rows : users'[rows[i].user].name \in Range(names)
      /\ Unshared(names)' => Range(names) = {users'[rows[i].user].name : i \in DOMAIN rows}
  BY <1>1, <1>2, <1>4, <1>5, <1>6
<1>8. Enrols(rows, names)'
  BY <1>3, <1>7 DEF Enrols
<1> QED
  BY <1>1, <1>2, <1>8

\* A setup enrols the users it names.
LEMMA NamesStep ==
  ASSUME IInv, NamesRight, [Next]_vars
  PROVE  NamesRight'
<1>1. TypeOK /\ Written /\ Growth /\ \A w \in Workers : Entered(w)
  BY Writers, GrowthStep DEF IInv
<1>2. ASSUME NEW w \in Workers, SetupReply(w)
      PROVE  /\ At(w, "insert") /\ job[w] \in InsertType /\ job[w].enc \notin DOMAIN shaKeys
             /\ shaKeys' = Put(shaKeys, job[w].enc, Plains(job[w].rows))
             /\ quorum' = Put(quorum, job[w].enc, job[w].names)
             /\ encryptKeys' = encryptKeys /\ users' = users
             /\ encryptKeys[job[w].enc] = job[w].rows
  <2>1. /\ At(w, "insert") /\ job[w] \in InsertType /\ InsertOwned(w)
        /\ job[w].done = Len(job[w].rows)
    BY <1>1, <1>2, JobTypes DEF SetupReply, AllInserted, IInv, InsertsOwned
  <2>2. encryptKeys[job[w].enc] \in Seq(Row) /\ job[w].rows \in Seq(Row)
    BY <1>1, <2>1 DEF TypeOK, InsertType
  <2>3. encryptKeys[job[w].enc] = job[w].rows
    BY <2>1, <2>2 DEF InsertOwned
  <2> QED
    BY <1>2, <2>1, <2>3 DEF SetupReply, InsertOwned, mysql
<1>3. quorum' = quorum \/ \E w \in Workers : SetupReply(w)
  BY DEF Next, ServerStep, CreateUser, SetupStep, Setup, InsertRow, DecryptStep,
         DecryptBegin, CreateChallenge, StoreRequest, RespondStep, RespondBegin,
         DeleteChallenge, StoreResponse, GetKeyStep, GetKeyBegin, CollectResponse,
         ReleaseKey, UnlockRefused, RequestFails, told, vars
<1>4. shaKeys' = shaKeys \/ \E w \in Workers : SetupReply(w)
  BY <1>1 DEF Written
<1>5. DOMAIN quorum' = DOMAIN shaKeys'
  <2>1. ASSUME NEW w \in Workers, SetupReply(w)
        PROVE  DOMAIN quorum' = DOMAIN shaKeys'
    BY <1>2, <2>1 DEF Put, NamesRight
  <2> QED
    BY <1>3, <1>4, <2>1 DEF NamesRight
<1>6. ASSUME NEW e \in DOMAIN quorum'
      PROVE  \E rows, names :
               encryptKeys'[e] = rows /\ quorum'[e] = names /\ Enrols(rows, names)'
  <2>1. CASE e \in DOMAIN quorum
    <3>1. e \in DOMAIN shaKeys /\ e \in EncryptionIds
      BY <1>1, <2>1 DEF NamesRight, TypeOK, PartialFunction
    <3>2. encryptKeys'[e] = encryptKeys[e] /\ \A i \in DOMAIN encryptKeys[e] :
             IsRow(encryptKeys[e][i], e, i)
      BY <1>1, <3>1 DEF Growth, StoresGrow, IInv, RowsRight
    <3>3. PICK rows, names : rows = encryptKeys[e] /\ names = quorum[e]
      OBVIOUS
    <3>4. Enrols(rows, names)
      BY <2>1, <3>3 DEF NamesRight, NamedUsersEnrolled
    <3>5. Enrols(rows, names)'
      BY <1>1, <3>2, <3>3, <3>4, EnrolledStays
    <3>6. quorum'[e] = quorum[e]
      BY <1>2, <1>3, <2>1, <3>1 DEF Put
    <3>7. encryptKeys'[e] = rows /\ quorum'[e] = names
      BY <3>2, <3>3, <3>6
    <3> QED
      BY <3>5, <3>7
  <2>2. CASE e \notin DOMAIN quorum
    <3>1. PICK w \in Workers : SetupReply(w)
      BY <1>3, <1>6, <2>2
    <3>2. e = job[w].enc /\ quorum'[e] = job[w].names
      <4>1. quorum' = Put(quorum, job[w].enc, job[w].names)
        BY <1>2, <3>1
      <4> QED
        BY <1>6, <2>2, <4>1 DEF Put
    <3>3. PICK rows, names : rows = job[w].rows /\ names = job[w].names
      OBVIOUS
    <3>4. Enrols(rows, names)
      BY <1>2, <3>1, <3>3 DEF NamesRight
    <3>5. Enrols(rows, names)'
      BY <1>2, <3>1, <3>4 DEF Enrols, Unshared, UsersNamed
    <3>6. encryptKeys'[e] = rows /\ quorum'[e] = names
      BY <1>2, <3>1, <3>2, <3>3
    <3> QED
      BY <3>5, <3>6
  <2> QED
    BY <2>1, <2>2
<1>7. ASSUME NEW w \in Workers, job'[w].step = "insert"
      PROVE  \E rows, names :
               job'[w].rows = rows /\ job'[w].names = names /\ Enrols(rows, names)'
  <2>1. CASE job'[w] = job[w] \/ InsertRow(w)
    <3>1. At(w, "insert") /\ job'[w].rows = job[w].rows /\ job'[w].names = job[w].names
      <4>1. CASE job'[w] = job[w]
        BY <1>7, <4>1 DEF At
      <4>2. CASE InsertRow(w)
        <5>1. At(w, "insert") /\ job[w] \in InsertType
          BY <1>1, <4>2, JobTypes DEF InsertRow
        <5>2. job'[w] = [job[w] EXCEPT !.done = job[w].done + 1]
          BY <1>1, <4>2, GotoFacts DEF InsertRow
        <5> QED
          BY <5>1, <5>2 DEF InsertType
      <4> QED
        BY <2>1, <4>1, <4>2
    <3>2. PICK rows, names, e : rows = job[w].rows /\ names = job[w].names /\ e = job[w].enc
      OBVIOUS
    <3>3. \A i \in DOMAIN rows : IsRow(rows[i], e, i)
      BY <3>1, <3>2 DEF IInv, InsertsOwned, InsertOwned
    <3>4. Enrols(rows, names)
      BY <3>1, <3>2 DEF NamesRight
    <3>5. Enrols(rows, names)'
      BY <1>1, <3>3, <3>4, EnrolledStays
    <3>6. job'[w].rows = rows /\ job'[w].names = names
      BY <3>1, <3>2
    <3> QED
      BY <3>5, <3>6
  <2>2. ASSUME NEW names \in NameLists, Setup(w, names)
        PROVE  \E rows, given :
               job'[w].rows = rows /\ job'[w].names = given /\ Enrols(rows, given)'
    BY <1>1, <2>2, SetupEnrolsNamed
  <2> QED
    BY <1>1, <1>7, <2>1, <2>2 DEF Entered
<1>8. NamedUsersEnrolled'
  <2>1. ASSUME NEW e \in DOMAIN quorum'
        PROVE  Enrols(encryptKeys[e], quorum[e])'
    <3>1. PICK rows, names :
            encryptKeys'[e] = rows /\ quorum'[e] = names /\ Enrols(rows, names)'
      BY <1>6, <2>1
    <3> QED
      BY <3>1 DEF Enrols, Unshared, UsersNamed
  <2> QED
    BY <2>1 DEF NamedUsersEnrolled
<1>9. ASSUME NEW w \in Workers, At(w, "insert")'
      PROVE  Enrols(job[w].rows, job[w].names)'
  <2>1. PICK rows, names :
          job'[w].rows = rows /\ job'[w].names = names /\ Enrols(rows, names)'
    BY <1>7, <1>9 DEF At
  <2> QED
    BY <2>1 DEF Enrols, Unshared, UsersNamed
<1> QED
  BY <1>5, <1>8, <1>9 DEF NamesRight

\* The quorum of an encryption is made of as many different users as names
\* were given, all of them called by one of these names; and it has a member
\* for every name, unless two users share one of them.
THEOREM NamedAreEnrolled == Spec => []NamedUsersEnrolled
<1>1. Init => NamesRight
  BY DEF Init, Empty, NamesRight, NamedUsersEnrolled, At, Idle
<1>2. IInv /\ NamesRight /\ [Next]_vars => NamesRight'
  BY NamesStep
<1>3. NamesRight => NamedUsersEnrolled
  BY DEF NamesRight
<1> QED
  BY <1>1, <1>2, <1>3, Invariance, PTL DEF Spec

-----------------------------------------------------------------------------
(* What a request asks *)

\* What holds besides IInv is inductive relative to it.
LEMMA AccessStep ==
  ASSUME IInv, AccessInv, [Next]_vars
  PROVE  AccessInv'
BY AskedOnceStep, StoredGoneStep, SizesBoundedStep DEF AccessInv

\* Each challenge is asked once, and not again when it is answered; no setup
\* has more members than it may name.
THEOREM AccessInvariance == Spec => []AccessInv
<1>1. Init => AccessInv
  BY DEF Init, Empty, AccessInv, AskedOnce, StoredGone, AnsweredNotPending,
         SizesBounded, At, Idle
<1>2. IInv /\ AccessInv /\ [Next]_vars => AccessInv'
  BY AccessStep
<1> QED
  BY <1>1, <1>2, Invariance, PTL DEF Spec

\* The invariant is enough for RequestCoversQuorum.
LEMMA CoverFromInv == IInv /\ AccessInv => RequestCoversQuorum
<1> SUFFICES ASSUME IInv, AccessInv, NEW r \in DOMAIN requests
             PROVE  LET e == RequestedEncryption(r)
                    IN /\ e \in DOMAIN shaKeys
                       /\ Len(requests[r]) = Len(shaKeys[e])
                       /\ \A i \in DOMAIN requests[r] : issued[requests[r][i]].row = <<e, i>>
                       /\ \A s \in DOMAIN requests \ {r} :
                            Range(requests[s]) \cap Range(requests[r]) = {}
  BY DEF RequestCoversQuorum
<1> DEFINE e == RequestedEncryption(r)
<1>1. /\ e \in DOMAIN shaKeys /\ e \in EncryptionIds /\ encryptKeys[e] \in Seq(Row)
      /\ Len(requests[r]) = Len(encryptKeys[e]) /\ Issued(requests[r], e)
  BY RequestFacts
<1>2. Len(shaKeys[e]) = Len(encryptKeys[e])
  <2>1. shaKeys[e] = Plains(encryptKeys[e])
    BY <1>1 DEF IInv, SetupComplete
  <2> QED
    BY <1>1, <2>1 DEF Plains
<1>3. \A s \in DOMAIN requests \ {r} : Range(requests[s]) \cap Range(requests[r]) = {}
  BY DEF AccessInv, AskedOnce, Apart, Range
<1> QED
  BY <1>1, <1>2, <1>3 DEF Issued

\* A stored request asks each member of its quorum once, in row order, with
\* challenges of its own.
THEOREM RequestsCoverQuorum == Spec => []RequestCoversQuorum
BY CoverFromInv, Invariance, AccessInvariance, PTL

\* A poll never finds a challenge whose answer is stored, though answering one
\* takes three accesses that others come between.
THEOREM AnsweredIsNotPending == Spec => []AnsweredNotPending
<1>1. AccessInv => AnsweredNotPending
  BY DEF AccessInv, StoredGone
<1> QED
  BY <1>1, AccessInvariance, PTL

\* Only a responder that read a challenge while it was pending is on its way
\* to store an answer, and a stored answer's challenge is not pending.
LEMMA SettleStep ==
  ASSUME IInv, StoredGone, [Next]_vars
  PROVE  AnswersSettle
<1>1. /\ TypeOK /\ Written /\ Growth /\ \A w \in Workers : Entered(w)
  BY Writers, GrowthStep DEF IInv
<1>2. IInv'
  BY NextInv
<1> SUFFICES ASSUME NEW c \in DOMAIN responses
             PROVE  /\ c \in DOMAIN responses' /\ responses'[c].row = responses[c].row
                    /\ Settled(c) => Settled(c)' /\ responses'[c] = responses[c]
  BY DEF AnswersSettle
<1>3. c \in DOMAIN responses'
  BY <1>1 DEF Written, StoreResponse, Put
<1>4. responses'[c].row = responses[c].row
  <2>1. c \in DOMAIN issued /\ responses[c].row = issued[c].row
    BY DEF IInv, ResponsesRight, IsResponse
  <2>2. responses'[c].row = issued'[c].row
    BY <1>2, <1>3 DEF IInv, ResponsesRight, IsResponse
  <2> QED
    BY <1>1, <2>1, <2>2 DEF Growth, StoresGrow
<1>5. ASSUME Settled(c)
      PROVE  responses'[c] = responses[c]
  <2>1. ASSUME NEW w \in Workers, StoreResponse(w)
        PROVE  responses'[c] = responses[c]
    <3>1. job[w].chal # c
      BY <1>5, <2>1 DEF Settled, StoreResponse, At
    <3> QED
      BY <2>1, <3>1 DEF StoreResponse, Put
  <2> QED
    BY <1>1, <2>1 DEF Written
<1>6. ASSUME Settled(c), NEW w \in Workers, job'[w].step \in {"delete", "store"}
      PROVE  job'[w].chal # c
  <2>1. CASE job'[w] = job[w]
    BY <1>6, <2>1 DEF Settled
  <2>2. CASE DeleteChallenge(w)
    <3>1. job[w].step = "delete" /\ job'[w].chal = job[w].chal
      BY <1>1, <2>2, GotoFacts DEF DeleteChallenge, StoreJob, At
    <3> QED
      BY <1>6, <3>1 DEF Settled
  <2>3. ASSUME NEW d \in ChallengeIds, NEW secret \in Secrets, RespondBegin(w, d, secret)
        PROVE  job'[w].chal # c
    <3>1. job'[w].chal = d /\ d \in DOMAIN challenges
      BY <1>1, <2>3, GotoFacts DEF RespondBegin, DeleteJob
    <3> QED
      BY <3>1 DEF StoredGone, AnsweredNotPending
  <2> QED
    BY <1>1, <1>6, <2>1, <2>2, <2>3 DEF Entered
<1> QED
  BY <1>3, <1>4, <1>5, <1>6 DEF Settled

\* A stored response stays and belongs to its row, and once no responder that
\* raced the one who stored it is left, its answer is never replaced.
THEOREM SettledAnswersStay == Spec => SettledIsFinal
<1>1. IInv /\ AccessInv /\ [Next]_vars => AnswersSettle
  BY SettleStep DEF AccessInv
<1> QED
  BY <1>1, Invariance, AccessInvariance, PTL DEF Spec, SettledIsFinal

-----------------------------------------------------------------------------
(* The server implements QuorumAccess *)

\* What QuorumAccess sees of the server's state, part by part.
QuorumSizes == [e \in DOMAIN shaKeys |-> Len(shaKeys[e])]
AskedFor == [r \in DOMAIN requests |-> RequestedEncryption(r)]
KeysGiven == {r \in DOMAIN requests : shaKeys[RequestedEncryption(r)] \in released[r]}

\* Member i of a request's quorum consents to r by giving the right answer.
IsConsent(r, i) ==
  /\ r \in DOMAIN requests
  /\ i \in DOMAIN requests[r]
  /\ <<requests[r][i], RightAnswer(RequestedEncryption(r), i)>> \in answered

ConsentsSet ==
  /\ Consents \subseteq RequestIds \X (1 .. MaxNames)
  /\ \A r \in RequestIds, i \in 1 .. MaxNames : <<r, i>> \in Consents <=> IsConsent(r, i)

\* Consents holds these pairs and no others, now and after a step.
LEMMA ConsentsAre == ConsentsSet /\ ConsentsSet'
<1>1. ConsentsSet
  <2>1. Consents \subseteq RequestIds \X (1 .. MaxNames)
    BY DEF Consents
  <2>2. ASSUME NEW r \in RequestIds, NEW i \in 1 .. MaxNames
        PROVE  <<r, i>> \in Consents <=> IsConsent(r, i)
    <3>1. <<r, i>> \in RequestIds \X (1 .. MaxNames) /\ <<r, i>>[1] = r /\ <<r, i>>[2] = i
      BY <2>2
    <3> QED
      BY <3>1 DEF Consents, IsConsent
  <2> QED
    BY <2>1, <2>2 DEF ConsentsSet
<1> QED
  BY <1>1, PTL

\* A request has as many challenges as its quorum has members, at most MaxNames.
LEMMA RequestSizes ==
  ASSUME IInv, AccessInv, NEW r \in DOMAIN requests
  PROVE  LET e == RequestedEncryption(r)
         IN /\ r \in RequestIds /\ e \in DOMAIN shaKeys /\ e \in EncryptionIds
            /\ Len(shaKeys[e]) \in 1 .. MaxNames
            /\ DOMAIN requests[r] = 1 .. Len(shaKeys[e])
            /\ DOMAIN encryptKeys[e] = DOMAIN requests[r]
<1> DEFINE e == RequestedEncryption(r)
<1>1. /\ e \in DOMAIN shaKeys /\ e \in EncryptionIds /\ encryptKeys[e] \in Seq(Row)
      /\ requests[r] \in Seq(ChallengeIds) /\ requests[r] # <<>>
      /\ Len(requests[r]) = Len(encryptKeys[e])
  BY RequestFacts
<1>2. Len(shaKeys[e]) = Len(encryptKeys[e])
  <2>1. shaKeys[e] = Plains(encryptKeys[e])
    BY <1>1 DEF IInv, SetupComplete
  <2> QED
    BY <1>1, <2>1 DEF Plains
<1>3. Len(shaKeys[e]) <= MaxNames
  BY <1>1 DEF AccessInv, SizesBounded
<1>4. r \in RequestIds
  BY DEF IInv, TypeOK, PartialFunction
<1>5. Len(requests[r]) \in Nat \ {0}
  BY <1>1
<1> HIDE DEF e
<1> QED
  BY <1>1, <1>2, <1>3, <1>4, <1>5, NamesAssumption DEF e

\* The answer a request asks a member for never changes.
LEMMA AnswerStays ==
  ASSUME IInv, AccessInv, Growth, NEW r \in DOMAIN requests, NEW i \in DOMAIN requests[r]
  PROVE  RightAnswer(RequestedEncryption(r), i)' = RightAnswer(RequestedEncryption(r), i)
<1> DEFINE e == RequestedEncryption(r)
<1>1. e \in DOMAIN shaKeys /\ i \in DOMAIN encryptKeys[e]
  BY RequestSizes
<1>2. RequestedEncryption(r)' = e
  BY RequestedStays
<1>3. \A d \in DOMAIN shaKeys : \A k \in DOMAIN encryptKeys[d] :
        RightAnswer(d, k)' = RightAnswer(d, k)
  BY RightAnswerStays
<1> QED
  BY <1>1, <1>2, <1>3 DEF RightAnswer

\* The parts change only with the stores they are read from.
LEMMA PartsStay ==
  ASSUME IInv, AccessInv, IInv', AccessInv', Growth
  PROVE  /\ shaKeys' = shaKeys => QuorumSizes' = QuorumSizes
         /\ requests' = requests => AskedFor' = AskedFor
         /\ requests' = requests /\ released' = released => KeysGiven' = KeysGiven
         /\ requests' = requests /\ answered' = answered => Consents' = Consents
<1>1. \A r \in DOMAIN requests : RequestedEncryption(r)' = RequestedEncryption(r)
  BY RequestedStays
<1>2. \A r \in DOMAIN requests :
        shaKeys'[RequestedEncryption(r)] = shaKeys[RequestedEncryption(r)]
  BY RequestFacts DEF Growth, StoresGrow
<1>3. \A r \in DOMAIN requests : \A i \in DOMAIN requests[r] :
        RightAnswer(RequestedEncryption(r), i)' = RightAnswer(RequestedEncryption(r), i)
  BY AnswerStays
<1>4. requests' = requests => AskedFor' = AskedFor
  BY <1>1 DEF AskedFor
<1>5. requests' = requests /\ released' = released => KeysGiven' = KeysGiven
  BY <1>1, <1>2 DEF KeysGiven
<1>6. requests' = requests /\ answered' = answered => Consents' = Consents
  BY <1>1, <1>3 DEF Consents
<1> QED
  BY <1>4, <1>5, <1>6 DEF QuorumSizes

\* Telling of an encryption sets it up.
LEMMA ReplySetsUp ==
  ASSUME IInv, AccessInv, Growth, IInv', AccessInv', NEW w \in Workers, SetupReply(w)
  PROVE  Access!Next
<1>0. PICK e, n : e = job[w].enc /\ n = Len(job[w].rows)
  OBVIOUS
<1>1. /\ job[w] \in InsertType /\ InsertOwned(w) /\ At(w, "insert")
  BY JobTypes DEF SetupReply, IInv, InsertsOwned
<1>2. /\ e \in EncryptionIds /\ e \notin DOMAIN shaKeys
      /\ job[w].rows \in Seq(Row) /\ n \in Nat /\ n # 0 /\ n <= MaxNames
  BY <1>0, <1>1 DEF InsertType, InsertOwned, AccessInv, SizesBounded
<1>3. shaKeys' = Put(shaKeys, e, Plains(job[w].rows)) /\ Len(Plains(job[w].rows)) = n
  BY <1>0, <1>2 DEF SetupReply, Plains
<1>4. requests' = requests /\ answered' = answered /\ released' = released
  BY DEF SetupReply, redis, history
<1>5. AskedFor' = AskedFor /\ KeysGiven' = KeysGiven /\ Consents' = Consents
  BY <1>4, PartsStay
<1>6. QuorumSizes' = Access!Extend(QuorumSizes, e, n)
  BY <1>2, <1>3 DEF QuorumSizes, Put, Access!Extend
<1>7. n \in 1 .. MaxNames /\ e \notin DOMAIN QuorumSizes
  BY <1>2, NamesAssumption DEF QuorumSizes
<1>8. Access!SetUp(e)
  BY <1>5, <1>6, <1>7 DEF Access!SetUp, QuorumSizes, AskedFor, KeysGiven
<1> QED
  BY <1>2, <1>8 DEF Access!Next

\* Storing a request asks its quorum; some may have answered already.
LEMMA StoringAsks ==
  ASSUME IInv, AccessInv, Growth, IInv', AccessInv', NEW w \in Workers, StoreRequest(w)
  PROVE  Access!Next
<1>0. PICK r, cs, e : r = job[w].req /\ cs = job[w].chals /\ e = job[w].enc
  OBVIOUS
<1>1. /\ job[w] \in IssueType /\ IssueRight(w) /\ Len(cs) = Len(job[w].rows)
  BY <1>0, JobTypes DEF StoreRequest, AllIssued, IInv, IssuesRight
<1>2. /\ r \in RequestIds /\ r \notin DOMAIN requests /\ e \in EncryptionIds
      /\ cs \in Seq(ChallengeIds) /\ e \in DOMAIN shaKeys /\ Issued(cs, e)
  BY <1>0, <1>1 DEF IssueType, IssueRight
<1>3. requests' = Put(requests, r, cs)
  BY <1>0 DEF StoreRequest
<1>4. shaKeys' = shaKeys /\ answered' = answered /\ released' = released /\ issued' = issued
  BY DEF StoreRequest, told, history
<1>5. Len(cs) = Len(shaKeys[e]) /\ cs # <<>>
  <2>1. shaKeys[e] = Plains(encryptKeys[e]) /\ shaKeys[e] # <<>> /\ job[w].rows = encryptKeys[e]
    BY <1>0, <1>1, <1>2 DEF IInv, SetupComplete, IssueRight
  <2>2. job[w].rows \in Seq(Row)
    BY <1>1 DEF IssueType
  <2>3. Len(Plains(job[w].rows)) = Len(job[w].rows)
    BY <2>2 DEF Plains
  <2>4. job[w].rows # <<>>
    BY <2>1 DEF Plains
  <2> QED
    BY <1>1, <1>2, <2>1, <2>2, <2>3, <2>4
<1>6. requests'[r] = cs /\ r \in DOMAIN requests' /\ DOMAIN requests' = DOMAIN requests \cup {r}
  BY <1>3 DEF Put
<1>7. RequestedEncryption(r)' = e
  <2>1. issued[cs[1]].row = <<e, 1>>
    BY <1>2, <1>5 DEF Issued
  <2> QED
    BY <1>4, <1>6, <2>1 DEF RequestedEncryption
<1>8. QuorumSizes' = QuorumSizes
  BY <1>4, PartsStay
<1>9. AskedFor' = Access!Extend(AskedFor, r, e)
  BY <1>2, <1>6, <1>7, RequestedStays DEF AskedFor, Access!Extend
<1>10. KeysGiven' = KeysGiven
  <2>1. released[r] = {}
    BY <1>2 DEF IInv, ReleasedRight
  <2>2. \A s \in DOMAIN requests : RequestedEncryption(s)' = RequestedEncryption(s)
    BY RequestedStays
  <2> QED
    BY <1>4, <1>6, <2>1, <2>2 DEF KeysGiven
<1> DEFINE early == {i \in 1 .. Len(shaKeys[e]) : IsConsent(r, i)'}
<1>11. \A s \in DOMAIN requests : \A i : IsConsent(s, i)' <=> IsConsent(s, i)
  <2> SUFFICES ASSUME NEW s \in DOMAIN requests, NEW i
               PROVE  IsConsent(s, i)' <=> IsConsent(s, i)
    OBVIOUS
  <2>1. requests'[s] = requests[s] /\ s \in DOMAIN requests'
    BY <1>2, <1>3 DEF Put
  <2>2. i \in DOMAIN requests[s] =>
          RightAnswer(RequestedEncryption(s), i)' = RightAnswer(RequestedEncryption(s), i)
    BY AnswerStays
  <2> QED
    BY <1>4, <2>1, <2>2 DEF IsConsent
<1>12. \A i \in 1 .. MaxNames : IsConsent(r, i)' <=> i \in early
  BY <1>5, <1>6 DEF IsConsent
<1>13. early \subseteq 1 .. MaxNames
  BY <1>2, NamesAssumption DEF AccessInv, SizesBounded
<1>14. \A s \in RequestIds : s # r /\ s \notin DOMAIN requests =>
         \A i : ~ IsConsent(s, i) /\ ~ IsConsent(s, i)'
  BY <1>6 DEF IsConsent
<1>15. \A i : ~ IsConsent(r, i)
  BY <1>2 DEF IsConsent
<1>16. Consents' = Consents \cup ({r} \X early)
  <2> HIDE DEF early
  <2>1. ASSUME NEW s \in RequestIds, NEW i \in 1 .. MaxNames
        PROVE  <<s, i>> \in Consents' <=> <<s, i>> \in Consents \cup ({r} \X early)
    BY <1>2, <1>11, <1>12, <1>14, <1>15, ConsentsAre DEF ConsentsSet
  <2>2. /\ Consents' \subseteq RequestIds \X (1 .. MaxNames)
        /\ Consents \cup ({r} \X early) \subseteq RequestIds \X (1 .. MaxNames)
    BY <1>2, <1>13, ConsentsAre DEF ConsentsSet
  <2> QED
    BY <2>1, <2>2
<1>17. r \notin DOMAIN AskedFor /\ e \in DOMAIN QuorumSizes
       /\ early \in SUBSET (1 .. QuorumSizes[e])
  BY <1>2 DEF AskedFor, QuorumSizes
<1>18. Access!Ask(r, e)
  <2> HIDE DEF early
  <2> QED
    BY <1>8, <1>9, <1>10, <1>16, <1>17 DEF Access!Ask, QuorumSizes, AskedFor, KeysGiven
<1> QED
  BY <1>2, <1>18 DEF Access!Next

\* A challenge is that of one member of one request.
LEMMA OneAsked ==
  ASSUME IInv, AccessInv, NEW r \in DOMAIN requests, NEW s \in DOMAIN requests,
         NEW i \in DOMAIN requests[r], NEW j \in DOMAIN requests[s],
         requests[r][i] = requests[s][j]
  PROVE  r = s /\ i = j
<1>1. r = s
  BY DEF AccessInv, AskedOnce, Apart
<1>2. Issued(requests[r], RequestedEncryption(r))
  BY RequestFacts
<1>3. <<RequestedEncryption(r), i>> = <<RequestedEncryption(r), j>>
  BY <1>1, <1>2 DEF Issued
<1> QED
  BY <1>1, <1>3

\* Storing an answer consents, if it is the right one to a challenge that a
\* stored request has asked; otherwise QuorumAccess does not see it.
LEMMA AnsweringConsents ==
  ASSUME IInv, AccessInv, Growth, IInv', AccessInv', NEW w \in Workers, StoreResponse(w)
  PROVE  [Access!Next]_(Access!vars)
<1>0. PICK c, key : c = job[w].chal /\ key = job[w].key
  OBVIOUS
<1>1. answered' = answered \cup {<<c, key>>}
  BY <1>0 DEF StoreResponse
<1>2. shaKeys' = shaKeys /\ requests' = requests /\ released' = released
  BY DEF StoreResponse, told
<1>3. QuorumSizes' = QuorumSizes /\ AskedFor' = AskedFor /\ KeysGiven' = KeysGiven
  BY <1>2, PartsStay
<1>4. \A r \in RequestIds, i \in 1 .. MaxNames :
        IsConsent(r, i)' <=>
          \/ IsConsent(r, i)
          \/ /\ r \in DOMAIN requests /\ i \in DOMAIN requests[r]
             /\ requests[r][i] = c /\ RightAnswer(RequestedEncryption(r), i) = key
  <2> SUFFICES ASSUME NEW r \in RequestIds, NEW i \in 1 .. MaxNames
               PROVE  IsConsent(r, i)' <=>
                        \/ IsConsent(r, i)
                        \/ /\ r \in DOMAIN requests /\ i \in DOMAIN requests[r]
                           /\ requests[r][i] = c /\ RightAnswer(RequestedEncryption(r), i) = key
    OBVIOUS
  <2>1. CASE r \in DOMAIN requests /\ i \in DOMAIN requests[r]
    <3>1. RightAnswer(RequestedEncryption(r), i)' = RightAnswer(RequestedEncryption(r), i)
      BY <2>1, AnswerStays
    <3> QED
      BY <1>1, <1>2, <2>1, <3>1 DEF IsConsent
  <2>2. CASE ~ (r \in DOMAIN requests /\ i \in DOMAIN requests[r])
    BY <1>2, <2>2 DEF IsConsent
  <2> QED
    BY <2>1, <2>2
<1>5. CASE \E r \in DOMAIN requests : \E i \in DOMAIN requests[r] :
             requests[r][i] = c /\ RightAnswer(RequestedEncryption(r), i) = key
  <2>0. PICK r \in DOMAIN requests : \E i \in DOMAIN requests[r] :
           requests[r][i] = c /\ RightAnswer(RequestedEncryption(r), i) = key
    BY <1>5
  <2>1. PICK i \in DOMAIN requests[r] :
           requests[r][i] = c /\ RightAnswer(RequestedEncryption(r), i) = key
    BY <2>0
  <2>2. \A s \in DOMAIN requests : \A j \in DOMAIN requests[s] :
          requests[s][j] = c => s = r /\ j = i
    BY <2>1, OneAsked
  <2>3. /\ r \in RequestIds /\ i \in 1 .. MaxNames
        /\ i \in 1 .. Len(shaKeys[RequestedEncryption(r)])
        /\ RequestedEncryption(r) \in DOMAIN shaKeys
    BY <2>1, RequestSizes, NamesAssumption
  <2>4. Consents' = Consents \cup {<<r, i>>}
    <3>1. ASSUME NEW s \in RequestIds, NEW j \in 1 .. MaxNames
          PROVE  <<s, j>> \in Consents' <=> <<s, j>> \in Consents \cup {<<r, i>>}
      BY <1>4, <2>1, <2>2, <3>1, ConsentsAre DEF ConsentsSet
    <3>2. /\ Consents' \subseteq RequestIds \X (1 .. MaxNames)
          /\ Consents \cup {<<r, i>>} \subseteq RequestIds \X (1 .. MaxNames)
      BY <2>3, ConsentsAre DEF ConsentsSet
    <3> QED
      BY <3>1, <3>2
  <2>5. r \in DOMAIN AskedFor /\ i \in 1 .. QuorumSizes[AskedFor[r]]
    BY <2>1, <2>3 DEF AskedFor, QuorumSizes
  <2>6. Access!Consent(r, i)
    BY <1>3, <2>4, <2>5 DEF Access!Consent, QuorumSizes, AskedFor, KeysGiven
  <2> QED
    BY <2>3, <2>6 DEF Access!Next
<1>6. CASE ~ \E r \in DOMAIN requests : \E i \in DOMAIN requests[r] :
               requests[r][i] = c /\ RightAnswer(RequestedEncryption(r), i) = key
  <2>1. Consents' = Consents
    <3>1. ASSUME NEW s \in RequestIds, NEW j \in 1 .. MaxNames
          PROVE  <<s, j>> \in Consents' <=> <<s, j>> \in Consents
      BY <1>4, <1>6, <3>1, ConsentsAre DEF ConsentsSet
    <3>2. /\ Consents' \subseteq RequestIds \X (1 .. MaxNames)
          /\ Consents \subseteq RequestIds \X (1 .. MaxNames)
      BY ConsentsAre DEF ConsentsSet
    <3> QED
      BY <3>1, <3>2
  <2> QED
    BY <1>3, <2>1 DEF Access!vars, QuorumSizes, AskedFor, KeysGiven
<1> QED
  BY <1>5, <1>6

\* Returning the key grants; returning noise, or the key again, is not seen.
LEMMA ReleasingGrants ==
  ASSUME IInv, AccessInv, Growth, IInv', AccessInv', NEW w \in Workers, ReleaseKey(w),
         ReleasedWithConsent'
  PROVE  [Access!Next]_(Access!vars)
<1>0. PICK r, keys : r = job[w].req /\ keys = Unlocked(job[w].got)
  OBVIOUS
<1>1. /\ r \in DOMAIN requests /\ r \in RequestIds
      /\ released' = [released EXCEPT ![r] = @ \cup {keys}]
  <2>1. At(w, "collect")
    BY DEF ReleaseKey
  <2>2. r \in DOMAIN requests
    BY <1>0, <2>1 DEF IInv, CollectsRight, CollectRight
  <2> QED
    BY <1>0, <2>2, RequestSizes DEF ReleaseKey
<1>2. shaKeys' = shaKeys /\ requests' = requests /\ answered' = answered
  BY DEF ReleaseKey, redis, history
<1>3. QuorumSizes' = QuorumSizes /\ AskedFor' = AskedFor /\ Consents' = Consents
  BY <1>2, PartsStay
<1>4. PICK e : e = RequestedEncryption(r)
  OBVIOUS
<1>5. /\ e \in DOMAIN shaKeys /\ Len(shaKeys[e]) \in 1 .. MaxNames
      /\ DOMAIN requests[r] = 1 .. Len(shaKeys[e]) /\ DOMAIN shaKeys[e] = 1 .. Len(shaKeys[e])
  <2>1. e \in DOMAIN shaKeys /\ Len(shaKeys[e]) \in 1 .. MaxNames
        /\ DOMAIN requests[r] = 1 .. Len(shaKeys[e])
    BY <1>1, <1>4, RequestSizes
  <2>2. shaKeys[e] \in Seq(RowIds)
    BY <2>1 DEF IInv, TypeOK, PartialFunction
  <2> QED
    BY <2>1, <2>2
<1>6. \A s \in DOMAIN requests : RequestedEncryption(s)' = RequestedEncryption(s)
  BY RequestedStays
<1>7. \A s \in RequestIds : released'[s] = IF s = r THEN released[s] \cup {keys} ELSE released[s]
  BY <1>1 DEF IInv, TypeOK
<1>8. \A s \in DOMAIN requests : s \in RequestIds
  BY RequestSizes
<1>9. CASE keys = shaKeys[e]
  <2>1. KeysGiven' = KeysGiven \cup {r}
    BY <1>1, <1>2, <1>4, <1>6, <1>7, <1>8, <1>9 DEF KeysGiven
  <2>2. ASSUME NEW i \in 1 .. Len(shaKeys[e])
        PROVE  <<r, i>> \in Consents
    <3>1. <<requests'[r][i], RightAnswer(e, i)'>> \in answered'
      BY <1>1, <1>2, <1>5, <1>7, <1>9 DEF ReleasedWithConsent
    <3>2. RightAnswer(e, i)' = RightAnswer(e, i)
      <4>1. i \in DOMAIN encryptKeys[e]
        BY <1>1, <1>4, <1>5, RequestSizes
      <4> QED
        BY <1>5, <4>1, RightAnswerStays
    <3>3. i \in 1 .. MaxNames
      BY <1>5, NamesAssumption
    <3> QED
      BY <1>1, <1>2, <1>4, <1>5, <3>1, <3>2, <3>3, ConsentsAre DEF ConsentsSet, IsConsent
  <2>3. r \in DOMAIN AskedFor /\ {r} \X (1 .. QuorumSizes[AskedFor[r]]) \subseteq Consents
    BY <1>1, <1>4, <1>5, <2>2 DEF AskedFor, QuorumSizes
  <2>4. Access!Grant(r)
    BY <1>3, <2>1, <2>3 DEF Access!Grant, QuorumSizes, AskedFor, KeysGiven
  <2> QED
    BY <1>1, <2>4 DEF Access!Next
<1>10. CASE keys # shaKeys[e]
  <2>1. KeysGiven' = KeysGiven
    BY <1>1, <1>2, <1>4, <1>6, <1>7, <1>8, <1>10 DEF KeysGiven
  <2> QED
    BY <1>3, <2>1 DEF Access!vars, QuorumSizes, AskedFor, KeysGiven
<1> QED
  BY <1>9, <1>10

\* Every step of a worker is one of QuorumAccess or is not seen by it.
LEMMA AccessSteps ==
  ASSUME IInv, AccessInv, [Next]_vars, IInv', AccessInv', ReleasedWithConsent'
  PROVE  [Access!Next]_(Access!vars)
<1>1. Written /\ Growth
  BY Writers, GrowthStep DEF IInv
<1>2. CASE \E w \in Workers : SetupReply(w) \/ StoreRequest(w)
  BY <1>1, <1>2, ReplySetsUp, StoringAsks
<1>3. CASE \E w \in Workers : StoreResponse(w)
  BY <1>1, <1>3, AnsweringConsents
<1>4. CASE \E w \in Workers : ReleaseKey(w)
  BY <1>1, <1>4, ReleasingGrants
<1>5. CASE /\ shaKeys' = shaKeys /\ requests' = requests
           /\ answered' = answered /\ released' = released
  <2>1. /\ QuorumSizes' = QuorumSizes /\ AskedFor' = AskedFor
        /\ KeysGiven' = KeysGiven /\ Consents' = Consents
    BY <1>1, <1>5, PartsStay
  <2> QED
    BY <2>1 DEF Access!vars, QuorumSizes, AskedFor, KeysGiven
<1> QED
  BY <1>1, <1>2, <1>3, <1>4, <1>5 DEF Written

\* The handlers, with any interleaving and any of them failing half-way, hand
\* the key of an encryption only to a request that every member of its quorum
\* has consented to.
THEOREM ServerImplementsAccess == Spec => GrantsOnlyByQuorum
<1>1. Init => Access!Init
  <2> SUFFICES ASSUME Init PROVE Access!Init
    OBVIOUS
  <2>1. shaKeys = Empty /\ requests = Empty
    BY DEF Init
  <2>2. QuorumSizes = [e \in {} |-> 0] /\ AskedFor = [r \in {} |-> 0]
        /\ KeysGiven = {} /\ Consents = {}
    BY <2>1 DEF QuorumSizes, AskedFor, KeysGiven, Consents, Empty
  <2> QED
    BY <2>2 DEF Access!Init, QuorumSizes, AskedFor, KeysGiven
<1>2. IInv => ReleasedWithConsent
  BY ConsentFromInv
<1>3. /\ IInv /\ AccessInv /\ [Next]_vars /\ IInv' /\ AccessInv' /\ ReleasedWithConsent'
      => [Access!Next]_(Access!vars)
  BY AccessSteps
<1> QED
  BY <1>1, <1>2, <1>3, Invariance, AccessInvariance, PTL DEF Spec, GrantsOnlyByQuorum, Access!Spec

-----------------------------------------------------------------------------
(* The system: the server and the programs that call it *)

\* What the members' and the disk client do to the server is a handler's step,
\* and no handler fails half-way.  Nobody is registered meanwhile.
UsersGiven == users = InitialUsers
Served == \E w \in Workers : ServerStep(w)

\* A step of the system is a step of a handler, or the server does not see it.
LEMMA SystemSteps ==
  ASSUME TypeOK, UsersGiven, [NextSystem]_system
  PROVE  /\ UNCHANGED vars \/ Served
         /\ UsersGiven'
<1>1. CASE UNCHANGED system
  BY <1>1 DEF system, vars, UsersGiven
<1>2. ASSUME NEW w \in Workers, Handle(w)
      PROVE  Served /\ users' = users
  <2>1. ServerStep(w)
    BY <1>2 DEF Handle, ServerStep, SetupStep, DecryptStep, RespondStep, GetKeyStep
  <2>2. users' = users
    BY <1>2 DEF Handle, InsertRow, SetupReply, CreateChallenge, StoreRequest,
                DeleteChallenge, StoreResponse, CollectResponse, ReleaseKey,
                UnlockRefused, mysql
  <2> QED
    BY <2>1, <2>2 DEF Served
<1>3. ASSUME NEW u \in Members, Member(u)
      PROVE  /\ UNCHANGED vars \/ Served
             /\ users' = users
  <2>1. CASE PostAnswer(u)
    <3>1. CASE UNCHANGED vars
      BY <3>1 DEF vars
    <3>2. ASSUME NEW w \in Workers, RespondBegin(w, client[u].chal, users[u].secret)
          PROVE  Served /\ users' = users
      <4>1. client[u].chal \in ChallengeIds
        BY <3>2 DEF RespondBegin, TypeOK, PartialFunction
      <4>2. users[u].secret \in Secrets
        BY <1>3, UserFacts DEF UsersGiven, Members
      <4>3. ServerStep(w)
        BY <3>2, <4>1, <4>2 DEF ServerStep, RespondStep
      <4> QED
        BY <3>2, <4>3 DEF Served, RespondBegin, mysql
    <3> QED
      BY <2>1, <3>1, <3>2 DEF PostAnswer
  <2>2. CASE ~ PostAnswer(u)
    <3>1. UNCHANGED vars
      BY <1>3, <2>2 DEF Member, ListChallenges, PickChallenge, YubiKeyAnswers, YubiKeyFails
    <3> QED
      BY <3>1 DEF vars
  <2> QED
    BY <2>1, <2>2
<1>4. CASE AskSetup
  <2>1. PICK w \in Workers, n \in DOMAIN InitialUsers \cap 1 .. MaxNames :
          Setup(w, FirstNames(n))
    BY <1>4 DEF AskSetup
  <2>2. \A i \in 1 .. n : InitialUsers[i].name \in Names
    <3>1. /\ \A i \in DOMAIN InitialUsers : InitialUsers[i] \in User
          /\ DOMAIN InitialUsers = 1 .. Len(InitialUsers) /\ Len(InitialUsers) \in Nat
      BY UsersAssumption
    <3>2. \A i \in 1 .. n : i \in DOMAIN InitialUsers
      BY <2>1, <3>1
    <3> QED
      BY <3>1, <3>2 DEF User
  <2>3. FirstNames(n) \in [1 .. n -> Names] /\ n \in 0 .. MaxNames
    BY <2>1, <2>2, NamesAssumption DEF FirstNames
  <2>4. FirstNames(n) \in NameLists
    BY <2>3 DEF NameLists
  <2>5. ServerStep(w)
    BY <2>1, <2>4 DEF ServerStep, SetupStep
  <2> QED
    BY <2>1, <2>5 DEF Served, Setup, mysql, UsersGiven
<1>5. CASE AskDecrypt
  <2>1. PICK w \in Workers, e \in EncryptionIds : DecryptBegin(w, e)
    BY <1>5 DEF AskDecrypt
  <2> QED
    BY <2>1 DEF Served, ServerStep, DecryptStep, DecryptBegin, mysql, UsersGiven
<1>6. ASSUME NEW r \in RequestIds, AskKey(r)
      PROVE  Served /\ users' = users
  <2>1. PICK w \in Workers : GetKeyBegin(w, r)
    BY <1>6 DEF AskKey
  <2> QED
    BY <2>1 DEF Served, ServerStep, GetKeyStep, GetKeyBegin, mysql
<1> QED
  BY <1>1, <1>2, <1>3, <1>4, <1>5, <1>6 DEF NextSystem, UsersGiven

\* The composed system is a system of the server: all that is proved of the
\* server holds in it, whatever the members and the disk client do.
THEOREM SystemImplementsServer == SpecSystem => Spec
<1>1. InitSystem => Init /\ IInv /\ UsersGiven
  BY InitInv DEF InitSystem, Init, UsersGiven
<1>2. IInv /\ UsersGiven /\ [NextSystem]_system => [Next]_vars /\ IInv' /\ UsersGiven'
  <2> SUFFICES ASSUME IInv, UsersGiven, [NextSystem]_system
               PROVE  [Next]_vars /\ IInv' /\ UsersGiven'
    OBVIOUS
  <2>1. [Next]_vars /\ UsersGiven'
    BY SystemSteps DEF IInv, Served, Next
  <2> QED
    BY <2>1, NextInv
<1> QED
  BY <1>1, <1>2, PTL DEF SpecSystem, Spec

\* Every challenge that was issued is pending, answered, or in the hands of a
\* responder that is about to store its answer.
NothingLost ==
  \A c \in DOMAIN issued :
    \/ c \in DOMAIN challenges \cup DOMAIN responses
    \/ \E w \in Workers : At(w, "store") /\ job[w].chal = c

\* A handler that runs to its end loses no challenge.
LEMMA ServingLosesNothing ==
  ASSUME TypeOK, NothingLost, NEW w \in Workers, ServerStep(w)
  PROVE  NothingLost'
<1>1. Written
  BY Writers DEF Next
<1>2. \A v \in Workers : v # w => job'[v] = job[v]
  BY GotoFacts DEF ServerStep, CreateUser, SetupStep, Setup, InsertRow, SetupReply,
         DecryptStep, DecryptBegin, CreateChallenge, StoreRequest, RespondStep,
         RespondBegin, DeleteChallenge, StoreResponse, GetKeyStep, GetKeyBegin,
         CollectResponse, ReleaseKey, UnlockRefused
<1>3. At(w, "store") => StoreResponse(w)
  BY DEF ServerStep, CreateUser, SetupStep, Setup, InsertRow, SetupReply,
         DecryptStep, DecryptBegin, CreateChallenge, StoreRequest, RespondStep,
         RespondBegin, DeleteChallenge, GetKeyStep, GetKeyBegin,
         CollectResponse, ReleaseKey, UnlockRefused, At
<1>4. DOMAIN responses \subseteq DOMAIN responses'
  BY <1>1 DEF Written, StoreResponse, Put
<1> SUFFICES ASSUME NEW c \in DOMAIN issued'
             PROVE  \/ c \in DOMAIN challenges' \cup DOMAIN responses'
                    \/ \E v \in Workers : job'[v].step = "store" /\ job'[v].chal = c
  BY DEF NothingLost, At
<1>5. CASE c \notin DOMAIN issued
  <2>1. PICK v \in Workers : CreateChallenge(v)
    BY <1>1, <1>5 DEF Written
  <2>2. PICK d, entity :
          challenges' = Put(challenges, d, entity) /\ issued' = Put(issued, d, entity)
    BY <2>1 DEF CreateChallenge
  <2> QED
    BY <1>5, <2>2 DEF Put
<1>6. CASE c \in DOMAIN challenges
  <2>1. ASSUME NEW v \in Workers, CreateChallenge(v)
        PROVE  c \in DOMAIN challenges'
    <3>1. PICK d, entity : challenges' = Put(challenges, d, entity)
      BY <2>1 DEF CreateChallenge
    <3> QED
      BY <1>6, <3>1 DEF Put
  <2>2. ASSUME NEW v \in Workers, DeleteChallenge(v)
        PROVE  c \in DOMAIN challenges' \/ (job'[v].step = "store" /\ job'[v].chal = c)
    <3>1. /\ DOMAIN challenges' = DOMAIN challenges \ {job[v].chal}
          /\ job'[v].step = "store" /\ job'[v].chal = job[v].chal
      BY <2>2, GotoFacts DEF DeleteChallenge, Delete, Restrict, StoreJob
    <3> QED
      BY <1>6, <3>1
  <2> QED
    BY <1>1, <1>6, <2>1, <2>2 DEF Written
<1>7. CASE c \in DOMAIN responses
  BY <1>4, <1>7
<1>8. ASSUME NEW v \in Workers, At(v, "store"), job[v].chal = c
      PROVE  \/ c \in DOMAIN responses'
             \/ job'[v].step = "store" /\ job'[v].chal = c
  <2>1. CASE v = w
    BY <1>3, <1>8, <2>1 DEF StoreResponse, Put
  <2>2. CASE v # w
    BY <1>2, <1>8, <2>2 DEF At
  <2> QED
    BY <2>1, <2>2
<1> QED
  BY <1>5, <1>6, <1>7, <1>8 DEF NothingLost

\* In the composed system, where no request fails half-way, no member's turn
\* is lost, whoever answers and however the polls and posts interleave.
THEOREM NoAnswerIsLost == SpecSystem => []NoAnswerLost
<1>1. InitSystem => UsersGiven /\ NothingLost
  BY DEF InitSystem, Init, Empty, UsersGiven, NothingLost
<1>2. IInv /\ UsersGiven /\ NothingLost /\ [NextSystem]_system => UsersGiven' /\ NothingLost'
  <2> SUFFICES ASSUME IInv, UsersGiven, NothingLost, [NextSystem]_system
               PROVE  UsersGiven' /\ NothingLost'
    OBVIOUS
  <2>1. UsersGiven' /\ (UNCHANGED vars \/ Served)
    BY SystemSteps DEF IInv
  <2>2. CASE UNCHANGED vars
    BY <2>1, <2>2 DEF vars, NothingLost, At
  <2>3. CASE Served
    BY <2>1, <2>3, ServingLosesNothing DEF Served, IInv
  <2> QED
    BY <2>1, <2>2, <2>3
<1>3. IInv /\ NothingLost => NoAnswerLost
  <2> SUFFICES ASSUME IInv, NothingLost, NEW r \in DOMAIN requests,
                      NEW i \in DOMAIN requests[r]
               PROVE  \/ requests[r][i] \in DOMAIN challenges \cup DOMAIN responses
                      \/ \E w \in Workers : At(w, "store") /\ job[w].chal = requests[r][i]
    BY DEF NoAnswerLost, Range
  <2> QED
    BY AskedWereIssued DEF NothingLost
<1> QED
  BY <1>1, <1>2, <1>3, SystemImplementsServer, Invariance, PTL DEF SpecSystem
=============================================================================
