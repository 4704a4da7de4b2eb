-------------------------- MODULE ReviewCallsProofs --------------------------
(***************************************************************************)
(* Theorems about the threads of ReviewCalls, for any number of tasks and  *)
(* slots: the slots of the semaphore add up, the main thread returns when  *)
(* every task has been run, and loading prompts for one password at a time.*)
(***************************************************************************)
EXTENDS ReviewCalls, FiniteSetTheorems, TLAPS

\* What a thread has counted, given where it is.
Counted(t) ==
  /\ In(t, {"new"}) => thread[t].tries = 0 /\ thread[t].prompts = 0
  /\ In(t, {"call"}) /\ mode = "upload" => thread[t].prompts = 0
  /\ In(t, {"auth"}) => thread[t].prompts < MaxPrompts
  /\ ~ In(t, {"dead"}) => thread[t].tries <= MaxTries

\* The main thread has started a thread for each task it has taken, and has
\* every thread that may still run in active, or is joining it.
Followed(t) ==
  /\ t \in todo <=> In(t, {"new"})
  /\ t \in active => t \notin todo
  /\ t \notin todo /\ ~ Ended(t) => t \in active \/ (main = "join" /\ awaited = t)
  /\ main = "over" => Ended(t)

\* What becomes of a thread's result.
Uploaded(t) ==
  /\ t \in finished => In(t, {"listed", "over"})
  /\ In(t, {"answered", "listed", "over"}) => t \in stored

Loading(t) ==
  /\ ~ In(t, {"listed"})
  /\ In(t, {"over"}) => t \in active \cup loaded \/ (main = "join" /\ awaited = t)
  /\ In(t, {"over"}) /\ main = "over" => t \in loaded

UploadRight ==
  /\ first = NoTask
  /\ sema + Held + Cardinality(Dead) = Slots
  /\ \A t \in Tasks : Uploaded(t)

\* Until the first thread has ended there is no other; once it has loaded its
\* CL the server has the cookie, and nobody is asked for a password.
FirstRight ==
  /\ first = NoTask => \A t \in Tasks : In(t, {"new"})
  /\ first # NoTask /\ ~ Ended(first) =>
       /\ main = "join" /\ awaited = first
       /\ \A t \in Tasks \ {first} : In(t, {"new"})
  /\ first # NoTask /\ In(first, {"answered", "over"}) /\ ~ expired =>
       cookie /\ \A t \in Tasks : ~ In(t, {"auth"})

LoadRight ==
  /\ main # "reap" /\ finished = {} /\ sema = Slots
  /\ \A t \in Tasks : Loading(t)
  /\ FirstRight

CInv ==
  /\ TypeOK
  /\ main = "join" => awaited \in Tasks \ todo
  /\ \A t \in Tasks : Counted(t) /\ Followed(t)
  /\ mode = "upload" => UploadRight
  /\ mode = "load" => LoadRight
-----------------------------------------------------------------------------
(* Counting threads *)

Counters == [at: Places, tries: 0 .. MaxTries + 1, prompts: 0 .. MaxPrompts, again: BOOLEAN]
Those(places) == {t \in Tasks : In(t, places)}

\* The threads that are somewhere are finitely many, and one that moves enters
\* or leaves them.
LEMMA CountMoves ==
  ASSUME TypeOK, NEW places
  PROVE  /\ IsFiniteSet(Those(places)) /\ Cardinality(Those(places)) \in Nat
         /\ \A t \in Tasks, r \in Counters :
              thread' = [thread EXCEPT ![t] = r] =>
                Cardinality(Those(places)') =
                  IF r.at \in places
                  THEN IF In(t, places) THEN Cardinality(Those(places))
                       ELSE Cardinality(Those(places)) + 1
                  ELSE IF In(t, places) THEN Cardinality(Those(places)) - 1
                       ELSE Cardinality(Those(places))
<1>1. IsFiniteSet(Those(places)) /\ Cardinality(Those(places)) \in Nat
  BY TaskAssumption, FS_Subset, FS_CardinalityType DEF Those
<1>2. ASSUME NEW t \in Tasks, NEW r \in Counters, thread' = [thread EXCEPT ![t] = r]
      PROVE  Those(places)' = IF r.at \in places THEN Those(places) \cup {t}
                              ELSE Those(places) \ {t}
  BY <1>2 DEF Those, In, TypeOK
<1>3. \A t \in Tasks : t \in Those(places) <=> In(t, places)
  BY DEF Those
<1> QED
  BY <1>1, <1>2, <1>3, FS_AddElement, FS_RemoveElement

-----------------------------------------------------------------------------
(* The steps of a thread *)

\* Thread t goes on with counters r: what every step of a thread has in common.
Advances(t, r) ==
  /\ thread' = [thread EXCEPT ![t] = r]
  /\ UNCHANGED <<mode, main, todo, awaited, first, active, loaded, expired>>
  /\ In(t, Running)
  /\ r.at \in Running \cup {"over", "dead"}
  /\ r.at = "auth" => r.prompts < MaxPrompts
  /\ r.at = "call" => mode = "load"
  /\ r.at # "dead" => r.tries <= MaxTries
  /\ stored \subseteq stored' /\ stored' \subseteq Tasks
  /\ authenticated' \in BOOLEAN /\ cookie' \in BOOLEAN /\ (cookie => cookie')
  /\ mode = "upload" =>
       /\ r.at \in {"answered", "listed", "over"} => t \in stored'
       /\ finished' = IF r.at = "listed" THEN finished \cup {t} ELSE finished
       /\ t \in finished => r.at = "over"
       /\ sema' = IF r.at = "over" THEN sema + 1 ELSE sema
  /\ mode = "load" =>
       /\ r.at # "listed" /\ sema' = sema /\ finished' = finished
       /\ r.at = "auth" => In(t, {"auth"}) \/ ~ cookie
       /\ r.at = "answered" => cookie
       /\ r.at = "over" => In(t, {"answered"})

\* Counters with some of their fields replaced.
LEMMA CountersSet ==
  ASSUME NEW x \in Counters, NEW place \in Places, NEW n \in 0 .. MaxTries + 1,
         NEW p \in 0 .. MaxPrompts, NEW r,
         \/ r = [x EXCEPT !.at = place, !.tries = n, !.prompts = p]
         \/ r = [x EXCEPT !.at = place, !.prompts = p] /\ n = x.tries
         \/ r = [x EXCEPT !.at = place, !.again = TRUE, !.tries = n] /\ p = x.prompts
  PROVE  r \in Counters /\ r.at = place /\ r.tries = n /\ r.prompts = p
BY DEF Counters

\* A request that is repeated counts its denials anew.
LEMMA RetryCounts ==
  ASSUME NEW t \in Tasks, thread \in [Tasks -> Counters], Retried(t)
  PROVE  \E r \in Counters :
           thread' = [thread EXCEPT ![t] = r] /\ r.at = "call" /\ r.tries = 0
<1>1. PICK r : r = [thread[t] EXCEPT !.at = "call", !.again = TRUE, !.tries = 0]
  OBVIOUS
<1>2. thread' = [thread EXCEPT ![t] = r]
  BY <1>1 DEF Retried
<1>3. thread[t] \in Counters /\ "call" \in Places /\ 0 \in 0 .. MaxTries + 1
  BY LimitAssumption DEF Places, Running
<1>4. r \in Counters /\ r.at = "call" /\ r.tries = 0
  BY <1>1, <1>3 DEF Counters
<1> QED
  BY <1>2, <1>4

\* Every step of a thread advances it.
LEMMA ThreadAdvances ==
  ASSUME CInv, NEW t \in Tasks, Thread(t)
  PROVE  \E r \in Counters : Advances(t, r)
<1>0. /\ thread \in [Tasks -> Counters] /\ thread[t] \in Counters /\ TypeOK
      /\ Counted(t) /\ (mode = "upload" => Uploaded(t)) /\ (mode = "load" => Loading(t))
  BY DEF CInv, TypeOK, Counters, UploadRight, LoadRight
<1> DEFINE at(place) == [thread[t] EXCEPT !.at = place]
<1>1. ASSUME NEW place \in Places
      PROVE  /\ at(place) \in Counters /\ at(place).at = place
             /\ at(place).tries = thread[t].tries /\ at(place).prompts = thread[t].prompts
             /\ Move(t, place) => thread' = [thread EXCEPT ![t] = at(place)]
  BY <1>0 DEF Counters, Move
<1> HIDE DEF at
<1>2. CASE Call(t)
  <2> DEFINE place == IF mode = "upload" /\ ~ authenticated THEN "auth" ELSE "open"
  <2>1. place \in Places
    BY DEF Places, Running
  <2>2. Advances(t, at(place))
    BY <1>0, <1>1, <1>2, <2>1, LimitAssumption
       DEF Call, Advances, In, Running, Counted, Uploaded, session, lists, TypeOK
  <2> QED
    BY <1>1, <2>1, <2>2
<1>3. CASE Answered(t)
  <2>1. "answered" \in Places
    BY DEF Places, Running
  <2>2. Advances(t, at("answered"))
    BY <1>0, <1>1, <1>3, <2>1 DEF Answered, Advances, In, Running, Counted, Uploaded, session, lists, TypeOK
  <2> QED
    BY <1>1, <2>1, <2>2
<1>4. CASE Denied(t)
  <2>1. PICK place, n, r :
          /\ place = (IF MoreTries(t) THEN "auth" ELSE "dead") /\ n = Tried(t)
          /\ r = [thread[t] EXCEPT !.at = place, !.tries = n, !.prompts = 0]
    OBVIOUS
  <2>2. thread' = [thread EXCEPT ![t] = r]
    BY <1>4, <2>1 DEF Denied
  <2>3. In(t, {"open"}) /\ ~ cookie /\ UNCHANGED <<mode, main, todo, lists, session, loaded, stored>>
    BY <1>4 DEF Denied
  <2>4. thread[t].tries \in 0 .. MaxTries
    BY <1>0, <2>3 DEF In, Counted, Counters
  <2>5. /\ place \in Places /\ place \in {"auth", "dead"} /\ n \in 0 .. MaxTries + 1
        /\ 0 \in 0 .. MaxPrompts
        /\ place # "dead" => n <= MaxTries
    BY <2>1, <2>4, LimitAssumption DEF Places, Running, Tried, MoreTries
  <2>6. r \in Counters /\ r.at = place /\ r.tries = n /\ r.prompts = 0
    BY <1>0, <2>1, <2>5 DEF Counters
  <2>7. Advances(t, r)
    BY <1>0, <2>2, <2>3, <2>5, <2>6, LimitAssumption
       DEF Advances, In, Running, Uploaded, session, lists, TypeOK
  <2> QED
    BY <2>6, <2>7
<1>5. CASE Failed(t)
  <2>1. /\ stored \subseteq stored' /\ stored' \subseteq Tasks
        /\ UNCHANGED <<mode, main, todo, lists, session, loaded>> /\ In(t, {"open"})
    BY <1>0, <1>5 DEF Failed, TypeOK
  <2>2. CASE Move(t, "dead")
    <3>1. "dead" \in Places
      BY DEF Places
    <3>2. Advances(t, at("dead"))
      BY <1>0, <1>1, <2>1, <2>2, <3>1 DEF Advances, In, Running, Uploaded, session, lists, TypeOK
    <3> QED
      BY <1>1, <3>1, <3>2
  <2>3. CASE Retried(t)
    <3>1. PICK r \in Counters : thread' = [thread EXCEPT ![t] = r] /\ r.at = "call" /\ r.tries = 0
      BY <1>0, <2>3, RetryCounts
    <3>2. mode = "load"
      BY <2>3 DEF Retried
    <3>3. Advances(t, r)
      BY <1>0, <2>1, <3>1, <3>2, LimitAssumption
         DEF Advances, In, Running, session, lists, TypeOK
    <3> QED
      BY <3>3
  <2> QED
    BY <1>5, <2>2, <2>3 DEF Failed
<1>6. CASE Authenticate(t)
  <2>1. /\ UNCHANGED <<mode, main, todo, lists, expired, loaded, stored>> /\ In(t, {"auth"})
        /\ thread[t].prompts < MaxPrompts /\ thread[t].tries <= MaxTries
        /\ authenticated' \in BOOLEAN /\ cookie' \in BOOLEAN /\ (cookie => cookie')
    <3>1. UNCHANGED <<mode, main, todo, lists, expired, loaded, stored>> /\ In(t, {"auth"})
      BY <1>6 DEF Authenticate
    <3>2. thread[t].prompts < MaxPrompts /\ thread[t].tries <= MaxTries
      BY <1>0, <3>1 DEF Counted, In
    <3>3. \/ authenticated' = TRUE /\ cookie' = TRUE
          \/ authenticated' = authenticated /\ cookie' = cookie
      BY <1>6 DEF Authenticate
    <3>4. authenticated \in BOOLEAN /\ cookie \in BOOLEAN
      BY <1>0 DEF TypeOK
    <3> QED
      BY <3>1, <3>2, <3>3, <3>4
  <2>2. ASSUME NEW place \in {"open", "dead"}, Move(t, place)
        PROVE  \E r \in Counters : Advances(t, r)
    <3>1. place \in Places
      BY <2>2 DEF Places, Running
    <3>2. Advances(t, at(place))
      BY <1>0, <1>1, <2>1, <2>2, <3>1 DEF Advances, In, Running, Uploaded, lists, TypeOK
    <3> QED
      BY <1>1, <3>1, <3>2
  <2>3. CASE Retried(t)
    <3>1. PICK r \in Counters : thread' = [thread EXCEPT ![t] = r] /\ r.at = "call" /\ r.tries = 0
      BY <1>0, <2>3, RetryCounts
    <3>2. mode = "load"
      BY <2>3 DEF Retried
    <3>3. Advances(t, r)
      BY <1>0, <2>1, <3>1, <3>2, LimitAssumption DEF Advances, In, Running, lists, TypeOK
    <3> QED
      BY <3>3
  <2>4. CASE ~ Move(t, "open") /\ ~ Move(t, "dead") /\ ~ Retried(t)
    <3>1. PICK place, p, r :
            /\ place = (IF thread[t].prompts + 1 < MaxPrompts THEN "auth" ELSE "open")
            /\ p = thread[t].prompts + 1
            /\ r = [thread[t] EXCEPT !.at = place, !.prompts = p]
      OBVIOUS
    <3>2. thread' = [thread EXCEPT ![t] = r]
      BY <1>6, <2>4, <3>1 DEF Authenticate
    <3>3. /\ place \in Places /\ place \in {"auth", "open"} /\ p \in 0 .. MaxPrompts
          /\ thread[t].tries \in 0 .. MaxTries + 1
          /\ place = "auth" => p < MaxPrompts
      BY <1>0, <2>1, <3>1, LimitAssumption DEF Counters, Places, Running
    <3>4. r \in Counters /\ r.at = place /\ r.tries = thread[t].tries /\ r.prompts = p
      BY <1>0, <3>1, <3>3 DEF Counters
    <3>5. Advances(t, r)
      BY <1>0, <2>1, <3>2, <3>3, <3>4 DEF Advances, In, Running, Uploaded, lists, TypeOK
    <3> QED
      BY <3>4, <3>5
  <2> QED
    BY <1>6, <2>2, <2>3, <2>4
<1>7. CASE Report(t)
  <2>1. "listed" \in Places
    BY DEF Places, Running
  <2>2. Advances(t, at("listed"))
    BY <1>0, <1>1, <1>7, <2>1 DEF Report, Advances, In, Running, Counted, Uploaded, session, TypeOK
  <2> QED
    BY <1>1, <2>1, <2>2
<1>8. CASE Release(t) \/ LoadEnds(t)
  <2>1. "over" \in Places
    BY DEF Places, Running
  <2>2. Advances(t, at("over"))
    BY <1>0, <1>1, <1>8, <2>1
       DEF Release, LoadEnds, Advances, In, Running, Counted, Uploaded, Loading, session, lists, TypeOK
  <2> QED
    BY <1>1, <2>1, <2>2
<1> QED
  BY <1>2, <1>3, <1>4, <1>5, <1>6, <1>7, <1>8 DEF Thread

\* The threads that run or are dead, after one of them has moved.
LEMMA CountsAfter ==
  ASSUME TypeOK, NEW t \in Tasks, NEW r \in Counters, thread' = [thread EXCEPT ![t] = r]
  PROVE  LET a == Cardinality(Alive)
             d == Cardinality(Dead)
         IN /\ a \in Nat /\ d \in Nat
            /\ In(t, Running) => a > 0
            /\ Cardinality(Alive') = (IF r.at \in Running THEN a + 1 ELSE a)
                                       - (IF In(t, Running) THEN 1 ELSE 0)
            /\ Cardinality(Dead') = (IF r.at = "dead" THEN d + 1 ELSE d)
                                      - (IF In(t, {"dead"}) THEN 1 ELSE 0)
<1>1. Alive = Those(Running) /\ Alive' = Those(Running)'
      /\ Dead = Those({"dead"}) /\ Dead' = Those({"dead"})'
  BY DEF Alive, Dead, Those
<1>2. In(t, Running) => Cardinality(Those(Running)) # 0
  <2>1. In(t, Running) => t \in Those(Running)
    BY DEF Those
  <2> QED
    BY <2>1, CountMoves, FS_EmptySet
<1>3. r.at \in {"dead"} <=> r.at = "dead"
  OBVIOUS
<1>4. /\ Cardinality(Those(Running)) \in Nat
      /\ Cardinality(Those(Running)') =
           IF r.at \in Running
           THEN IF In(t, Running) THEN Cardinality(Those(Running))
                ELSE Cardinality(Those(Running)) + 1
           ELSE IF In(t, Running) THEN Cardinality(Those(Running)) - 1
                ELSE Cardinality(Those(Running))
  BY CountMoves
<1>5. /\ Cardinality(Those({"dead"})) \in Nat
      /\ Cardinality(Those({"dead"})') =
           IF r.at \in {"dead"}
           THEN IF In(t, {"dead"}) THEN Cardinality(Those({"dead"}))
                ELSE Cardinality(Those({"dead"})) + 1
           ELSE IF In(t, {"dead"}) THEN Cardinality(Those({"dead"})) - 1
                ELSE Cardinality(Those({"dead"}))
  BY CountMoves
<1> QED
  BY <1>1, <1>2, <1>3, <1>4, <1>5

\* A thread that advances keeps the invariant.
LEMMA ThreadKeeps ==
  ASSUME CInv, NEW t \in Tasks, NEW r \in Counters, Advances(t, r)
  PROVE  CInv'
<1>0. /\ TypeOK /\ thread \in [Tasks -> Counters]
      /\ main = "join" => awaited \in Tasks \ todo
      /\ \A u \in Tasks : Counted(u) /\ Followed(u)
      /\ mode = "upload" => UploadRight
      /\ mode = "load" => LoadRight
  BY DEF CInv, TypeOK, Counters
<1>1. /\ thread' = [thread EXCEPT ![t] = r] /\ thread'[t] = r
      /\ \A u \in Tasks \ {t} : thread'[u] = thread[u]
      /\ thread' \in [Tasks -> Counters]
  BY <1>0 DEF Advances
<1>2. /\ mode' = mode /\ main' = main /\ todo' = todo /\ awaited' = awaited
      /\ first' = first /\ active' = active /\ loaded' = loaded /\ expired' = expired
      /\ In(t, Running) /\ ~ Ended(t) /\ ~ In(t, {"new"})
      /\ r.at \in Running \cup {"over", "dead"} /\ r.at # "new"
  BY DEF Advances, In, Ended, Running
<1>3. \A u \in Tasks : Counted(u)'
  <2> SUFFICES ASSUME NEW u \in Tasks PROVE Counted(u)'
    OBVIOUS
  <2>1. CASE u = t
    BY <1>1, <1>2, <2>1 DEF Counted, In, Advances
  <2>2. CASE u # t
    BY <1>0, <1>1, <1>2, <2>2 DEF Counted, In
  <2> QED
    BY <2>1, <2>2
<1>4. \A u \in Tasks : Followed(u)'
  <2> SUFFICES ASSUME NEW u \in Tasks PROVE Followed(u)'
    OBVIOUS
  <2>1. CASE u = t
    BY <1>0, <1>1, <1>2, <2>1 DEF Followed, In, Ended
  <2>2. CASE u # t
    BY <1>0, <1>1, <1>2, <2>2 DEF Followed, In, Ended
  <2> QED
    BY <2>1, <2>2
<1>5. ASSUME mode = "upload"
      PROVE  UploadRight' /\ sema' \in 0 .. Slots /\ finished' \subseteq Tasks
  <2>1. \A u \in Tasks : Uploaded(u)'
    <3> SUFFICES ASSUME NEW u \in Tasks PROVE Uploaded(u)'
      OBVIOUS
    <3>1. CASE u = t
      BY <1>1, <1>2, <1>5, <3>1 DEF Uploaded, In, Advances, Running
    <3>2. CASE u # t
      <4>1. (u \in finished' <=> u \in finished) /\ stored \subseteq stored'
        BY <1>5, <3>2 DEF Advances
      <4>2. Uploaded(u)
        BY <1>0, <1>5 DEF UploadRight
      <4> QED
        BY <1>1, <3>2, <4>1, <4>2 DEF Uploaded, In
    <3> QED
      BY <3>1, <3>2
  <2> DEFINE a == Cardinality(Alive)
             d == Cardinality(Dead)
  <2>2. /\ a \in Nat /\ d \in Nat /\ a > 0
        /\ Cardinality(Alive') = (IF r.at \in Running THEN a + 1 ELSE a) - 1
        /\ Cardinality(Dead') = IF r.at = "dead" THEN d + 1 ELSE d
    <3>1. ~ In(t, {"dead"})
      BY <1>2 DEF In, Running
    <3>2. /\ a \in Nat /\ d \in Nat
          /\ In(t, Running) => a > 0
          /\ Cardinality(Alive') = (IF r.at \in Running THEN a + 1 ELSE a)
                                     - (IF In(t, Running) THEN 1 ELSE 0)
          /\ Cardinality(Dead') = (IF r.at = "dead" THEN d + 1 ELSE d)
                                    - (IF In(t, {"dead"}) THEN 1 ELSE 0)
      BY <1>0, <1>1, CountsAfter
    <3> HIDE DEF a, d
    <3> QED
      BY <1>2, <3>1, <3>2
  <2>3. sema' = (IF r.at = "over" THEN sema + 1 ELSE sema) /\ sema \in 0 .. Slots
    BY <1>0, <1>5 DEF Advances, TypeOK
  <2>4. sema + Held + d = Slots
    BY <1>0, <1>5 DEF UploadRight
  <2>5. Held = a + (IF main \in {"reap", "join"} THEN 1 ELSE 0)
        /\ Held' = Cardinality(Alive') + (IF main \in {"reap", "join"} THEN 1 ELSE 0)
    BY <1>2 DEF Held
  <2> HIDE DEF a, d
  <2>6. sema' + Held' + Cardinality(Dead') = Slots /\ sema' \in 0 .. Slots
    <3>1. CASE r.at \in Running
      <4>1. r.at # "over" /\ r.at # "dead"
        BY <3>1 DEF Running
      <4> QED
        BY <2>2, <2>3, <2>4, <2>5, <3>1, <4>1, LimitAssumption
    <3>2. CASE r.at = "over"
      <4>1. r.at \notin Running
        BY <3>2 DEF Running
      <4> QED
        BY <2>2, <2>3, <2>4, <2>5, <3>2, <4>1, LimitAssumption
    <3>3. CASE r.at = "dead"
      <4>1. r.at \notin Running
        BY <3>3 DEF Running
      <4> QED
        BY <2>2, <2>3, <2>4, <2>5, <3>3, <4>1, LimitAssumption
    <3> QED
      BY <1>2, <3>1, <3>2, <3>3
  <2>7. first' = NoTask /\ finished' \subseteq Tasks
    BY <1>0, <1>2, <1>5 DEF UploadRight, Advances, TypeOK
  <2> QED
    BY <2>1, <2>6, <2>7 DEF UploadRight
<1>6. ASSUME mode = "load"
      PROVE  LoadRight' /\ sema' \in 0 .. Slots /\ finished' \subseteq Tasks
  <2>1. /\ r.at # "listed" /\ sema' = sema /\ finished' = finished
        /\ r.at = "auth" => In(t, {"auth"}) \/ ~ cookie
        /\ r.at = "answered" => cookie
        /\ r.at = "over" => In(t, {"answered"})
        /\ cookie => cookie'
    BY <1>6 DEF Advances
  <2>2. LoadRight
    BY <1>0, <1>6
  <2>3. \A u \in Tasks : Loading(u)'
    <3> SUFFICES ASSUME NEW u \in Tasks PROVE Loading(u)'
      OBVIOUS
    <3>1. CASE u = t
      <4>1. t \in active \/ (main = "join" /\ awaited = t)
        BY <1>0, <1>2 DEF Followed
      <4>2. main # "over"
        BY <1>0, <1>2 DEF Followed
      <4> QED
        BY <1>1, <1>2, <2>1, <3>1, <4>1, <4>2 DEF Loading, In
    <3>2. CASE u # t
      BY <1>1, <1>2, <2>2, <3>2 DEF Loading, In, LoadRight
    <3> QED
      BY <3>1, <3>2
  <2>4. FirstRight'
    <3>1. first # NoTask
      BY <1>2, <2>2 DEF LoadRight, FirstRight
    <3>2. first \in Tasks
      BY <1>0, <3>1 DEF TypeOK
    <3>3. CASE t = first
      <4>1. \A u \in Tasks \ {first} : In(u, {"new"})
        BY <1>2, <2>2, <3>1, <3>3 DEF LoadRight, FirstRight
      <4>2. main = "join" /\ awaited = first
        BY <1>2, <2>2, <3>1, <3>3 DEF LoadRight, FirstRight
      <4>3. r.at = "over" /\ ~ expired => cookie
        BY <2>1, <2>2, <3>1, <3>3 DEF LoadRight, FirstRight, In
      <4> QED
        BY <1>1, <1>2, <2>1, <3>1, <3>3, <4>1, <4>2, <4>3 DEF FirstRight, In, Ended
    <3>4. CASE t # first
      <4>1. Ended(first)
        BY <1>2, <2>2, <3>1, <3>4 DEF LoadRight, FirstRight
      <4>2. thread'[first] = thread[first]
        BY <1>1, <3>2, <3>4
      <4>3. ASSUME In(first, {"answered", "over"}), ~ expired
            PROVE  cookie' /\ \A u \in Tasks : ~ In(u, {"auth"})'
        <5>1. cookie /\ \A u \in Tasks : ~ In(u, {"auth"})
          BY <2>2, <3>1, <4>3 DEF LoadRight, FirstRight
        <5> QED
          BY <1>1, <2>1, <5>1 DEF In
      <4> QED
        BY <1>2, <3>1, <4>1, <4>2, <4>3 DEF FirstRight, In, Ended
    <3> QED
      BY <3>3, <3>4
  <2>5. main # "reap" /\ finished = {} /\ sema = Slots
    BY <2>2 DEF LoadRight
  <2> QED
    BY <1>2, <2>1, <2>3, <2>4, <2>5, LimitAssumption DEF LoadRight
<1>7. TypeOK'
  <2>1. mode \in {"load", "upload"}
    BY <1>0 DEF TypeOK
  <2>2. sema' \in 0 .. Slots /\ finished' \subseteq Tasks
    BY <1>5, <1>6, <2>1
  <2>3. stored' \subseteq Tasks /\ authenticated' \in BOOLEAN /\ cookie' \in BOOLEAN
    BY DEF Advances
  <2> QED
    BY <1>0, <1>1, <1>2, <2>2, <2>3 DEF TypeOK, Counters
<1> QED
  BY <1>0, <1>2, <1>3, <1>4, <1>5, <1>6, <1>7 DEF CInv

-----------------------------------------------------------------------------
(* The steps of the main thread *)

\* A step that moves no thread leaves the counters and the counts as they are.
LEMMA NoThreadMoves ==
  ASSUME thread' = thread, mode' = mode
  PROVE  /\ Alive' = Alive /\ Dead' = Dead
         /\ \A t : Counted(t) => Counted(t)'
         /\ \A t, places : In(t, places)' <=> In(t, places)
         /\ \A t : Ended(t)' <=> Ended(t)
BY DEF Alive, Dead, Counted, In, Ended

\* StartUploadFile takes a slot before it starts a thread, and holds it.
LEMMA AcquireKeeps ==
  ASSUME CInv, Acquire
  PROVE  CInv'
<1>0. /\ TypeOK /\ mode = "upload" /\ main = "next" /\ UploadRight
      /\ \A u \in Tasks : Counted(u) /\ Followed(u)
  BY DEF CInv, Acquire
<1>1. /\ mode' = mode /\ main' = "reap" /\ todo' = todo /\ awaited' = awaited
      /\ first' = first /\ active' = active /\ finished' = finished
      /\ thread' = thread /\ loaded' = loaded /\ stored' = stored
      /\ authenticated' = authenticated /\ cookie' = cookie /\ expired' = expired
      /\ sema > 0 /\ sema' = sema - 1
  BY DEF Acquire, Claim, Goto, session
<1>2. sema \in 0 .. Slots /\ sema' \in 0 .. Slots
  BY <1>0, <1>1, LimitAssumption DEF TypeOK
<1>3. \A u \in Tasks : Counted(u)' /\ Followed(u)'
  BY <1>0, <1>1, NoThreadMoves DEF Followed
<1>4. UploadRight'
  <2>1. \A u \in Tasks : Uploaded(u)'
    BY <1>0, <1>1 DEF UploadRight, Uploaded, In
  <2>2. Alive' = Alive /\ Dead' = Dead
    BY <1>1, NoThreadMoves
  <2>3. Cardinality(Alive) \in Nat /\ Cardinality(Dead) \in Nat
    BY <1>0, CountMoves DEF Alive, Dead, Those
  <2>4. Held = Cardinality(Alive) /\ Held' = Cardinality(Alive) + 1
    BY <1>0, <1>1, <2>2, <2>3 DEF Held
  <2>5. sema + Held + Cardinality(Dead) = Slots
    BY <1>0 DEF UploadRight
  <2>6. sema' + Held' + Cardinality(Dead') = Slots
    BY <1>1, <1>2, <2>2, <2>3, <2>4, <2>5, LimitAssumption
  <2> QED
    BY <1>0, <1>1, <2>1, <2>6 DEF UploadRight
<1>5. TypeOK'
  BY <1>0, <1>1, <1>2 DEF TypeOK
<1> QED
  BY <1>0, <1>1, <1>3, <1>4, <1>5 DEF CInv

\* Joining a thread that has reported keeps the slot and only the slot.
LEMMA ReapKeeps ==
  ASSUME CInv, NEW t \in Tasks, Reap(t)
  PROVE  CInv'
<1>0. /\ TypeOK /\ main = "reap" /\ t \in finished
      /\ \A u \in Tasks : Counted(u) /\ Followed(u)
      /\ mode = "upload" => UploadRight
      /\ mode = "load" => LoadRight
  BY DEF CInv, Reap
<1>1. mode = "upload"
  BY <1>0 DEF TypeOK, LoadRight
<1>2. /\ mode' = mode /\ main' = "join" /\ todo' = todo /\ awaited' = t
      /\ first' = first /\ active' = active \ {t} /\ finished' = finished \ {t}
      /\ thread' = thread /\ loaded' = loaded /\ stored' = stored /\ sema' = sema
      /\ authenticated' = authenticated /\ cookie' = cookie /\ expired' = expired
  BY DEF Reap, Goto, session
<1>3. \A u \in Tasks : Counted(u)' /\ Followed(u)'
  <2>1. \A u \in Tasks : Followed(u)'
    BY <1>0, <1>2, NoThreadMoves DEF Followed
  <2> QED
    BY <1>0, <1>2, <2>1, NoThreadMoves
<1>4. t \notin todo
  BY <1>0, <1>1 DEF UploadRight, Uploaded, Followed, In
<1>5. UploadRight'
  <2>1. \A u \in Tasks : Uploaded(u)'
    BY <1>0, <1>1, <1>2 DEF UploadRight, Uploaded, In
  <2>2. Alive' = Alive /\ Dead' = Dead
    BY <1>2, NoThreadMoves
  <2>3. Held' = Held
    BY <1>0, <1>2, <2>2 DEF Held
  <2> QED
    BY <1>0, <1>1, <1>2, <2>1, <2>2, <2>3 DEF UploadRight
<1>6. TypeOK'
  BY <1>0, <1>2 DEF TypeOK
<1> QED
  BY <1>1, <1>2, <1>3, <1>4, <1>5, <1>6 DEF CInv

\* A thread that was joined has ended: what it has loaded is loaded.
LEMMA JoinedKeeps ==
  ASSUME CInv, Joined
  PROVE  CInv'
<1>0. /\ TypeOK /\ main = "join" /\ Ended(awaited) /\ awaited \in Tasks
      /\ \A u \in Tasks : Counted(u) /\ Followed(u)
      /\ mode = "upload" => UploadRight
      /\ mode = "load" => LoadRight
  BY DEF CInv, Joined
<1>1. /\ mode' = mode /\ main' = (IF mode = "load" THEN "next" ELSE "reap")
      /\ todo' = todo /\ awaited' = NoTask
      /\ first' = first /\ active' = active /\ finished' = finished
      /\ thread' = thread /\ stored' = stored /\ sema' = sema
      /\ loaded' = (IF mode = "load" THEN loaded \cup Kept({awaited}) ELSE loaded)
      /\ authenticated' = authenticated /\ cookie' = cookie /\ expired' = expired
  BY DEF Joined, Goto, session
<1>2. main' \in {"next", "reap"} /\ main' # "join" /\ main' # "over"
  BY <1>1
<1>3. \A u \in Tasks : Counted(u)' /\ Followed(u)'
  <2>1. \A u \in Tasks : Followed(u)'
    BY <1>0, <1>1, <1>2, NoThreadMoves DEF Followed
  <2> QED
    BY <1>0, <1>1, <2>1, NoThreadMoves
<1>4. ASSUME mode = "upload" PROVE UploadRight'
  <2>1. \A u \in Tasks : Uploaded(u)'
    BY <1>0, <1>1, <1>4 DEF UploadRight, Uploaded, In
  <2>2. Alive' = Alive /\ Dead' = Dead
    BY <1>1, NoThreadMoves
  <2>3. Held' = Held
    BY <1>0, <1>1, <1>4, <2>2 DEF Held
  <2> QED
    BY <1>0, <1>1, <1>4, <2>1, <2>2, <2>3 DEF UploadRight
<1>5. ASSUME mode = "load" PROVE LoadRight'
  <2>1. \A u \in Tasks : Loading(u)'
    BY <1>0, <1>1, <1>5 DEF LoadRight, Loading, Kept, In
  <2>2. FirstRight'
    BY <1>0, <1>1, <1>5, NoThreadMoves DEF LoadRight, FirstRight
  <2> QED
    BY <1>0, <1>1, <1>5, <2>1, <2>2 DEF LoadRight
<1>6. TypeOK'
  <2>1. loaded' \subseteq Tasks
    BY <1>0, <1>1 DEF Kept, TypeOK
  <2> QED
    BY <1>0, <1>1, <1>2, <2>1 DEF TypeOK
<1> QED
  BY <1>1, <1>2, <1>3, <1>4, <1>5, <1>6 DEF CInv

\* The loop over active ends when every thread has ended.
LEMMA ReturnKeeps ==
  ASSUME CInv, Return
  PROVE  CInv'
<1>0. /\ TypeOK /\ main = "next" /\ todo = {} /\ AllEnded
      /\ \A u \in Tasks : Counted(u) /\ Followed(u)
      /\ mode = "upload" => UploadRight
      /\ mode = "load" => LoadRight
  BY DEF CInv, Return
<1>1. /\ mode' = mode /\ main' = "over" /\ todo' = todo /\ awaited' = awaited
      /\ first' = first /\ active' = active /\ finished' = finished
      /\ thread' = thread /\ stored' = stored /\ sema' = sema
      /\ loaded' = (IF mode = "load" THEN loaded \cup Kept(active) ELSE loaded)
      /\ authenticated' = authenticated /\ cookie' = cookie /\ expired' = expired
  BY DEF Return, Goto, session, lists
<1>2. \A u \in Tasks : Ended(u)
  BY <1>0 DEF Followed, AllEnded
<1>3. \A u \in Tasks : Counted(u)' /\ Followed(u)'
  <2>1. \A u \in Tasks : Followed(u)'
    BY <1>0, <1>1, <1>2, NoThreadMoves DEF Followed
  <2> QED
    BY <1>0, <1>1, <2>1, NoThreadMoves
<1>4. ASSUME mode = "upload" PROVE UploadRight'
  <2>1. \A u \in Tasks : Uploaded(u)'
    BY <1>0, <1>1, <1>4 DEF UploadRight, Uploaded, In
  <2>2. Alive' = Alive /\ Dead' = Dead
    BY <1>1, NoThreadMoves
  <2>3. Held' = Held
    BY <1>0, <1>1, <2>2 DEF Held
  <2> QED
    BY <1>0, <1>1, <1>4, <2>1, <2>2, <2>3 DEF UploadRight
<1>5. ASSUME mode = "load" PROVE LoadRight'
  <2>1. \A u \in Tasks : Loading(u)'
    BY <1>0, <1>1, <1>5 DEF LoadRight, Loading, Kept, In
  <2>2. FirstRight'
    BY <1>0, <1>1, <1>2, <1>5, NoThreadMoves DEF LoadRight, FirstRight, TypeOK
  <2> QED
    BY <1>0, <1>1, <1>5, <2>1, <2>2 DEF LoadRight
<1>6. TypeOK'
  <2>1. loaded' \subseteq Tasks
    BY <1>0, <1>1 DEF Kept, TypeOK
  <2> QED
    BY <1>0, <1>1, <2>1 DEF TypeOK
<1> QED
  BY <1>1, <1>3, <1>4, <1>5, <1>6 DEF CInv

\* Forgetting the session disturbs no thread.
LEMMA ExpireKeeps ==
  ASSUME CInv, Expire
  PROVE  CInv'
<1>0. /\ TypeOK /\ \A u \in Tasks : Counted(u) /\ Followed(u)
      /\ mode = "upload" => UploadRight
      /\ mode = "load" => LoadRight
  BY DEF CInv
<1>1. /\ mode' = mode /\ main' = main /\ todo' = todo /\ awaited' = awaited
      /\ first' = first /\ active' = active /\ finished' = finished
      /\ thread' = thread /\ stored' = stored /\ sema' = sema /\ loaded' = loaded
      /\ authenticated' = authenticated /\ cookie' = FALSE /\ expired' = TRUE
  BY DEF Expire, lists
<1>2. \A u \in Tasks : Counted(u)' /\ Followed(u)'
  BY <1>0, <1>1, NoThreadMoves DEF Followed
<1>3. ASSUME mode = "upload" PROVE UploadRight'
  <2>1. \A u \in Tasks : Uploaded(u)'
    BY <1>0, <1>1, <1>3 DEF UploadRight, Uploaded, In
  <2>2. Alive' = Alive /\ Dead' = Dead /\ Held' = Held
    BY <1>1, NoThreadMoves DEF Held
  <2> QED
    BY <1>0, <1>1, <1>3, <2>1, <2>2 DEF UploadRight
<1>4. ASSUME mode = "load" PROVE LoadRight'
  <2>1. \A u \in Tasks : Loading(u)'
    BY <1>0, <1>1, <1>4 DEF LoadRight, Loading, In
  <2>2. FirstRight'
    BY <1>0, <1>1, <1>4, NoThreadMoves DEF LoadRight, FirstRight
  <2> QED
    BY <1>0, <1>1, <1>4, <2>1, <2>2 DEF LoadRight
<1>5. TypeOK'
  BY <1>0, <1>1 DEF TypeOK
<1> QED
  BY <1>1, <1>2, <1>3, <1>4, <1>5 DEF CInv

\* A thread that is started has counted nothing, and was not there before.
LEMMA StartEffect ==
  ASSUME CInv, NEW t \in todo, Start(t)
  PROVE  /\ t \in Tasks /\ In(t, {"new"}) /\ ~ Ended(t) /\ ~ In(t, Running)
         /\ todo' = todo \ {t}
         /\ \E r \in Counters :
              /\ thread' = [thread EXCEPT ![t] = r] /\ thread'[t] = r
              /\ r.at = "call" /\ r.tries = 0 /\ r.prompts = 0
         /\ \A u \in Tasks \ {t} : thread'[u] = thread[u]
         /\ thread' \in [Tasks -> Counters]
<1>1. t \in Tasks /\ thread \in [Tasks -> Counters] /\ thread[t] \in Counters
  BY DEF CInv, TypeOK, Counters
<1>2. In(t, {"new"}) /\ thread[t].tries = 0 /\ thread[t].prompts = 0
  BY <1>1 DEF CInv, Followed, Counted
<1>3. PICK r : r = [thread[t] EXCEPT !.at = "call"]
  OBVIOUS
<1>4. thread' = [thread EXCEPT ![t] = r] /\ todo' = todo \ {t}
  BY <1>3 DEF Start, Move
<1>5. "call" \in Places
  BY DEF Places, Running
<1>6. r \in Counters /\ r.at = "call" /\ r.tries = 0 /\ r.prompts = 0
  BY <1>1, <1>2, <1>3, <1>5 DEF Counters
<1>7. ~ Ended(t) /\ ~ In(t, Running)
  BY <1>2 DEF In, Ended, Running
<1> QED
  BY <1>1, <1>2, <1>4, <1>6, <1>7

\* The slot that was taken goes to the thread that is started.
LEMMA StartUploadKeeps ==
  ASSUME CInv, NEW t \in Tasks, StartUpload(t)
  PROVE  CInv'
<1>0. /\ TypeOK /\ main = "reap" /\ t \in todo
      /\ \A u \in Tasks : Counted(u) /\ Followed(u)
      /\ mode = "upload" => UploadRight
      /\ mode = "load" => LoadRight
  BY DEF CInv, StartUpload
<1>1. mode = "upload"
  BY <1>0 DEF TypeOK, LoadRight
<1>2. /\ mode' = mode /\ main' = "next" /\ awaited' = awaited
      /\ first' = first /\ active' = active \cup {t} /\ finished' = finished
      /\ loaded' = loaded /\ stored' = stored /\ sema' = sema
      /\ authenticated' = authenticated /\ cookie' = cookie /\ expired' = expired
  BY DEF StartUpload, Goto, session
<1>3. /\ In(t, {"new"}) /\ ~ Ended(t) /\ ~ In(t, Running)
      /\ todo' = todo \ {t}
      /\ \A u \in Tasks \ {t} : thread'[u] = thread[u]
      /\ thread' \in [Tasks -> Counters]
  BY <1>0, StartEffect DEF StartUpload
<1>4. PICK r \in Counters :
        /\ thread' = [thread EXCEPT ![t] = r] /\ thread'[t] = r
        /\ r.at = "call" /\ r.tries = 0 /\ r.prompts = 0
  BY <1>0, StartEffect DEF StartUpload
<1>5. \A u \in Tasks : Counted(u)' /\ Followed(u)'
  <2> SUFFICES ASSUME NEW u \in Tasks PROVE Counted(u)' /\ Followed(u)'
    OBVIOUS
  <2>1. CASE u = t
    BY <1>2, <1>4, <1>3, <2>1, LimitAssumption DEF Counted, Followed, In, Ended
  <2>2. CASE u # t
    BY <1>0, <1>2, <1>3, <2>2 DEF Counted, Followed, In, Ended
  <2> QED
    BY <2>1, <2>2
<1>6. UploadRight'
  <2>1. \A u \in Tasks : Uploaded(u)'
    <3> SUFFICES ASSUME NEW u \in Tasks PROVE Uploaded(u)'
      OBVIOUS
    <3>1. Uploaded(u)
      BY <1>0, <1>1 DEF UploadRight
    <3>2. CASE u = t
      BY <1>2, <1>3, <1>4, <3>1, <3>2 DEF Uploaded, In
    <3>3. CASE u # t
      BY <1>2, <1>3, <3>1, <3>3 DEF Uploaded, In
    <3> QED
      BY <3>2, <3>3
  <2> DEFINE a == Cardinality(Alive)
             d == Cardinality(Dead)
  <2>2. /\ a \in Nat /\ d \in Nat
        /\ Cardinality(Alive') = a + 1 /\ Cardinality(Dead') = d
    <3>1. r.at \in Running /\ r.at # "dead" /\ ~ In(t, {"dead"})
      BY <1>3, <1>4 DEF Running, In
    <3>2. /\ a \in Nat /\ d \in Nat
          /\ In(t, Running) => a > 0
          /\ Cardinality(Alive') = (IF r.at \in Running THEN a + 1 ELSE a)
                                     - (IF In(t, Running) THEN 1 ELSE 0)
          /\ Cardinality(Dead') = (IF r.at = "dead" THEN d + 1 ELSE d)
                                    - (IF In(t, {"dead"}) THEN 1 ELSE 0)
      BY <1>0, <1>4, CountsAfter
    <3> HIDE DEF a, d
    <3> QED
      BY <1>3, <3>1, <3>2
  <2>3. Held = a + 1 /\ Held' = Cardinality(Alive')
    BY <1>0, <1>2, <2>2 DEF Held
  <2>4. sema + Held + d = Slots /\ sema \in Nat
    BY <1>0, <1>1, LimitAssumption DEF UploadRight, TypeOK
  <2> HIDE DEF a, d
  <2>5. sema' + Held' + Cardinality(Dead') = Slots
    BY <1>2, <2>2, <2>3, <2>4
  <2>6. first' = NoTask
    BY <1>0, <1>1, <1>2 DEF UploadRight
  <2> QED
    BY <2>1, <2>5, <2>6 DEF UploadRight
<1>7. TypeOK'
  BY <1>0, <1>2, <1>3 DEF TypeOK, Counters
<1> QED
  BY <1>1, <1>2, <1>5, <1>6, <1>7 DEF CInv

\* The first thread is joined before another is started.
LEMMA StartLoadKeeps ==
  ASSUME CInv, NEW t \in Tasks, StartLoad(t)
  PROVE  CInv'
<1>0. /\ TypeOK /\ mode = "load" /\ main = "next" /\ t \in todo
      /\ \A u \in Tasks : Counted(u) /\ Followed(u)
      /\ LoadRight
  BY DEF CInv, StartLoad
<1>1. /\ mode' = mode /\ finished' = finished
      /\ loaded' = loaded /\ stored' = stored /\ sema' = sema
      /\ authenticated' = authenticated /\ cookie' = cookie /\ expired' = expired
  BY DEF StartLoad, session
<1>2. IF first = NoTask
      THEN first' = t /\ awaited' = t /\ main' = "join" /\ active' = active
      ELSE active' = active \cup {t} /\ main' = main /\ first' = first /\ awaited' = awaited
  BY DEF StartLoad, Waits, Goto
<1>3. /\ In(t, {"new"}) /\ ~ Ended(t) /\ ~ In(t, Running)
      /\ todo' = todo \ {t}
      /\ \A u \in Tasks \ {t} : thread'[u] = thread[u]
      /\ thread' \in [Tasks -> Counters]
  BY <1>0, StartEffect DEF StartLoad
<1>4. PICK r \in Counters :
        /\ thread' = [thread EXCEPT ![t] = r] /\ thread'[t] = r
        /\ r.at = "call" /\ r.tries = 0 /\ r.prompts = 0
  BY <1>0, StartEffect DEF StartLoad
<1>5. \A u \in Tasks : Counted(u)' /\ Followed(u)'
  <2> SUFFICES ASSUME NEW u \in Tasks PROVE Counted(u)' /\ Followed(u)'
    OBVIOUS
  <2>1. CASE u = t
    BY <1>0, <1>1, <1>2, <1>3, <1>4, <2>1, LimitAssumption DEF Counted, Followed, In, Ended
  <2>2. CASE u # t
    BY <1>0, <1>1, <1>2, <1>3, <2>2 DEF Counted, Followed, In, Ended
  <2> QED
    BY <2>1, <2>2
<1>6. \A u \in Tasks : Loading(u)'
  <2> SUFFICES ASSUME NEW u \in Tasks PROVE Loading(u)'
    OBVIOUS
  <2>1. CASE u = t
    BY <1>4, <2>1 DEF Loading, In
  <2>2. CASE u # t
    <3>1. Loading(u) /\ thread'[u] = thread[u]
      BY <1>0, <1>3, <2>2 DEF LoadRight
    <3> QED
      BY <1>0, <1>1, <1>2, <3>1 DEF Loading, In
  <2> QED
    BY <2>1, <2>2
<1>7. FirstRight'
  <2>1. CASE first = NoTask
    <3>1. \A u \in Tasks : In(u, {"new"})
      BY <1>0, <2>1 DEF LoadRight, FirstRight
    <3>2. t # NoTask /\ first' = t /\ awaited' = t /\ main' = "join"
      BY <1>2, <2>1, TaskAssumption
    <3>3. \A u \in Tasks \ {t} : In(u, {"new"})'
      BY <1>3, <3>1 DEF In
    <3> QED
      BY <1>4, <3>2, <3>3 DEF FirstRight, In, Ended
  <2>2. CASE first # NoTask
    <3>1. Ended(first) /\ first \in Tasks
      BY <1>0, <2>2 DEF LoadRight, FirstRight, TypeOK
    <3>2. first # t /\ first' = first /\ thread'[first] = thread[first]
      BY <1>2, <1>3, <2>2, <3>1
    <3>3. ASSUME In(first, {"answered", "over"}), ~ expired
          PROVE  cookie' /\ \A u \in Tasks : ~ In(u, {"auth"})'
      <4>1. cookie /\ \A u \in Tasks : ~ In(u, {"auth"})
        BY <1>0, <2>2, <3>3 DEF LoadRight, FirstRight
      <4> QED
        BY <1>1, <1>3, <1>4, <4>1 DEF In
    <3> QED
      BY <1>1, <2>2, <3>1, <3>2, <3>3 DEF FirstRight, In, Ended
  <2> QED
    BY <2>1, <2>2
<1>8. LoadRight'
  BY <1>0, <1>1, <1>2, <1>6, <1>7 DEF LoadRight
<1>9. TypeOK'
  BY <1>0, <1>1, <1>2, <1>3 DEF TypeOK, Counters
<1>10. main' = "join" => awaited' \in Tasks \ todo'
  BY <1>0, <1>2, <1>3
<1> QED
  BY <1>0, <1>1, <1>5, <1>8, <1>9, <1>10 DEF CInv

-----------------------------------------------------------------------------
(* Theorems of the specification *)

\* The invariant holds when the main thread enters LoadAllCL or UploadBaseFiles.
LEMMA InitCInv == Init => CInv
<1> SUFFICES ASSUME Init PROVE CInv
  OBVIOUS
<1>1. TypeOK
  <2>1. "new" \in Places /\ 0 \in 0 .. MaxTries + 1 /\ 0 \in 0 .. MaxPrompts /\ Slots \in 0 .. Slots
    BY LimitAssumption DEF Places
  <2>2. thread \in [Tasks -> Counters]
    BY <2>1 DEF Init, Counters
  <2> QED
    BY <2>1, <2>2 DEF Init, TypeOK, Counters
<1>2. \A t \in Tasks : thread[t].at = "new" /\ thread[t].tries = 0 /\ thread[t].prompts = 0
  BY DEF Init
<1>3. \A t \in Tasks : Counted(t) /\ Followed(t)
  BY <1>2, LimitAssumption DEF Init, Counted, Followed, In, Ended
<1>4. UploadRight
  <2>1. Alive = {} /\ Dead = {}
    BY <1>2 DEF Alive, Dead, In, Running
  <2>2. Cardinality(Alive) = 0 /\ Cardinality(Dead) = 0
    BY <2>1, FS_EmptySet
  <2>3. sema + Held + Cardinality(Dead) = Slots
    BY <2>2, LimitAssumption DEF Init, Held
  <2> QED
    BY <1>2, <2>3 DEF Init, UploadRight, Uploaded, In
<1>5. LoadRight
  BY <1>2 DEF Init, LoadRight, Loading, FirstRight, In
<1> QED
  BY <1>1, <1>3, <1>4, <1>5 DEF CInv, Init

\* The invariant survives every step of every thread.
LEMMA NextCInv == CInv /\ [Next]_vars => CInv'
<1> SUFFICES ASSUME CInv, [Next]_vars PROVE CInv'
  OBVIOUS
<1>1. CASE UNCHANGED vars
  <2>1. /\ mode' = mode /\ main' = main /\ todo' = todo /\ awaited' = awaited
        /\ first' = first /\ active' = active /\ finished' = finished
        /\ thread' = thread /\ stored' = stored /\ sema' = sema /\ loaded' = loaded
        /\ authenticated' = authenticated /\ cookie' = cookie /\ expired' = expired
    BY <1>1 DEF vars, lists, session
  <2>2. TypeOK' /\ (main' = "join" => awaited' \in Tasks \ todo')
    BY <2>1 DEF CInv, TypeOK
  <2>3. \A u \in Tasks : Counted(u)' /\ Followed(u)'
    BY <2>1, NoThreadMoves DEF CInv, Followed
  <2>4. mode = "upload" => UploadRight'
    <3>1. Alive' = Alive /\ Dead' = Dead /\ Held' = Held
      BY <2>1, NoThreadMoves DEF Held
    <3> QED
      BY <2>1, <3>1 DEF CInv, UploadRight, Uploaded, In
  <2>5. mode = "load" => LoadRight'
    BY <2>1, NoThreadMoves DEF CInv, LoadRight, Loading, FirstRight, In
  <2> QED
    BY <2>1, <2>2, <2>3, <2>4, <2>5 DEF CInv
<1>2. ASSUME NEW t \in Tasks, Thread(t)
      PROVE  CInv'
  BY <1>2, ThreadAdvances, ThreadKeeps
<1>3. CASE Main
  BY <1>3, AcquireKeeps, JoinedKeeps, ReturnKeeps, StartLoadKeeps, ReapKeeps,
     StartUploadKeeps DEF Main
<1> QED
  BY <1>1, <1>2, <1>3, ExpireKeeps DEF Next

\* The invariant that ties the lists and the semaphore to the threads is
\* inductive, for any number of tasks, slots, tries and prompts.
THEOREM CallsInvariance == Spec => []CInv
BY InitCInv, NextCInv, PTL DEF Spec

\* The lists, the semaphore and the threads' counters stay in their types: a
\* request is denied MaxTries + 1 times at most, and the semaphore never
\* exceeds the number of slots.
THEOREM CallsTypeCorrect == Spec => []TypeOK
<1>1. CInv => TypeOK
  BY DEF CInv
<1> QED
  BY <1>1, CallsInvariance, PTL

\* Every slot is free, in use, or lost to a thread that died.
THEOREM SlotsAddUp == Spec => []SlotsAccounted
<1>1. CInv => SlotsAccounted
  BY DEF CInv, UploadRight, SlotsAccounted
<1> QED
  BY <1>1, CallsInvariance, PTL

\* The main thread returns only when every task's thread has ended, and knows
\* of every result.
THEOREM ReturnsWithAll == Spec => []NothingLeftRunning
<1>1. CInv => NothingLeftRunning
  <2> SUFFICES ASSUME CInv, main = "over"
               PROVE  /\ \A t \in Tasks : Ended(t)
                      /\ Tasks = Dead \cup (IF mode = "load" THEN loaded ELSE stored)
    BY DEF NothingLeftRunning
  <2>1. \A t \in Tasks : Ended(t)
    BY DEF CInv, Followed
  <2>2. mode \in {"load", "upload"} /\ loaded \subseteq Tasks /\ stored \subseteq Tasks
    BY DEF CInv, TypeOK
  <2>3. \A t \in Tasks : In(t, {"over"}) => t \in (IF mode = "load" THEN loaded ELSE stored)
    BY <2>2 DEF CInv, UploadRight, LoadRight, Uploaded, Loading, In
  <2>4. \A t \in Tasks : t \in Dead \/ In(t, {"over"})
    BY <2>1 DEF Dead, Ended, In
  <2>5. Dead \subseteq Tasks
    BY DEF Dead
  <2> QED
    BY <2>1, <2>2, <2>3, <2>4, <2>5
<1> QED
  BY <1>1, CallsInvariance, PTL

\* Two threads never ask for a password at once, as long as the first CL could
\* be loaded and the server has not forgotten the session since.
THEOREM PromptsOneAtATime == Spec => []OnePrompt
<1>1. CInv => OnePrompt
  <2> SUFFICES ASSUME CInv, mode = "load", ~ expired,
                      first = NoTask \/ ~ In(first, {"dead"})
               PROVE  Cardinality(Prompting) <= 1
    BY DEF OnePrompt
  <2>1. FirstRight /\ (first = NoTask \/ first \in Tasks)
    BY DEF CInv, LoadRight, TypeOK
  <2>2. CASE first # NoTask /\ ~ Ended(first)
    <3>1. Prompting \subseteq {first}
      BY <2>1, <2>2 DEF FirstRight, Prompting, In
    <3>2. IsFiniteSet({first}) /\ Cardinality({first}) = 1
      BY FS_Singleton
    <3> QED
      BY <3>1, <3>2, FS_Subset
  <2>3. CASE first = NoTask \/ Ended(first)
    <3>1. Prompting = {}
      BY <2>1, <2>3 DEF FirstRight, Prompting, In, Ended
    <3> QED
      BY <3>1, FS_EmptySet
  <2> QED
    BY <2>2, <2>3
<1> QED
  BY <1>1, CallsInvariance, PTL
=============================================================================
