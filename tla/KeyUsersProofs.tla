--------------------------- MODULE KeyUsersProofs ---------------------------
(***************************************************************************)
(* Theorems about KeyUsers, for any keys, challenges and waits: the client *)
(* of a member and the dialog, one after the other on one computer, with   *)
(* the key going on between them with what the last one left it doing.     *)
(*                                                                         *)
(* Each of the two is a caller of the library, so YkLib's invariant holds  *)
(* throughout; to it comes what each program knows at each of its steps    *)
(* about the call and the command it has under way.                        *)
(***************************************************************************)
EXTENDS KeyUsers, YkLibProofs

Before == {"open", "begin", "wait", "waiting", "touch", "abort"}

\* Where the programs may be.
ProgramsType ==
  /\ prog \in [at : {"over", "fetch", "spawn", "exit", "post"} \cup Before, id : Ids \cup {Test},
              alone : BOOLEAN]
  /\ offered \subseteq Ids /\ unasked \subseteq Ids
  /\ pending \in BOOLEAN
  /\ handler \in {"none", "hmac", "abort", "timer"}
  /\ user \in {"client", "dialog"}

\* They run one after the other.
OneRuns ==
  /\ user = "client" => ~ pending /\ box = "none" /\ handler = "none"
  /\ user = "dialog" => At_("over")

Waiting == (At("poll") /\ call.resp) \/ At("slices")
Aborted == At("abort") \/ At("recheck")

\* The call each program is in at each of its steps.
CallFits ==
  /\ IF At_("waiting") \/ handler = "timer" THEN Waiting
     ELSE IF At_("abort") \/ handler = "abort" THEN Aborted
     ELSE call = NoCall

\* What the client waits for is what it has asked for.
ClientWaits == prog.at \in {"wait", "waiting", "touch"} => begun = Hmac(Asked)

\* What the client has found, when it looks at it, is what it asked for.
Found ==
  /\ prog.at \in Before => got = None
  /\ At_("exit") => got \in {None, Asked}
  /\ At_("post") => prog.id \in Ids /\ got = Asked

\* What the timer of the dialog polls is what the button began.
DialogWaits ==
  /\ pending /\ handler \in {"none", "timer"} => Opened /\ begun = Dialog!Hmac
  /\ handler = "timer" => pending
  /\ handler = "hmac" => ~ pending

UsersInv ==
  /\ IInv /\ ProgramsType /\ OneRuns /\ CallFits
  /\ ClientWaits /\ Found /\ DialogWaits /\ PostedIsAnswer

-----------------------------------------------------------------------------
(* What the calls of the library do for a caller                           *)

Polls == PollFails \/ PollIdle \/ PollTouch \/ PollBusy \/ PollResponse \/ SlicesEnd \/ SlicesMore

Polled == {"PROCESSING", "TIMER_WAIT"}

\* A program that begins or ends: its handle is closed, what it has begun and
\* the call it was in are forgotten.
LEMMA RestartKeeps ==
  ASSUME IInv, handle' = "none", begun' = NoCommand, call' \in {call, NoCall},
         ports' \in {ports, {}}, lastCmd' \in {lastCmd, "none"}, seq' \in 0 .. SeqMod - 1,
         UNCHANGED <<attached, dev, ret, clock>>
  PROVE  IInv'
<1>1. TypeOK'
  BY DEF IInv, TypeOK, CallType, clock
<1> QED
  BY <1>1 DEF IInv, DeviceRight, CommandRight

\* The invariant speaks of the members of the library only.
LEMMA LibraryStays ==
  ASSUME IInv, UNCHANGED vars
  PROVE  IInv'
BY DEF vars, library, clock, IInv, TypeOK, DeviceRight, CommandRight, At

\* The world changes neither the call nor what was begun, nor closes a handle.
LEMMA WorldFacts ==
  ASSUME IInv, World
  PROVE  /\ IInv'
         /\ call' = call /\ begun' = begun
         /\ Opened => Opened'
BY WorldKeeps DEF World, DeviceStep, PlugIn, Unplug, library, Opened

\* A key is opened, or the ports are listed, at once.
LEMMA OpeningFacts ==
  ASSUME IInv, OpenKey \/ EnumPorts
  PROVE  IInv' /\ call' = NoCall
BY OpeningKeeps DEF OpenKey, EnumPorts, Return, Answered

\* A command that is said to have begun is the one the caller has under way,
\* on an open key.
LEMMA BeginFacts ==
  ASSUME IInv, NEW cmd \in Command, Begin(cmd) \/ BeginRefused(cmd)
  PROVE  /\ IInv'
         /\ call' = NoCall
         /\ handle' = handle
         /\ ret'.rc = "OK" => begun' = cmd /\ Opened
<1>1. IInv'
  BY BeginKeeps
<1>2. CASE Begin(cmd)
  <2>1. Opened
    BY <1>2, StatusRight DEF Begin, MayWrite, Opened, Alive, IInv, TypeOK, StatusCode
  <2> QED
    BY <1>1, <1>2, <2>1 DEF Begin, Return, Answered
<1>3. CASE BeginRefused(cmd)
  BY <1>1, <1>3 DEF BeginRefused, MayWrite, Return, Answered
<1> QED
  BY <1>2, <1>3

\* A wait that begins.
LEMMA WaitFacts ==
  ASSUME IInv, NEW maxWait \in MaxWaits, Wait(maxWait, TRUE)
  PROVE  IInv' /\ Waiting' /\ begun' = begun /\ handle' = handle
<1>1. IInv'
  BY WaitKeeps
<1> QED
  BY <1>1 DEF Wait, Polling, Waiting, At, library

\* A step of a wait goes on waiting; or it returns, and what was begun is under
\* way still; or the wait has come to its end, and an OK comes with the answer
\* to what was begun.
LEMMA PollFacts ==
  ASSUME IInv, Waiting, Polls
  PROVE  /\ IInv'
         /\ handle' = handle
         /\ \/ Waiting' /\ call' # NoCall /\ begun' = begun
            \/ call' = NoCall /\ ret'.rc \in Polled /\ begun' = begun
            \/ /\ call' = NoCall /\ ret'.rc \notin Polled
               /\ ret'.rc = "OK" /\ begun # NoCommand => ret'.answer = begun
<1>1. IInv'
  BY PollKeeps, SlicesKeep DEF Polls
<1>2. CASE PollFails
  BY <1>1, <1>2 DEF PollFails, WaitEnds, Return, Answered, Polled, library
<1>3. CASE PollIdle
  <2>1. call.resp
    BY <1>3 DEF PollIdle, Waiting, At
  <2> QED
    BY <1>1, <1>3, <2>1 DEF PollIdle, WaitEnds, Return, Answered, Polled, library
<1>4. CASE PollTouch
  BY <1>1, <1>4 DEF PollTouch, Return, Answered, Polled, library
<1>5. CASE PollBusy
  <2>1. CASE TimedOut(call.tend)
    BY <1>1, <1>5, <2>1 DEF PollBusy, Return, Answered, Polled, library
  <2>2. CASE ~ TimedOut(call.tend)
    BY <1>1, <1>5, <2>2 DEF PollBusy, Waiting, At, NoCall, library
  <2> QED
    BY <2>1, <2>2
<1>6. CASE PollResponse
  <2>1. call'.at = "slices" /\ UNCHANGED <<library, begun>>
    BY <1>6 DEF PollResponse, Reading
  <2> QED
    BY <1>1, <2>1 DEF Waiting, At, NoCall, library
<1>7. CASE SlicesEnd
  <2>1. CASE dev[handle].state = "idle" /\ call.resp /\ call.got = 1 .. Slices
    <3>1. Answered("OK", call.of) /\ handle' = handle
      BY <1>7, <2>1 DEF SlicesEnd, library
    <3>2. begun # NoCommand => call.of = begun
      BY <1>7 DEF SlicesEnd, IInv, CommandRight
    <3> QED
      BY <1>1, <3>1, <3>2 DEF Answered, Polled
  <2>2. CASE ~ (dev[handle].state = "idle" /\ call.resp /\ call.got = 1 .. Slices)
    BY <1>1, <1>7, <2>2 DEF SlicesEnd, WaitEnds, Return, Answered, Polled, library
  <2> QED
    BY <2>1, <2>2
<1>8. CASE SlicesMore
  <2>1. CASE GivesUp(NextBail(call.bail))
    BY <1>1, <1>8, <2>1 DEF SlicesMore, WaitEnds, Return, Answered, Polled, library
  <2>2. CASE ~ GivesUp(NextBail(call.bail))
    <3>1. call' = [call EXCEPT !.got = @ \cup {Head(dev[handle].left)}, !.bail = NextBail(@)]
      BY <1>8, <2>2 DEF SlicesMore
    <3>2. call.at = "slices" /\ call \in CallType
      BY <1>8 DEF SlicesMore, At, IInv, TypeOK
    <3>3. call'.at = "slices"
      BY <3>1, <3>2, ReadingType DEF At
    <3>4. UNCHANGED <<library, begun>>
      BY <1>8, <2>2 DEF SlicesMore
    <3> QED
      BY <1>1, <3>3, <3>4 DEF Waiting, At, NoCall, library
  <2> QED
    BY <2>1, <2>2
<1> QED
  BY <1>2, <1>3, <1>4, <1>5, <1>6, <1>7, <1>8 DEF Polls

\* An abort begins, goes on or is over.
LEMMA AbortFacts ==
  ASSUME IInv, AbortBegin \/ AbortSend \/ AbortCheck
  PROVE  IInv' /\ (call' = NoCall \/ (Aborted' /\ call' # NoCall))
<1>1. IInv'
  BY AbortKeeps
<1> QED
  BY <1>1 DEF AbortBegin, AbortSend, AbortCheck, Aborting, Checking, Aborted, NoCall, Return, Answered, At

-----------------------------------------------------------------------------
(* The client                                                              *)

\* Asked is the answer to a challenge of the library; what is begun for it is a
\* command and tells one challenge from another.
LEMMA AskedFacts ==
  ASSUME ProgramsType
  PROVE  /\ Hmac(Asked) \in Command
         /\ Hmac(Asked) # NoCommand
         /\ Hmac(Asked).chal = Asked
<1>1. Asked \in Challenges
  BY ChallengeAssumption DEF Asked, ProgramsType
<1> QED
  BY <1>1 DEF Hmac, Command, NoCommand

\* Asked depends on the challenge in hand only, and Goto keeps that.
LEMMA GotoFacts ==
  ASSUME ProgramsType, NEW step, Goto(step)
  PROVE  /\ prog' = [at |-> step, id |-> prog.id, alone |-> prog.alone]
         /\ prog'.at = step /\ prog'.id = prog.id
         /\ Asked' = Asked
BY DEF ProgramsType, Goto, Asked

\* While the client runs the dialog holds nothing.
LEMMA DialogRests ==
  ASSUME OneRuns, user = "client", UNCHANGED <<dialog, user>>
  PROVE  /\ user' = "client" /\ ~ pending /\ ~ pending' /\ handler = "none" /\ handler' = "none"
         /\ DialogWaits' /\ OneRuns'
         /\ pending' = pending
BY DEF OneRuns, dialog, DialogWaits

\* Where the client is when it stays among its own steps.
LEMMA ProgStays ==
  ASSUME ProgramsType, NEW step \in {"over", "fetch", "spawn", "exit", "post"} \cup Before, Goto(step),
         UNCHANGED <<server, dialog, user>>
  PROVE  ProgramsType'
BY GotoFacts DEF ProgramsType, server, dialog

\* Main begins, looks for a challenge, and posts an answer.
LEMMA MainKeeps ==
  ASSUME UsersInv, user = "client", Run \/ Fetch \/ Post, UNCHANGED <<dialog, user>>
  PROVE  UsersInv'
<1>1. /\ user' = "client" /\ handler = "none" /\ handler' = "none" /\ DialogWaits' /\ OneRuns'
  BY DialogRests DEF UsersInv
<1>2. IInv'
  BY LibraryStays DEF UsersInv, Run, Fetch, Post
<1>3. call' = call /\ call = NoCall
  BY <1>1 DEF UsersInv, Run, Fetch, Post, CallFits, At_, vars
<1>4. CASE Run
  <2>1. ProgramsType' /\ prog'.at \in {"spawn", "fetch"}
    BY <1>1, <1>4 DEF Run, UsersInv, ProgramsType, server, dialog
  <2> QED
    BY <1>1, <1>2, <1>3, <1>4, <2>1
       DEF UsersInv, Run, CallFits, ClientWaits, Found, PostedIsAnswer, At_, Before
<1>5. CASE Fetch
  <2>1. ProgramsType' /\ prog'.at \in {"spawn", "over"}
    <3>1. CASE Goto("over")
      BY <1>1, <1>5, <3>1, ProgStays, GotoFacts DEF Fetch, UsersInv
    <3>2. CASE \E id \in offered : prog' = [at |-> "spawn", id |-> id, alone |-> FALSE]
      <4>1. PICK id \in Ids : prog' = [at |-> "spawn", id |-> id, alone |-> FALSE]
        BY <3>2 DEF UsersInv, ProgramsType
      <4> QED
        BY <1>1, <1>5, <4>1 DEF Fetch, UsersInv, ProgramsType, server, dialog
    <3> QED
      BY <1>5, <3>1, <3>2 DEF Fetch
  <2> QED
    BY <1>1, <1>2, <1>3, <1>5, <2>1
       DEF UsersInv, Fetch, CallFits, ClientWaits, Found, PostedIsAnswer, At_, Before
<1>6. CASE Post
  <2>1. prog'.at = "over" /\ ProgramsType'
    BY <1>1, <1>6, GotoFacts DEF Post, UsersInv, ProgramsType, dialog
  <2>2. prog.id \in Ids /\ got = ChallengeOf[prog.id]
    BY <1>6, ChallengeAssumption DEF Post, UsersInv, Found, Asked, Test
  <2>3. PostedIsAnswer'
    BY <1>6, <2>2 DEF Post, UsersInv, PostedIsAnswer
  <2> QED
    BY <1>1, <1>2, <1>3, <1>6, <2>1, <2>3
       DEF UsersInv, CallFits, ClientWaits, Found, At_, Before
<1> QED
  BY <1>4, <1>5, <1>6

\* YkLibTest begins, opens the key and ends, by itself or not; or Main ends.
LEMMA ProcessKeeps ==
  ASSUME UsersInv, user = "client", Spawn \/ Open \/ Exit \/ Killed \/ Quit, UNCHANGED <<dialog, user>>
  PROVE  UsersInv'
<1>1. /\ user' = "client" /\ handler = "none" /\ handler' = "none" /\ DialogWaits' /\ OneRuns'
  BY DialogRests DEF UsersInv
<1>2. PostedIsAnswer'
  BY DEF UsersInv, PostedIsAnswer, Spawn, Open, Exit, Killed, ProcessEnds, Quit
<1>3. seq \in 0 .. SeqMod - 1
  BY DEF UsersInv, IInv, TypeOK
<1>4. CASE Spawn
  <2>1. IInv' /\ call' = NoCall
    BY <1>1, <1>4, RestartKeeps DEF Spawn, UsersInv, CallFits, At_
  <2>2. ProgramsType' /\ prog'.at = "open"
    BY <1>4, ProgStays, GotoFacts DEF Spawn, UsersInv, Before
  <2> QED
    BY <1>1, <1>2, <1>4, <2>1, <2>2 DEF Spawn, UsersInv, CallFits, ClientWaits, Found, At_, Before
<1>5. CASE Open
  <2>1. IInv' /\ call' = NoCall
    BY <1>5, OpeningFacts DEF Open, UsersInv
  <2>2. ProgramsType' /\ prog'.at = "begin"
    BY <1>5, ProgStays, GotoFacts DEF Open, UsersInv, Before
  <2>3. got' = None
    BY <1>5 DEF Open, UsersInv, Found, Before, At_
  <2> QED
    BY <1>1, <1>2, <2>1, <2>2, <2>3 DEF UsersInv, CallFits, ClientWaits, Found, At_, Before
<1>6. CASE Exit \/ Killed
  <2>1. IInv' /\ call' = NoCall
    BY <1>3, <1>6, RestartKeeps DEF Exit, Killed, ProcessEnds, UsersInv
  <2>2. got' \in {None, Asked}
    BY <1>6 DEF Exit, Killed, UsersInv, Found
  <2>3. PICK step \in {"fetch", "post", "over"} :
          Goto(step) /\ (step = "post" => prog.id # Test /\ got' # None)
    BY <1>6 DEF Exit, Killed, After
  <2>4. ProgramsType' /\ prog'.at = step /\ prog'.id = prog.id /\ Asked' = Asked
    BY <1>6, <2>3, ProgStays, GotoFacts DEF Exit, Killed, ProcessEnds, UsersInv
  <2>5. step = "post" => prog.id \in Ids /\ got' = Asked
    BY <2>2, <2>3 DEF UsersInv, ProgramsType
  <2>6. Found'
    BY <2>3, <2>4, <2>5 DEF Found, At_, Before
  <2> QED
    BY <1>1, <1>2, <2>1, <2>3, <2>4, <2>6 DEF UsersInv, CallFits, ClientWaits, At_
<1>7. CASE Quit
  <2>1. IInv' /\ UNCHANGED <<call, begun, got, server>>
    BY <1>7, LibraryStays DEF Quit, UsersInv, vars
  <2>2. CASE Working
    <3>1. prog' = [at |-> prog.at, id |-> prog.id, alone |-> TRUE]
      BY <1>7, <2>2 DEF Quit, UsersInv, ProgramsType
    <3>2. ProgramsType' /\ Asked' = Asked /\ prog'.at = prog.at /\ prog'.id = prog.id
      BY <2>1, <3>1 DEF UsersInv, ProgramsType, Asked, server, dialog
    <3>3. CallFits'
      BY <1>1, <2>1, <3>2 DEF UsersInv, CallFits, Waiting, Aborted, At, At_
    <3>4. ClientWaits' /\ Found'
      BY <2>1, <3>2 DEF UsersInv, ClientWaits, Found, Hmac, At_
    <3> QED
      BY <1>1, <1>2, <2>1, <3>2, <3>3, <3>4 DEF UsersInv
  <2>3. CASE ~ Working
    <3>1. ProgramsType' /\ prog'.at = "over"
      BY <1>7, <2>3, ProgStays, GotoFacts DEF Quit, UsersInv
    <3>2. call = NoCall
      BY <1>1, <2>3 DEF UsersInv, CallFits, Working, At_
    <3> QED
      BY <1>1, <1>2, <2>1, <3>1, <3>2 DEF UsersInv, CallFits, ClientWaits, Found, At_, Before
  <2> QED
    BY <2>2, <2>3
<1> QED
  BY <1>4, <1>5, <1>6, <1>7

\* YkLibTest sends the challenge and begins to wait for the response.
LEMMA SendKeeps ==
  ASSUME UsersInv, user = "client", Send \/ StartWait, UNCHANGED <<dialog, user>>
  PROVE  UsersInv'
<1>1. /\ user' = "client" /\ handler = "none" /\ handler' = "none" /\ DialogWaits' /\ OneRuns'
  BY DialogRests DEF UsersInv
<1>2. PostedIsAnswer'
  BY DEF UsersInv, PostedIsAnswer, Send, StartWait
<1>3. got' = None
  BY DEF UsersInv, Found, Before, Send, StartWait, At_
<1>4. CASE Send
  <2>1. IInv' /\ call' = NoCall /\ (ret'.rc = "OK" => begun' = Hmac(Asked))
    BY <1>4, AskedFacts, BeginFacts DEF Send, UsersInv
  <2>2. PICK step \in {"wait", "exit"} : Goto(step) /\ (step = "wait" => ret'.rc = "OK")
    BY <1>4 DEF Send
  <2>3. ProgramsType' /\ prog'.at = step /\ Asked' = Asked
    BY <1>4, <2>2, ProgStays, GotoFacts DEF Send, UsersInv, Before
  <2> QED
    BY <1>1, <1>2, <1>3, <2>1, <2>2, <2>3 DEF UsersInv, CallFits, ClientWaits, Found, At_, Before, Hmac
<1>5. CASE StartWait
  <2>1. IInv' /\ Waiting' /\ begun' = begun
    BY <1>5, WaitAssumption, WaitFacts DEF StartWait, UsersInv
  <2>2. ProgramsType' /\ prog'.at = "waiting" /\ Asked' = Asked
    BY <1>5, ProgStays, GotoFacts DEF StartWait, UsersInv, Before
  <2>3. begun = Hmac(Asked)
    BY <1>5 DEF StartWait, UsersInv, ClientWaits, At_
  <2> QED
    BY <1>1, <1>2, <1>3, <2>1, <2>2, <2>3 DEF UsersInv, CallFits, ClientWaits, Found, At_, Before, Hmac
<1> QED
  BY <1>4, <1>5

\* It waits: what it prints is the answer to what it has asked.
LEMMA WaitOnKeeps ==
  ASSUME UsersInv, user = "client", WaitOn, UNCHANGED <<dialog, user>>
  PROVE  UsersInv'
<1>1. /\ user' = "client" /\ handler = "none" /\ handler' = "none" /\ DialogWaits' /\ OneRuns'
  BY DialogRests DEF UsersInv
<1>2. PostedIsAnswer'
  BY DEF UsersInv, PostedIsAnswer, WaitOn
<1>3. Waiting /\ Polls /\ begun = Hmac(Asked) /\ got = None /\ At_("waiting")
  BY DEF WaitOn, UsersInv, CallFits, ClientWaits, Found, Before, At_, Polls
<1>4. Hmac(Asked) # NoCommand /\ Hmac(Asked).chal = Asked
  BY AskedFacts DEF UsersInv
<1>5. /\ IInv'
      /\ \/ Waiting' /\ call' # NoCall /\ begun' = begun
         \/ call' = NoCall /\ ret'.rc \in Polled /\ begun' = begun
         \/ /\ call' = NoCall /\ ret'.rc \notin Polled
            /\ ret'.rc = "OK" => ret'.answer = begun
  BY <1>3, <1>4, PollFacts DEF UsersInv
<1>6. CASE call' # NoCall
  <2>1. UNCHANGED <<prog, got, server>>
    BY <1>6 DEF WaitOn
  <2>2. ProgramsType' /\ prog'.at = "waiting" /\ Asked' = Asked
    BY <1>3, <2>1 DEF UsersInv, ProgramsType, Asked, At_, server, dialog
  <2> QED
    BY <1>1, <1>2, <1>3, <1>5, <1>6, <2>1, <2>2
       DEF UsersInv, CallFits, ClientWaits, Found, At_, Before, Hmac
<1>7. CASE call' = NoCall
  <2>1. PICK step \in {"touch", "exit"} : Goto(step) /\ (step = "touch" <=> ret'.rc = "TIMER_WAIT")
    BY <1>7 DEF WaitOn
  <2>2. ProgramsType' /\ prog'.at = step /\ Asked' = Asked
    BY <2>1, ProgStays, GotoFacts DEF WaitOn, UsersInv, Before
  <2>3. got' = IF ret'.rc = "OK" THEN ret'.answer.chal ELSE None
    BY <1>7 DEF WaitOn
  <2>4. ret'.rc = "OK" => got' = Asked
    BY <1>3, <1>4, <1>5, <1>7, <2>3 DEF Polled, Waiting, At, NoCall
  <2>5. step = "touch" => begun' = Hmac(Asked') /\ got' = None
    BY <1>3, <1>5, <1>7, <2>1, <2>2, <2>3 DEF Polled, Waiting, At, NoCall, Hmac
  <2>6. Found'
    BY <2>1, <2>2, <2>3, <2>4, <2>5 DEF Found, At_, Before
  <2>7. ClientWaits'
    BY <2>1, <2>2, <2>5 DEF ClientWaits, Hmac
  <2> QED
    BY <1>1, <1>2, <1>5, <1>7, <2>1, <2>2, <2>6, <2>7 DEF UsersInv, CallFits, At_
<1> QED
  BY <1>6, <1>7

\* A wait for a touch is taken up again or aborted.
LEMMA TouchKeeps ==
  ASSUME UsersInv, user = "client", Touch \/ Abort, UNCHANGED <<dialog, user>>
  PROVE  UsersInv'
<1>1. /\ user' = "client" /\ handler = "none" /\ handler' = "none" /\ DialogWaits' /\ OneRuns'
  BY DialogRests DEF UsersInv
<1>2. PostedIsAnswer'
  BY DEF UsersInv, PostedIsAnswer, Touch, Abort
<1>3. got' = None
  BY DEF UsersInv, Found, Before, Touch, Abort, At_
<1>4. CASE Goto("wait") /\ UNCHANGED vars /\ Touch
  <2>1. IInv' /\ call' = NoCall /\ begun' = Hmac(Asked)
    BY <1>1, <1>4, LibraryStays DEF Touch, UsersInv, CallFits, ClientWaits, At_, vars
  <2>2. ProgramsType' /\ prog'.at = "wait" /\ Asked' = Asked
    BY <1>4, ProgStays, GotoFacts DEF Touch, UsersInv, Before
  <2> QED
    BY <1>1, <1>2, <1>3, <2>1, <2>2 DEF UsersInv, CallFits, ClientWaits, Found, At_, Before, Hmac
<1>5. CASE (Touch /\ AbortBegin /\ Goto(IF call' = NoCall THEN "exit" ELSE "abort")) \/ Abort
  <2>1. IInv' /\ (call' = NoCall \/ (Aborted' /\ call' # NoCall))
    BY <1>5, AbortFacts DEF Abort, UsersInv
  <2>2. ProgramsType' /\ prog'.at = IF call' = NoCall THEN "exit" ELSE "abort"
    <3>1. CASE Abort /\ call' # NoCall
      BY <3>1 DEF Abort, UsersInv, ProgramsType, At_, server, dialog
    <3>2. CASE ~ (Abort /\ call' # NoCall)
      <4>1. PICK step \in {"exit", "abort"} : Goto(step) /\ step = IF call' = NoCall THEN "exit" ELSE "abort"
        BY <1>5, <3>2 DEF Abort
      <4>2. UNCHANGED server
        BY <1>5 DEF Abort, Touch
      <4> QED
        BY <4>1, <4>2, ProgStays, GotoFacts DEF UsersInv, Before
    <3> QED
      BY <3>1, <3>2
  <2> QED
    BY <1>1, <1>2, <1>3, <2>1, <2>2 DEF UsersInv, CallFits, ClientWaits, Found, At_, Before
<1> QED
  BY <1>4, <1>5 DEF Touch

-----------------------------------------------------------------------------
(* The dialog                                                              *)

\* The library the dialog uses is the one the client uses.
LEMMA SameLibrary ==
  /\ Dialog!vars = vars
  /\ Dialog!NoCall = NoCall
  /\ Dialog!Opened = Opened
BY DEF Dialog!vars, Dialog!library, Dialog!clock, vars, library, clock, Dialog!NoCall, NoCall,
       Dialog!Opened, Opened

\* What readStatus returns and a read leaves.
LEMMA SameStatus ==
  /\ Dialog!StatusCode = StatusCode
  /\ Dialog!Alive = Alive
  /\ \A d : Dialog!Idle(d) = Idle(d)
  /\ \A d : Dialog!AfterRead(d) = AfterRead(d)
  /\ \A d : Dialog!Reads(d) <=> Reads(d)
BY DEF Dialog!StatusCode, StatusCode, Dialog!Opened, Opened, Dialog!Alive, Alive, Dialog!Idle, Idle,
       Dialog!NoCommand, NoCommand, Dialog!AfterRead, AfterRead, Dialog!Reads, Reads

\* How calls return.
LEMMA SameReturn ==
  /\ \A rc : Dialog!Return(rc) <=> Return(rc)
  /\ \A rc, cmd : Dialog!Answered(rc, cmd) <=> Answered(rc, cmd)
  /\ \A rc : Dialog!WaitEnds(rc) <=> WaitEnds(rc)
  /\ \A step : Dialog!At(step) <=> At(step)
  /\ Dialog!NoCommand = NoCommand
BY DEF Dialog!Return, Return, Dialog!Answered, Answered, Dialog!WaitEnds, WaitEnds, Dialog!At, At,
       Dialog!NoCall, NoCall, Dialog!NoCommand, NoCommand

\* Opening a key and listing the ports.
LEMMA SameOpening ==
  /\ Dialog!OpenKey <=> OpenKey
  /\ Dialog!EnumPorts <=> EnumPorts
<1>1. Dialog!clock = clock /\ (Dialog!Opened <=> Opened)
  BY DEF Dialog!clock, clock, Dialog!Opened, Opened
<1>2. Dialog!EnumPorts <=> EnumPorts
  BY <1>1, SameReturn, Zenon DEF Dialog!EnumPorts, EnumPorts, clock, Dialog!clock
<1>3. \A S : Dialog!Cardinality(S) = Cardinality(S)
  BY DEF Dialog!Cardinality, Cardinality
<1>4. Dialog!OpenKey <=> OpenKey
  BY <1>1, <1>3, SameReturn DEF Dialog!OpenKey, OpenKey, clock, Dialog!clock
<1> QED
  BY <1>2, <1>4

\* Beginning a command.
LEMMA SameBegin ==
  ASSUME NEW cmd
  PROVE  /\ Dialog!Begin(cmd) <=> Begin(cmd)
         /\ Dialog!BeginRefused(cmd) <=> BeginRefused(cmd)
<1>1. /\ Dialog!Supported(handle, cmd) <=> Supported(handle, cmd)
      /\ \A n : Dialog!Expected(cmd, n) = Expected(cmd, n)
      /\ Dialog!MayWrite <=> MayWrite
  BY SameStatus DEF Dialog!Supported, Supported, Dialog!ConfigKinds, ConfigKinds, Dialog!Expected,
                    Expected, Dialog!NextSeq, NextSeq, Dialog!MayWrite, MayWrite
<1> QED
  BY <1>1, SameStatus, SameReturn
     DEF Dialog!Begin, Begin, Dialog!BeginRefused, BeginRefused, Dialog!clock, clock

\* Beginning to wait.
LEMMA SameWait ==
  ASSUME NEW maxWait, NEW resp
  PROVE  Dialog!Wait(maxWait, resp) <=> Wait(maxWait, resp)
BY SameReturn DEF Dialog!Wait, Wait, Dialog!Polling, Polling, Dialog!library, library

\* The steps of a wait.
LEMMA SamePolls ==
  /\ Dialog!PollFails <=> PollFails
  /\ Dialog!PollIdle <=> PollIdle
  /\ Dialog!PollTouch <=> PollTouch
  /\ Dialog!PollBusy <=> PollBusy
  /\ Dialog!PollResponse <=> PollResponse
  /\ Dialog!SlicesEnd <=> SlicesEnd
  /\ Dialog!SlicesMore <=> SlicesMore
<1> USE SameStatus, SameReturn DEF Dialog!library, library, Dialog!clock, clock
<1>1. Dialog!PollFails <=> PollFails
  BY DEF Dialog!PollFails, PollFails
<1>2. Dialog!PollIdle <=> PollIdle
  BY DEF Dialog!PollIdle, PollIdle, Dialog!SeqRight, SeqRight, Dialog!ConfigKinds, ConfigKinds
<1>3. Dialog!PollTouch <=> PollTouch
  BY DEF Dialog!PollTouch, PollTouch
<1>4. Dialog!PollBusy <=> PollBusy
  BY DEF Dialog!PollBusy, PollBusy, Dialog!TimedOut, TimedOut
<1>5. Dialog!PollResponse <=> PollResponse
  BY DEF Dialog!PollResponse, PollResponse, Dialog!Reading, Reading
<1>6. Dialog!SlicesEnd <=> SlicesEnd
  BY DEF Dialog!SlicesEnd, SlicesEnd
<1>7. Dialog!SlicesMore <=> SlicesMore
  BY DEF Dialog!SlicesMore, SlicesMore, Dialog!NextBail, NextBail, Dialog!GivesUp, GivesUp
<1> QED
  BY <1>1, <1>2, <1>3, <1>4, <1>5, <1>6, <1>7

\* The steps of an abort.
LEMMA SameAbort ==
  /\ Dialog!AbortBegin <=> AbortBegin
  /\ Dialog!AbortSend <=> AbortSend
  /\ Dialog!AbortCheck <=> AbortCheck
BY SameStatus, SameReturn
   DEF Dialog!AbortBegin, AbortBegin, Dialog!AbortSend, AbortSend, Dialog!AbortCheck, AbortCheck,
       Dialog!Aborting, Aborting, Dialog!Checking, Checking, Dialog!library, library, Dialog!clock, clock

\* The client rests while the dialog runs, and keeps what it knows.
LEMMA ClientRests ==
  ASSUME UsersInv, user = "dialog", UNCHANGED <<server, client>>
  PROVE  /\ prog' = prog /\ At_("over") /\ At_("over")'
         /\ ClientWaits' /\ Found' /\ PostedIsAnswer'
BY DEF UsersInv, OneRuns, client, At_, ClientWaits, Found, Before, PostedIsAnswer

\* What a step of the dialog has to keep.
LEMMA DialogKeeps ==
  ASSUME UsersInv, user = "dialog", UNCHANGED <<server, client, user>>, IInv',
         pending' \in BOOLEAN, handler' \in {"none", "hmac", "abort", "timer"}, DialogWaits',
         IF handler' = "timer" THEN Waiting' ELSE IF handler' = "abort" THEN Aborted' ELSE call' = NoCall
  PROVE  UsersInv'
<1>1. /\ prog' = prog /\ At_("over") /\ At_("over")'
      /\ ClientWaits' /\ Found' /\ PostedIsAnswer'
  BY ClientRests
<1>2. ProgramsType' /\ OneRuns'
  BY <1>1 DEF UsersInv, ProgramsType, OneRuns, server, client, At_
<1> QED
  BY <1>1, <1>2 DEF UsersInv, CallFits, At_

\* The button opens the key and sends the challenge.
LEMMA ClickKeeps ==
  ASSUME UsersInv, user = "dialog", Dialog!Click \/ Dialog!SendChallenge, UNCHANGED <<server, client, user>>
  PROVE  UsersInv'
<1>1. CASE Dialog!Click
  <2>1. IInv' /\ call' = NoCall
    BY <1>1, SameOpening, OpeningFacts DEF Dialog!Click, UsersInv
  <2>2. ~ pending /\ ~ pending' /\ handler' \in {"none", "hmac"}
    BY <1>1 DEF Dialog!Click, Dialog!Loop, UsersInv, ProgramsType
  <2>3. DialogWaits'
    BY <2>2 DEF DialogWaits
  <2>4. handler' \in {"none", "hmac", "abort", "timer"} /\ handler' # "timer" /\ handler' # "abort"
    BY <2>2
  <2>5. pending' \in BOOLEAN
    BY <1>1 DEF Dialog!Click, UsersInv, ProgramsType
  <2> QED
    BY <2>1, <2>3, <2>4, <2>5, DialogKeeps
<1>2. CASE Dialog!SendChallenge
  <2>1. Dialog!Hmac \in Command
    BY SampleAssumption DEF Dialog!Hmac, Command
  <2>2. /\ IInv'
        /\ call' = NoCall
        /\ handle' = handle
        /\ ret'.rc = "OK" => begun' = Dialog!Hmac /\ Opened
    BY <1>2, <2>1, SameBegin, BeginFacts DEF Dialog!SendChallenge, UsersInv
  <2>3. handler' = "none" /\ pending' \in BOOLEAN /\ (pending' => ret'.rc = "OK")
    BY <1>2 DEF Dialog!SendChallenge
  <2>4. Dialog!Hmac' = Dialog!Hmac
    BY DEF Dialog!Hmac
  <2>5. DialogWaits'
    BY <2>2, <2>3, <2>4 DEF DialogWaits, Opened
  <2> QED
    BY <2>2, <2>3, <2>5, DialogKeeps
<1> QED
  BY <1>1, <1>2

\* The box that asks about aborting opens and closes, and the abort it may lead
\* to ends the request.
LEMMA BoxKeeps ==
  ASSUME UsersInv, user = "dialog", UNCHANGED <<server, client, user>>,
         Dialog!ClickWhilePending \/ Dialog!Dismiss \/ Dialog!Yes \/ Dialog!Abort
  PROVE  UsersInv'
<1>1. CASE Dialog!ClickWhilePending \/ Dialog!Dismiss
  <2>1. /\ UNCHANGED <<vars, pending, handler>>
        /\ handler = "none"
    BY <1>1 DEF Dialog!ClickWhilePending, Dialog!Dismiss, Dialog!Loop,
                Dialog!vars, Dialog!library, Dialog!clock, vars, library, clock
  <2>2. IInv'
    BY <2>1, LibraryStays DEF UsersInv
  <2>3. DialogWaits'
    BY <2>1 DEF UsersInv, DialogWaits, Dialog!Hmac, Opened, vars, library
  <2>4. call' = NoCall /\ pending' \in BOOLEAN
    BY <2>1, ClientRests DEF UsersInv, CallFits, ProgramsType, OneRuns, At_, vars
  <2> QED
    BY <2>1, <2>2, <2>3, <2>4, DialogKeeps
<1>2. CASE Dialog!Yes \/ Dialog!Abort
  <2>1. /\ IInv'
        /\ call' = NoCall \/ (Aborted' /\ call' # NoCall)
    BY <1>2, SameAbort, AbortFacts DEF Dialog!Yes, Dialog!Abort, UsersInv
  <2>2. /\ call' = NoCall => handler' = "none" /\ pending' = FALSE
        /\ call' # NoCall => handler' = "abort" /\ pending' = pending
    BY <1>2, SameLibrary DEF Dialog!Yes, Dialog!Abort
  <2>3. DialogWaits' /\ pending' \in BOOLEAN
    BY <2>2 DEF DialogWaits, UsersInv, ProgramsType
  <2>4. CASE call' = NoCall
    <3>1. handler' \in {"none", "hmac", "abort", "timer"} /\ handler' # "timer" /\ handler' # "abort"
      BY <2>2, <2>4
    <3> QED
      BY <2>1, <2>3, <2>4, <3>1, DialogKeeps
  <2>5. CASE call' # NoCall
    <3>1. handler' \in {"none", "hmac", "abort", "timer"} /\ handler' # "timer" /\ Aborted'
      BY <2>1, <2>2, <2>5
    <3>2. IF handler' = "timer" THEN Waiting' ELSE IF handler' = "abort" THEN Aborted' ELSE call' = NoCall
      BY <3>1, <2>2, <2>5
    <3> QED
      BY <2>1, <2>3, <3>1, <3>2, DialogKeeps
  <2> QED
    BY <2>4, <2>5
<1> QED
  BY <1>1, <1>2

\* The timer lists the ports, or polls for the response of the request that is
\* pending, which stays so only while the key is at work on it.
LEMMA TimerKeeps ==
  ASSUME UsersInv, user = "dialog", Dialog!Timer, UNCHANGED <<server, client, user>>
  PROVE  UsersInv'
<1>1. CASE Dialog!TimerIdle
  <2>1. IInv' /\ call' = NoCall
    BY <1>1, SameOpening, OpeningFacts DEF Dialog!TimerIdle, UsersInv
  <2>2. ~ pending /\ pending' = pending /\ handler = "none" /\ handler' = "none"
    BY <1>1 DEF Dialog!TimerIdle, Dialog!Loop, Dialog!MayEnumerate, Dialog!dialog
  <2>3. DialogWaits'
    BY <2>2 DEF DialogWaits
  <2>4. pending' \in BOOLEAN /\ handler' = "none"
    BY <1>1 DEF Dialog!TimerIdle, Dialog!Loop, Dialog!dialog, UsersInv, ProgramsType
  <2> QED
    BY <2>1, <2>3, <2>4, DialogKeeps
<1>2. CASE Dialog!TimerPending
  <2>1. IInv' /\ Waiting' /\ begun' = begun /\ handle' = handle
    BY <1>2, SampleAssumption, SameWait, WaitFacts DEF Dialog!TimerPending, UsersInv
  <2>2. pending /\ pending' = pending /\ handler = "none" /\ handler' = "timer"
    BY <1>2 DEF Dialog!TimerPending, Dialog!Loop
  <2>3. DialogWaits'
    BY <2>1, <2>2 DEF UsersInv, DialogWaits, Dialog!Hmac, Opened
  <2> QED
    BY <2>1, <2>2, <2>3, DialogKeeps
<1>3. CASE Dialog!Poll
  <2>1. handler = "timer" /\ Waiting /\ Polls /\ pending
    BY <1>3, SamePolls DEF Dialog!Poll, UsersInv, CallFits, DialogWaits, Polls
  <2>2. /\ IInv'
        /\ handle' = handle
        /\ \/ Waiting' /\ call' # NoCall /\ begun' = begun
           \/ call' = NoCall /\ ret'.rc \in Polled /\ begun' = begun
           \/ call' = NoCall /\ ret'.rc \notin Polled
    BY <2>1, PollFacts DEF UsersInv
  <2>3. CASE call' # NoCall
    <3>1. UNCHANGED <<handler, pending>>
      BY <1>3, <2>3, SameLibrary DEF Dialog!Poll
    <3>2. DialogWaits'
      BY <2>1, <2>2, <2>3, <3>1 DEF UsersInv, DialogWaits, Dialog!Hmac, Opened
    <3> QED
      BY <2>1, <2>2, <2>3, <3>1, <3>2, DialogKeeps DEF UsersInv, ProgramsType
  <2>4. CASE call' = NoCall
    <3>1. handler' = "none" /\ pending' = (ret'.rc \in Polled)
      BY <1>3, <2>4, SameLibrary DEF Dialog!Poll, Dialog!StillPending, Polled
    <3>2. pending' => begun' = begun
      BY <2>2, <2>4, <3>1 DEF Waiting, At, NoCall
    <3>3. DialogWaits'
      BY <2>1, <2>2, <3>1, <3>2 DEF UsersInv, DialogWaits, Dialog!Hmac, Opened
    <3>4. pending' \in BOOLEAN
      BY <3>1
    <3> QED
      BY <2>2, <2>4, <3>1, <3>3, <3>4, DialogKeeps
  <2> QED
    BY <2>3, <2>4
<1> QED
  BY <1>1, <1>2, <1>3 DEF Dialog!Timer

\* The dialog opens and closes.
LEMMA OpenCloseKeeps ==
  ASSUME UsersInv, OpenDialog \/ CloseDialog
  PROVE  UsersInv'
<1>1. /\ prog' = prog /\ At_("over") /\ At_("over")'
      /\ ClientWaits' /\ Found' /\ PostedIsAnswer'
  BY DEF OpenDialog, CloseDialog, ProcessEnds, UsersInv, OneRuns, client, At_, ClientWaits, Found, Before, PostedIsAnswer
<1>2. CASE OpenDialog
  <2>1. ~ pending /\ ~ pending' /\ handler' = "none" /\ handler = "none"
    BY <1>2 DEF OpenDialog, UsersInv, OneRuns, dialog
  <2>2. IInv' /\ call' = NoCall
    BY <1>1, <1>2, <2>1, RestartKeeps DEF OpenDialog, UsersInv, CallFits, At_
  <2>3. ProgramsType' /\ OneRuns'
    BY <1>1, <1>2, <2>1 DEF OpenDialog, UsersInv, ProgramsType, OneRuns, server, client, dialog, At_
  <2> QED
    BY <1>1, <2>1, <2>2, <2>3 DEF UsersInv, CallFits, DialogWaits, At_
<1>3. CASE CloseDialog
  <2>1. seq' \in 0 .. SeqMod - 1
    BY <1>3 DEF CloseDialog, ProcessEnds, UsersInv, IInv, TypeOK
  <2>2. IInv' /\ call' = NoCall
    BY <1>3, <2>1, RestartKeeps DEF CloseDialog, ProcessEnds, UsersInv
  <2>3. ProgramsType' /\ OneRuns'
    BY <1>1, <1>3 DEF CloseDialog, ProcessEnds, UsersInv, ProgramsType, OneRuns, server, client, At_
  <2>4. ~ pending' /\ handler' = "none"
    BY <1>3 DEF CloseDialog
  <2> QED
    BY <1>1, <2>2, <2>3, <2>4 DEF UsersInv, CallFits, DialogWaits, At_
<1> QED
  BY <1>2, <1>3

\* Keys come, go and get on with their work.
LEMMA KeyWorksKeeps ==
  ASSUME UsersInv, KeyWorks
  PROVE  UsersInv'
<1>1. UNCHANGED <<prog, got, posted, offered, unasked, pending, box, handler, user>>
  BY DEF KeyWorks, Around, server, client, dialog
<1>2. IInv' /\ call' = call /\ begun' = begun /\ (Opened => Opened')
  BY WorldFacts DEF KeyWorks, UsersInv
<1>3. ProgramsType' /\ OneRuns'
  BY <1>1 DEF UsersInv, ProgramsType, OneRuns, At_
<1>4. CallFits'
  BY <1>1, <1>2 DEF UsersInv, CallFits, Waiting, Aborted, At, At_
<1>5. ClientWaits' /\ Found' /\ PostedIsAnswer'
  BY <1>1, <1>2 DEF UsersInv, ClientWaits, Found, PostedIsAnswer, Hmac, Asked, At_
<1>6. DialogWaits'
  BY <1>1, <1>2 DEF UsersInv, DialogWaits, Dialog!Hmac
<1> QED
  BY <1>2, <1>3, <1>4, <1>5, <1>6 DEF UsersInv

\* The library, the client and the dialog are where they were.
LEMMA UsersStay ==
  ASSUME UsersInv, UNCHANGED <<vars, client, dialog, user>>, offered' \subseteq Ids, unasked' \subseteq Ids
  PROVE  UsersInv'
<1>1. UNCHANGED <<prog, got, posted, pending, box, handler, user, call, begun, handle>>
  BY DEF vars, library, client, dialog
<1>2. IInv'
  BY LibraryStays DEF UsersInv
<1>3. ProgramsType' /\ OneRuns'
  BY <1>1 DEF UsersInv, ProgramsType, OneRuns, At_
<1>4. CallFits' /\ ClientWaits' /\ Found' /\ PostedIsAnswer'
  BY <1>1 DEF UsersInv, CallFits, Waiting, Aborted, At, At_, ClientWaits, Found, PostedIsAnswer, Hmac, Asked
<1>5. DialogWaits'
  BY <1>1 DEF UsersInv, DialogWaits, Dialog!Hmac, Opened
<1> QED
  BY <1>2, <1>3, <1>4, <1>5 DEF UsersInv

\* The invariant holds at first, and every step keeps it.
LEMMA UsersInit == InitUsers => UsersInv
<1> SUFFICES ASSUME InitUsers PROVE UsersInv
  OBVIOUS
<1>1. IInv /\ call = NoCall
  BY InitIInv DEF InitUsers, InitClient, Init
<1> QED
  BY <1>1 DEF InitUsers, InitClient, UsersInv, ProgramsType, OneRuns, CallFits, ClientWaits, Found, Before,
              DialogWaits, PostedIsAnswer, At_

LEMMA UsersNext == UsersInv /\ [NextUsers]_users => UsersInv'
<1> SUFFICES ASSUME UsersInv, [NextUsers]_users PROVE UsersInv'
  OBVIOUS
<1>1. CASE ClientStep
  BY <1>1, MainKeeps, ProcessKeeps, SendKeeps, WaitOnKeeps, TouchKeeps DEF ClientStep, Main
<1>2. CASE Timer
  BY <1>2, TimerKeeps DEF Timer
<1>3. CASE Button
  BY <1>3, ClickKeeps, BoxKeeps DEF Button, Dialog!Button
<1>4. CASE OpenDialog \/ CloseDialog
  BY <1>4, OpenCloseKeeps
<1>5. CASE KeyWorks
  BY <1>5, KeyWorksKeeps
<1>6. CASE \E id \in Ids : Issued(id) \/ Withdrawn(id)
  BY <1>6, UsersStay DEF Issued, Issue, Withdrawn, Withdraw, UsersInv, ProgramsType
<1>7. CASE UNCHANGED users
  BY <1>7, UsersStay DEF users, all, server, UsersInv, ProgramsType
<1> QED
  BY <1>1, <1>2, <1>3, <1>4, <1>5, <1>6, <1>7 DEF NextUsers

-----------------------------------------------------------------------------
(* Theorems                                                                *)

\* Whatever the two programs do one after the other, and whatever the keys do
\* meanwhile, each has the call and the command under way that it counts on.
THEOREM UsersInvariance == SpecUsers => []UsersInv
<1> QED
  BY UsersInit, UsersNext, PTL DEF SpecUsers

\* An answer that is posted (YubiKey.cs, Program.cs) is the key's answer to that
\* challenge, though the key may have been left at work on another by a run that
\* was quit, timed out or aborted, by the test or by the dialog.
THEOREM PostsAreAnswers == SpecUsers => []PostedIsAnswer
<1>1. UsersInv => PostedIsAnswer
  BY DEF UsersInv
<1> QED
  BY UsersInvariance, <1>1, PTL

\* What OnTimer polls is what OnBnClickedHmac began, on a key that is open
\* still: also behind the box that asks about aborting, after a key has been
\* unplugged and whatever the client left the key doing.
THEOREM PendingStaysUnderWay == SpecUsers => []PendingIsUnderWay
<1>1. UsersInv => PendingIsUnderWay
  BY SameLibrary DEF UsersInv, DialogWaits, PendingIsUnderWay, Dialog!PendingIsUnderWay, Dialog!Loop
<1> QED
  BY UsersInvariance, <1>1, PTL

\* The members of the library, the keys and the locals of its calls keep to
\* their types in the hands of the two programs too, which end and begin in the
\* midst of calls: what holds of one process holds of one after the other.
THEOREM UsersTypeCorrect == SpecUsers => []TypeOK
<1>1. UsersInv => TypeOK
  BY DEF UsersInv, IInv
<1> QED
  BY UsersInvariance, <1>1, PTL
=============================================================================
