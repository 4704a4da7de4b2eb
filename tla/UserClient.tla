----------------------------- MODULE UserClient -----------------------------
(***************************************************************************)
(* The program a member of a quorum runs to answer a challenge:            *)
(* MFAYubiCryptClient/Program.cs asks the server for a challenge, YubiKey.cs*)
(* runs YkLibTest.exe (YubikeyLib/YubikeyLibTest.cpp) to have the YubiKey  *)
(* answer it, and the answer is posted.                                    *)
(*                                                                         *)
(* YkLibTest is a process of its own over a CYkLib of its own (YkLib): it   *)
(* outlives a Main that ends while it is at work, and the key it talks to   *)
(* keeps its state when the process is gone.  Of the server there is what  *)
(* this member sees of it: challenges are created, and go when somebody has *)
(* answered them (QuorumServer has the rest).  KeyUsers runs it.            *)
(***************************************************************************)
EXTENDS YkLib

CONSTANTS
  Ids,            \* ids of the challenges the server issues to the member
  ChallengeOf,    \* the challenge behind each
  TestChallenge,  \* the challenge that key 'c' sends to the YubiKey
  ChalWait        \* YKLIB_MAX_CHAL_WAIT

ASSUME ChallengeAssumption ==
  /\ ChallengeOf \in [Ids -> Challenges] /\ TestChallenge \in Challenges
  /\ "test" \notin Ids
ASSUME WaitAssumption == ChalWait \in MaxWaits

VARIABLES
  prog,     \* where Main or YkLibTest is, with which challenge, and whether
            \* YkLibTest goes on alone, Main having ended
  got,      \* the answer GetResponse found in the output of YkLibTest
  offered,  \* the server's pending challenges of the member
  unasked,  \* those it has not issued yet
  posted    \* history: what was posted, by challenge id

server == <<offered, unasked>>
client == <<prog, got, posted>>
all == <<vars, server, client>>

None == "none"
Test == "test"
At_(step) == prog.at = step
Goto(step) == prog' = [prog EXCEPT !.at = step]

\* Where YkLibTest runs.
Working == prog.at \in {"open", "begin", "wait", "waiting", "touch", "abort", "exit"}

Asked == IF prog.id = Test THEN TestChallenge ELSE ChallengeOf[prog.id]
Hmac(chal) == [kind |-> "challenge", chal |-> chal]
-----------------------------------------------------------------------------
(* Main *)

Run == /\ At_("over")
       /\ \E step \in {"spawn", "fetch"} :
            prog' = [at |-> step, id |-> Test, alone |-> FALSE]
       /\ got' = None
       /\ UNCHANGED <<vars, server, posted>>

\* Keys other than 'c' ('s' registers the user first) go straight to the
\* server; a null means there is nothing to do.
Fetch ==
  /\ At_("fetch")
  /\ \/ \E id \in offered : prog' = [at |-> "spawn", id |-> id, alone |-> FALSE]
     \/ offered = {} /\ Goto("over")
  /\ UNCHANGED <<vars, server, got, posted>>

Post ==
  /\ At_("post")
  /\ posted' = posted \cup {<<prog.id, got>>}
  /\ offered' = offered \ {prog.id}
  /\ Goto("over")
  /\ UNCHANGED <<vars, unasked, got>>

-----------------------------------------------------------------------------
(* GetResponse, and the process it runs *)

\* A fresh CYkLib; whatever m_seq held is in it.
Spawn ==
  /\ At_("spawn")
  /\ handle' = "none"
  /\ lastCmd' = "none"
  /\ ports' = {}
  /\ seq' \in 0 .. SeqMod - 1
  /\ begun' = NoCommand
  /\ got' = None
  /\ Goto("open")
  /\ UNCHANGED <<attached, dev, call, ret, clock, server, posted>>

\* The result of openKey is not looked at.
Open ==
  /\ At_("open")
  /\ OpenKey
  /\ Goto("begin")
  /\ UNCHANGED <<server, got, posted>>

Send ==
  /\ At_("begin")
  /\ Begin(Hmac(Asked)) \/ BeginRefused(Hmac(Asked))
  /\ Goto(IF ret'.rc = "OK" THEN "wait" ELSE "exit")
  /\ UNCHANGED <<server, got, posted>>

StartWait ==
  /\ At_("wait")
  /\ Wait(ChalWait, TRUE)
  /\ Goto("waiting")
  /\ UNCHANGED <<server, got, posted>>

\* The output has the answer on its second line if the wait succeeded, and a
\* return code where there is none.
WaitOn ==
  /\ At_("waiting")
  /\ PollFails \/ PollIdle \/ PollTouch \/ PollBusy \/ PollResponse \/ SlicesEnd \/ SlicesMore
  /\ IF call' # NoCall THEN UNCHANGED <<prog, got>>
     ELSE /\ Goto(IF ret'.rc = "TIMER_WAIT" THEN "touch" ELSE "exit")
          /\ got' = IF ret'.rc = "OK" THEN ret'.answer.chal ELSE None
  /\ UNCHANGED <<server, posted>>

\* A key pressed on the console aborts; otherwise the wait begins anew.
Touch ==
  /\ At_("touch")
  /\ \/ Goto("wait") /\ UNCHANGED vars
     \/ AbortBegin /\ Goto(IF call' = NoCall THEN "exit" ELSE "abort")
  /\ UNCHANGED <<server, got, posted>>

Abort ==
  /\ At_("abort")
  /\ AbortSend \/ AbortCheck
  /\ IF call' = NoCall THEN Goto("exit") ELSE UNCHANGED prog
  /\ UNCHANGED <<server, got, posted>>

\* With the answer it has read, if any, Main goes on; not if it has ended.
After(answer) ==
  IF prog.alone THEN "over"
  ELSE IF prog.id = Test THEN "fetch"
  ELSE IF answer # None THEN "post" ELSE "over"

\* Its handles are closed with the process; what the key was asked is not undone.
ProcessEnds ==
  /\ handle' = "none"
  /\ begun' = NoCommand
  /\ call' = NoCall
  /\ UNCHANGED <<attached, dev, ports, lastCmd, seq, ret, clock, server, posted>>

\* YkLibTest returns.  (When its first line is not YKLIB_OK Main does not wait
\* for that; YkLibTest only has one more line to print then.)
Exit ==
  /\ At_("exit")
  /\ ProcessEnds
  /\ got' = got
  /\ Goto(After(got))

\* YkLibTest is ended from outside, with nothing written.
Killed ==
  /\ Working
  /\ ProcessEnds
  /\ got' = None
  /\ Goto(After(None))

\* The user closes the console, or an exception (of WebClient) ends Main.
\* GetResponse ends with it, the process it has started does not.
Quit ==
  /\ ~ At_("over") /\ ~ prog.alone
  /\ IF Working THEN prog' = [prog EXCEPT !.alone = TRUE] ELSE Goto("over")
  /\ UNCHANGED <<vars, server, got, posted>>

-----------------------------------------------------------------------------
(* The server *)

\* Decrypt creates a challenge for the member, as one of its loop.
Issue(id) ==
  /\ id \in unasked
  /\ unasked' = unasked \ {id}
  /\ offered' = offered \cup {id}
  /\ UNCHANGED <<vars, client>>

\* RespondToChallenge is called for it by another client of the member.
Withdraw(id) ==
  /\ id \in offered
  /\ offered' = offered \ {id}
  /\ UNCHANGED <<vars, unasked, client>>

InitClient ==
  /\ Init
  /\ prog = [at |-> "over", id |-> Test, alone |-> FALSE]
  /\ got = None
  /\ offered = {}
  /\ unasked = Ids
  /\ posted = {}

Main == \/ Fetch \/ Post
        \/ Spawn \/ Open \/ Send \/ StartWait \/ WaitOn \/ Touch \/ Abort \/ Exit

-----------------------------------------------------------------------------
(* Properties *)

\* What is posted for a challenge is the YubiKey's answer to that challenge,
\* not to one of an earlier run that was ended, timed out or aborted while the
\* key went on working, nor to the test challenge.
PostedIsAnswer == \A p \in posted : p[2] = ChallengeOf[p[1]]

\* Every run of the program ends, though it waits without a timeout for the
\* output of YkLibTest, and YkLibTest as long as the key waits for a touch; and
\* a YkLibTest whose Main has ended comes to its end, too.
RunEnds == ~ At_("over") ~> At_("over")
=============================================================================
