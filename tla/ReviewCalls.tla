----------------------------- MODULE ReviewCalls -----------------------------
(***************************************************************************)
(* The threads with which the code review extension (codereview.py) talks  *)
(* to the review server: LoadAllCL loads the metadata of every CL of a     *)
(* clone, UploadBaseFiles uploads the base (and current) contents of a     *)
(* patch set.  All go through the one HttpRpcServer of the process, which  *)
(* asks the user for a password when the server no longer accepts its      *)
(* cookie.                                                                 *)
(*                                                                         *)
(* A request is one step; the main thread and the others interleave        *)
(* between requests, prompts and the operations on the semaphore and the   *)
(* lists they share.                                                       *)
(***************************************************************************)
EXTENDS Integers, FiniteSets

CONSTANTS
  Tasks,       \* the CLs to load, or the contents to upload
  Slots,       \* MAX_PARALLEL_UPLOADS
  MaxTries,    \* the denials after which a request is given up: 3
  MaxPrompts,  \* the wrong passwords after which _Authenticate returns: 3
  NoTask

ASSUME TaskAssumption == IsFiniteSet(Tasks) /\ NoTask \notin Tasks
ASSUME LimitAssumption == Slots \in Nat \ {0} /\ MaxTries \in Nat /\ MaxPrompts \in Nat \ {0}

VARIABLES
  mode,           \* what the main thread runs: "load" or "upload"
  main,           \* where the main thread is
  todo,           \* the tasks it has started no thread for
  awaited,        \* the thread it joins
  first,          \* the thread LoadAllCL started first
  active,         \* the lists active, and upload_threads
  finished,       \* the list finished_upload_threads
  sema,           \* the free slots of the semaphore
  thread,         \* by task: where its thread is, and its counters
  authenticated,  \* rpc.authenticated
  cookie,         \* does the server accept the cookie
  expired,        \* history: it has ceased to
  loaded,         \* the CLs LoadAllCL returns
  stored          \* server: the contents that have been uploaded

session == <<authenticated, cookie, expired>>
lists == <<awaited, first, active, finished, sema>>
vars == <<mode, main, todo, lists, thread, session, loaded, stored>>

\* A thread ends "over", or "dead" by an exception (sys.exit is one as well).
Running == {"call", "open", "auth", "answered", "listed"}
Places == {"new", "over", "dead"} \cup Running
In(t, places) == thread[t].at \in places
Ended(t) == In(t, {"over", "dead"})
Alive == {t \in Tasks : In(t, Running)}
Dead == {t \in Tasks : In(t, {"dead"})}
Prompting == {t \in Tasks : In(t, {"auth"})}

Move(t, at) == thread' = [thread EXCEPT ![t].at = at]
Goto(at) == main' = at
-----------------------------------------------------------------------------
(* A thread: one request, until it is answered or fails                    *)

\* Send asks for a password before its first request, MySend for these
\* requests (force_auth=False) only when one is denied.
Call(t) ==
  /\ In(t, {"call"})
  /\ Move(t, IF mode = "upload" /\ ~ authenticated THEN "auth" ELSE "open")
  /\ UNCHANGED <<mode, main, todo, lists, session, loaded, stored>>

Answered(t) ==
  /\ In(t, {"open"})
  /\ cookie
  /\ Move(t, "answered")
  /\ stored' = IF mode = "upload" THEN stored \cup {t} ELSE stored
  /\ UNCHANGED <<mode, main, todo, lists, session, loaded>>

(* A definition whose name ends in an underscore and a word is a faulty    *)
(* variant of the one it precedes: what TLC substitutes to see that a      *)
(* property notices the fault.  Nothing uses it.                           *)

MoreTries_Another(t) == thread[t].tries <= MaxTries
MoreTries(t) == thread[t].tries < MaxTries

Tried_Uncounted(t) == thread[t].tries
Tried(t) == thread[t].tries + 1

\* HTTP 401, or a redirection to the login page
Denied(t) ==
  /\ In(t, {"open"})
  /\ ~ cookie
  /\ thread' = [thread EXCEPT ![t] =
       [@ EXCEPT !.at = IF MoreTries(t) THEN "auth" ELSE "dead",
                 !.tries = Tried(t), !.prompts = 0]]
  /\ UNCHANGED <<mode, main, todo, lists, session, loaded, stored>>

\* "Run MySend1 maybe twice": MySend repeats what ends with HTTP 500, once, be
\* it the request or one of those _Authenticate makes; Send does not.
Retried(t) ==
  /\ mode = "load" /\ ~ thread[t].again
  /\ thread' = [thread EXCEPT ![t] = [@ EXCEPT !.at = "call", !.again = TRUE, !.tries = 0]]

\* Any other error, or an answer that is not "OK".
Failed(t) ==
  /\ In(t, {"open"})
  /\ Retried(t) \/ Move(t, "dead")
  /\ stored' \in {stored} \cup (IF mode = "upload" /\ cookie THEN {stored \cup {t}} ELSE {})
  /\ UNCHANGED <<mode, main, todo, lists, session, loaded>>

\* _Authenticate: the user types a password that is right, or wrong, or for an
\* account that cannot be used; after the latter, or MaxPrompts wrong ones, it
\* returns as if nothing were amiss and the request is sent (again); or an
\* error ends it.
Authenticate(t) ==
  /\ In(t, {"auth"})
  /\ \/ /\ authenticated' = TRUE /\ cookie' = TRUE
        /\ Move(t, "open")
     \/ /\ thread' = [thread EXCEPT ![t] =
             [@ EXCEPT !.at = IF thread[t].prompts + 1 < MaxPrompts THEN "auth" ELSE "open",
                       !.prompts = thread[t].prompts + 1]]
        /\ UNCHANGED <<authenticated, cookie>>
     \/ Move(t, "open") /\ UNCHANGED <<authenticated, cookie>>
     \/ (Retried(t) \/ Move(t, "dead")) /\ UNCHANGED <<authenticated, cookie>>
  /\ UNCHANGED <<mode, main, todo, lists, expired, loaded, stored>>

\* run() of UploadFileThread, after UploadFile: first the list, then the semaphore.
Report(t) ==
  /\ mode = "upload"
  /\ In(t, {"answered"})
  /\ finished' = finished \cup {t}
  /\ Move(t, "listed")
  /\ UNCHANGED <<mode, main, todo, awaited, first, active, sema, session, loaded, stored>>

Release(t) ==
  /\ In(t, {"listed"})
  /\ sema' = sema + 1
  /\ Move(t, "over")
  /\ UNCHANGED <<mode, main, todo, awaited, first, active, finished, session, loaded, stored>>

\* run() of LoadCLThread
LoadEnds(t) ==
  /\ mode = "load"
  /\ In(t, {"answered"})
  /\ Move(t, "over")
  /\ UNCHANGED <<mode, main, todo, lists, session, loaded, stored>>

-----------------------------------------------------------------------------
(* The main thread *)

Start(t) == todo' = todo \ {t} /\ Move(t, "call")

Waits_Never == FALSE
Waits == first = NoTask

\* "first request: wait in case it needs to authenticate otherwise we get lots
\* of user/password prompts running in parallel"
StartLoad(t) ==
  /\ mode = "load" /\ main = "next"
  /\ t \in todo
  /\ Start(t)
  /\ IF Waits THEN first' = t /\ awaited' = t /\ Goto("join") /\ active' = active
     ELSE active' = active \cup {t} /\ UNCHANGED <<main, first, awaited>>
  /\ UNCHANGED <<mode, finished, sema, session, loaded, stored>>

Claim_NoWait == sema' = IF sema > 0 THEN sema - 1 ELSE sema
Claim == sema > 0 /\ sema' = sema - 1

\* StartUploadFile: a slot first, then the threads that have finished are joined.
Acquire ==
  /\ mode = "upload" /\ main = "next"
  /\ todo # {}
  /\ Claim
  /\ Goto("reap")
  /\ UNCHANGED <<mode, todo, awaited, first, active, finished, thread, session, loaded, stored>>

Reap(t) ==
  /\ main = "reap"
  /\ t \in finished
  /\ finished' = finished \ {t}
  /\ active' = active \ {t}
  /\ awaited' = t
  /\ Goto("join")
  /\ UNCHANGED <<mode, todo, first, sema, thread, session, loaded, stored>>

StartUpload(t) ==
  /\ main = "reap"
  /\ finished = {}
  /\ t \in todo
  /\ Start(t)
  /\ active' = active \cup {t}
  /\ Goto("next")
  /\ UNCHANGED <<mode, awaited, first, finished, sema, session, loaded, stored>>

Kept(ts) == {t \in ts : In(t, {"over"})}

Joined ==
  /\ main = "join"
  /\ Ended(awaited)
  /\ loaded' = IF mode = "load" THEN loaded \cup Kept({awaited}) ELSE loaded
  /\ awaited' = NoTask
  /\ Goto(IF mode = "load" THEN "next" ELSE "reap")
  /\ UNCHANGED <<mode, todo, first, active, finished, sema, thread, session, stored>>

AllEnded_Reported == \A t \in active : Ended(t) \/ In(t, {"answered", "listed"})
AllEnded == \A t \in active : Ended(t)

\* The loop over active (WaitForUploads): it ends when all of them have.
Return ==
  /\ main = "next"
  /\ todo = {}
  /\ AllEnded
  /\ loaded' = IF mode = "load" THEN loaded \cup Kept(active) ELSE loaded
  /\ Goto("over")
  /\ UNCHANGED <<mode, todo, lists, thread, session, stored>>

\* The server forgets the session, at any time.
Expire ==
  /\ cookie
  /\ cookie' = FALSE
  /\ expired' = TRUE
  /\ UNCHANGED <<mode, main, todo, lists, thread, authenticated, loaded, stored>>

\* A cookie file from an earlier run counts as authenticated, valid or not.
Init ==
  /\ mode \in {"load", "upload"}
  /\ main = "next"
  /\ todo = Tasks
  /\ awaited = NoTask /\ first = NoTask
  /\ active = {} /\ finished = {}
  /\ sema = Slots
  /\ thread = [t \in Tasks |-> [at |-> "new", tries |-> 0, prompts |-> 0, again |-> FALSE]]
  /\ authenticated \in BOOLEAN
  /\ cookie \in BOOLEAN /\ (cookie => authenticated)
  /\ expired = FALSE
  /\ loaded = {} /\ stored = {}

Thread(t) == \/ Call(t) \/ Answered(t) \/ Denied(t) \/ Failed(t) \/ Authenticate(t)
             \/ Report(t) \/ Release(t) \/ LoadEnds(t)
Main == \/ Acquire \/ Joined \/ Return
        \/ \E t \in Tasks : StartLoad(t) \/ Reap(t) \/ StartUpload(t)

Next == Main \/ (\E t \in Tasks : Thread(t)) \/ Expire

\* Threads run, every request gets an answer or an error, and the user
\* answers every prompt.
Spec == Init /\ [][Next]_vars /\ WF_vars(Main) /\ \A t \in Tasks : WF_vars(Thread(t))
-----------------------------------------------------------------------------
(* Properties *)

TypeOK ==
  /\ mode \in {"load", "upload"}
  /\ main \in {"next", "reap", "join", "over"}
  /\ todo \subseteq Tasks /\ active \subseteq Tasks /\ finished \subseteq Tasks
  /\ awaited \in Tasks \cup {NoTask} /\ first \in Tasks \cup {NoTask}
  /\ sema \in 0 .. Slots
  /\ thread \in [Tasks -> [at: Places, tries: 0 .. MaxTries + 1, prompts: 0 .. MaxPrompts,
                           again: BOOLEAN]]
  /\ authenticated \in BOOLEAN /\ cookie \in BOOLEAN /\ expired \in BOOLEAN
  /\ loaded \subseteq Tasks /\ stored \subseteq Tasks

\* Every slot is free, or held by a thread that runs or by the main thread for
\* the next one, or lost to a thread that died: the semaphore is never
\* released too often (BoundedSemaphore raises then) nor leaks otherwise.
Held == Cardinality(Alive) + (IF main \in {"reap", "join"} THEN 1 ELSE 0)
SlotsAccounted == mode = "upload" => sema + Held + Cardinality(Dead) = Slots

\* When LoadAllCL or UploadBaseFiles returns, a thread has been run for every
\* task, none of them is still running, and what is neither loaded nor stored
\* is what a thread died of.
NothingLeftRunning ==
  main = "over" =>
    /\ \A t \in Tasks : Ended(t)
    /\ Tasks = Dead \cup (IF mode = "load" THEN loaded ELSE stored)

\* Loading CLs does not prompt in parallel, unless the first of them could not
\* be loaded or the server has forgotten the session since.
OnePrompt ==
  /\ mode = "load" /\ ~ expired
  /\ first = NoTask \/ ~ In(first, {"dead"})
  => Cardinality(Prompting) <= 1

\* The command goes on in the end, however requests fail, passwords are wrong
\* and sessions expire -- unless uploads have failed as often as there are
\* slots: the semaphore is released by a thread that succeeds only, and the
\* main thread waits for it for ever.  Loading has no semaphore to wait for.
Returns == <>(main = "over" \/ (mode = "upload" /\ Cardinality(Dead) = Slots))
=============================================================================
