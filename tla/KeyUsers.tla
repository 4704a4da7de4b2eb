------------------------------- MODULE KeyUsers -------------------------------
(***************************************************************************)
(* One computer with one YubiKey and two programs that use it: the client  *)
(* of a member (UserClient) and the AsyncSample dialog.  Each is a process *)
(* with a CYkLib of its own; what passes from one to the other is the key, *)
(* which goes on with what the last program has left it doing.  They run   *)
(* one after the other.                                                    *)
(***************************************************************************)
EXTENDS UserClient

CONSTANT Sample   \* the challenge the dialog sends

\* The dialog waits with a maxWait of 0.
ASSUME SampleAssumption == Sample \in Challenges /\ 0 \in MaxWaits

VARIABLES
  pending, box, handler,  \* the dialog
  user                    \* the program that runs: "client" or "dialog"

dialog == <<pending, box, handler>>
Dialog == INSTANCE AsyncSample
users == <<all, dialog, user>>

\* A fresh CYkLib, as in Spawn, and OnInitDialog's timer.
OpenDialog ==
  /\ user = "client" /\ At_("over")
  /\ user' = "dialog"
  /\ handle' = "none" /\ lastCmd' = "none" /\ ports' = {}
  /\ seq' \in 0 .. SeqMod - 1
  /\ begun' = NoCommand
  /\ UNCHANGED <<attached, dev, call, ret, clock, server, client, dialog>>

\* The user closes the window between two messages, or ends the process.
CloseDialog ==
  /\ user = "dialog"
  /\ user' = "client"
  /\ ProcessEnds
  /\ pending' = FALSE /\ box' = "none" /\ handler' = "none"
  /\ UNCHANGED client

InitUsers ==
  /\ InitClient
  /\ pending = FALSE /\ box = "none" /\ handler = "none"
  /\ user = "client"

ClientStep == user = "client" /\ (Run \/ Main \/ Quit \/ Killed) /\ UNCHANGED <<dialog, user>>
Timer == user = "dialog" /\ Dialog!Timer /\ UNCHANGED <<server, client, user>>
Button == user = "dialog" /\ Dialog!Button /\ UNCHANGED <<server, client, user>>
Around == UNCHANGED <<server, client, dialog, user>>
KeyWorks == World /\ Around
Issued(id) == Issue(id) /\ UNCHANGED <<dialog, user>>
Withdrawn(id) == Withdraw(id) /\ UNCHANGED <<dialog, user>>

NextUsers ==
  \/ ClientStep \/ Timer \/ Button
  \/ OpenDialog \/ CloseDialog
  \/ KeyWorks
  \/ \E id \in Ids : Issued(id) \/ Withdrawn(id)

\* As for each of the programs: the client and a handler of the dialog run on,
\* the timer fires again and again, a key gets on with its work.
SpecUsers ==
  /\ InitUsers
  /\ [][NextUsers]_users
  /\ WF_users(user = "client" /\ Main /\ UNCHANGED <<dialog, user>>)
  /\ WF_users(Timer)
  /\ WF_users(Button /\ handler \in {"hmac", "abort"})
  /\ \A k \in Keys : WF_users(DeviceStep(k) /\ Around)
-----------------------------------------------------------------------------
(* Properties: those of the two programs, each after any use of the other  *)

\* What OnTimer polls is what OnBnClickedHmac began, whatever the client has
\* left the key doing (AsyncSample).
PendingIsUnderWay == Dialog!PendingIsUnderWay

\* The dialog does not stay pending for ever, whatever the client has left the
\* key doing (AsyncSample).
PendingEnds == Dialog!PendingEnds
=============================================================================
