---------------------------- MODULE AsyncSample ----------------------------
(***************************************************************************)
(* The dialog of AsyncSample (MFAYubiCryptClient/YubikeyLib/AsyncSample):  *)
(* a button that sends one challenge and a 250 ms timer that polls for its *)
(* response, both handlers of one thread's message loop, over one CYkLib.  *)
(* A message box runs a message loop of its own, in which the timer goes   *)
(* on firing while the button is disabled.  KeyUsers runs it.               *)
(***************************************************************************)
EXTENDS YkLib

CONSTANT Sample   \* the challenge the dialog sends

VARIABLES
  pending,  \* m_pending
  box,      \* the message box on screen: "none", "notice" or "busy" (Abort ?)
  handler   \* the handler that is running: "none", "hmac", "abort", "timer"

dialog == <<pending, box, handler>>

Hmac == [kind |-> "challenge", chal |-> Sample]
Loop == handler = "none"

-----------------------------------------------------------------------------
(* OnBnClickedHmac *)

Click ==
  /\ Loop
  /\ box = "none"
  /\ ~ pending
  /\ OpenKey
  /\ IF ret'.rc = "OK" THEN handler' = "hmac" /\ box' = box
                       ELSE handler' = handler /\ box' = "notice"
  /\ pending' = pending

SendChallenge ==
  /\ handler = "hmac"
  /\ Begin(Hmac) \/ BeginRefused(Hmac)
  /\ handler' = "none"
  /\ pending' = (ret'.rc = "OK")
  /\ box' = IF ret'.rc = "OK" THEN "none" ELSE "notice"

ClickWhilePending ==
  /\ Loop
  /\ box = "none"
  /\ pending
  /\ box' = "busy"
  /\ UNCHANGED <<vars, pending, handler>>

Dismiss ==
  /\ Loop
  /\ box # "none"
  /\ box' = "none"
  /\ UNCHANGED <<vars, pending, handler>>

\* Whatever abortPendingRequest returns, and whether or not the timer has
\* meanwhile seen the end of the request.
Yes ==
  /\ Loop
  /\ box = "busy"
  /\ AbortBegin
  /\ box' = "none"
  /\ IF call' = NoCall THEN handler' = "none" /\ pending' = FALSE
                       ELSE handler' = "abort" /\ pending' = pending

Abort ==
  /\ handler = "abort"
  /\ AbortSend \/ AbortCheck
  /\ IF call' = NoCall THEN handler' = "none" /\ pending' = FALSE
                       ELSE UNCHANGED <<handler, pending>>
  /\ box' = box

-----------------------------------------------------------------------------
(* OnTimer *)

(* A definition whose name ends in an underscore and a word is a faulty    *)
(* variant of the one it precedes: what TLC substitutes to see that a      *)
(* property notices the fault.  Nothing uses it.                           *)

MayEnumerate_Always == TRUE
MayEnumerate == ~ pending

TimerIdle ==
  /\ Loop
  /\ MayEnumerate
  /\ EnumPorts
  /\ UNCHANGED dialog

TimerPending ==
  /\ Loop
  /\ pending
  /\ Wait(0, TRUE)
  /\ handler' = "timer"
  /\ UNCHANGED <<pending, box>>

StillPending_UnlessOK(rc) == rc # "OK"
StillPending(rc) == rc \in {"PROCESSING", "TIMER_WAIT"}

Poll ==
  /\ handler = "timer"
  /\ PollFails \/ PollIdle \/ PollTouch \/ PollBusy \/ PollResponse \/ SlicesEnd \/ SlicesMore
  /\ IF call' = NoCall THEN handler' = "none" /\ pending' = StillPending(ret'.rc)
                       ELSE UNCHANGED <<handler, pending>>
  /\ box' = box

-----------------------------------------------------------------------------
Timer == TimerIdle \/ TimerPending \/ Poll
Button == Click \/ SendChallenge \/ ClickWhilePending \/ Dismiss \/ Yes \/ Abort

-----------------------------------------------------------------------------
(* Properties *)

\* While a request is pending its key stays open and the request is the one
\* that was sent: what OnTimer polls is what OnBnClickedHmac began, although
\* the timer goes on firing behind the message box that asks about aborting.
PendingIsUnderWay == pending /\ Loop => Opened /\ begun = Hmac

\* The dialog does not stay pending for ever, whether the key answers, waits
\* in vain for a touch, is unplugged or repeats its response.
PendingEnds == pending ~> ~ pending
=============================================================================
