------------------------------- MODULE YkLib -------------------------------
(***************************************************************************)
(* The YubiKey library (MFAYubiCryptClient/YubikeyLib/YkLib30/YkLib.cpp):  *)
(* class CYkLib over the keys plugged into the machine.                    *)
(*                                                                         *)
(* A call that talks to the key once is one action; waitForCompletion and  *)
(* abortPendingRequest, during which the key goes on working, are one      *)
(* action per HID transaction, with their locals in call.  The key is      *)
(* external: it is modelled from what the library expects of it.           *)
(***************************************************************************)
EXTENDS Integers, Sequences, FiniteSets

CONSTANTS
  Keys,        \* YubiKeys
  OldKeys,     \* those with firmware before 2.2
  Challenges,  \* what may be sent as a challenge
  SeqMod,      \* values of a programming sequence number (a byte, 256)
  Slices,      \* feature reports of a response
  Bail,        \* reads after which a response is given up (2 * RESP_ITEM_MASK)
  BailMod,     \* values of the counter of those reads (a byte, 256)
  TickMod,     \* values of GetTickCount (a DWORD, 2^32)
  StartTicks,  \* those at which a wait may begin
  MaxWaits,    \* maxWait arguments
  MaxGap       \* ticks that may pass between two polls of a wait

ASSUME KeysAssumption == OldKeys \subseteq Keys /\ {"none", "dead"} \cap Keys = {}
ASSUME BoundsAssumption ==
  /\ {SeqMod, Slices, Bail, TickMod, MaxGap} \subseteq Nat \ {0}
  /\ BailMod \in Nat /\ Bail + 1 < BailMod
  /\ StartTicks \subseteq 0 .. TickMod - 1
  /\ MaxWaits \subseteq Nat

VARIABLES
  attached,  \* keys that are plugged in
  dev,       \* what each key is doing, its pgmSeq, the fate of its last write
  handle,    \* m_handle: a key, none, or dead (its key was unplugged)
  ports,     \* m_portList
  lastCmd,   \* m_lastCmd: kind of the last command, "none" for 0
  seq,       \* m_seq
     \* history: this process has lost a handle that is still open
  call,      \* the call in progress that has locals
  ret,       \* what the last call returned
  tick,      \* GetTickCount
  waited,    \* history: ticks since the wait in progress began
  begun      \* history: the command the caller is waiting for

library == <<handle, ports, lastCmd, seq>>
clock == <<tick, waited>>
vars == <<attached, dev, library, call, ret, clock, begun>>
-----------------------------------------------------------------------------
(* Commands and the key *)

Command == [kind : {"config", "kill", "ndef", "serial"}, chal : {"none"}]
           \cup [kind : {"challenge"}, chal : Challenges]
NoCommand == [kind |-> "none", chal |-> "none"]

ConfigKinds == {"config", "kill"}     \* SLOT_CONFIG, SLOT_CONFIG2
AnsweredKinds == {"serial", "challenge"}

\* Commands above SLOT_CONFIG2 need version 2.2.
Supported(k, cmd) == cmd.kind \in ConfigKinds \/ k \notin OldKeys

\* The states a key shows in the last byte of a feature report: 0, the write
\* flag, waiting for a touch, or a response of which slices are left.
DeviceState == {"idle", "busy", "touch", "response"}

Device == [state : DeviceState, cmd : Command \cup {NoCommand},
           left : Seq(1 .. Slices), pgmSeq : 0 .. SeqMod - 1, taken : BOOLEAN]

(* A definition whose name ends in an underscore and a word is a faulty    *)
(* variant of the one it precedes: what TLC substitutes to see that a      *)
(* property notices the fault.  Nothing uses it.                           *)

SliceList == [i \in 1 .. Slices |-> i]

NextSeq_NoWrap(s) == s + 1
NextSeq(s) == (s + 1) % SeqMod

Idle(d) == [d EXCEPT !.state = "idle", !.cmd = NoCommand, !.left = <<>>]
Respond(d) == [d EXCEPT !.state = "response", !.left = SliceList]

\* What a key may do next with a command: a write is taken or refused (then
\* its sequence number stays), a question is answered, at once or after a
\* touch that may not come, or not at all (the slot is not configured).
Progress(d) ==
  CASE d.state = "busy" /\ d.cmd.kind = "config" ->
         {[Idle(d) EXCEPT !.pgmSeq = (d.pgmSeq + 1) % SeqMod, !.taken = TRUE],
          [Idle(d) EXCEPT !.taken = FALSE]}
    [] d.state = "busy" /\ d.cmd.kind = "kill" ->
         {[Idle(d) EXCEPT !.pgmSeq = 0, !.taken = TRUE],
          [Idle(d) EXCEPT !.taken = FALSE]}
    [] d.state = "busy" /\ d.cmd.kind = "ndef" ->
         {[Idle(d) EXCEPT !.pgmSeq = (d.pgmSeq + 1) % SeqMod], Idle(d)}
    [] d.state = "busy" /\ d.cmd.kind \in AnsweredKinds ->
         {Respond(d), [d EXCEPT !.state = "touch"], Idle(d)}
    [] d.state = "touch" -> {Respond(d), Idle(d)}
    [] OTHER -> {}

DeviceStep(k) ==
  /\ k \in attached
  /\ \E d \in Progress(dev[k]) : dev' = [dev EXCEPT ![k] = d]
  /\ UNCHANGED <<attached, library, call, ret, clock, begun>>

PlugIn(k) ==
  /\ k \notin attached
  /\ attached' = attached \cup {k}
  /\ UNCHANGED <<dev, library, call, ret, clock, begun>>

Unplug(k) ==
  /\ k \in attached
  /\ attached' = attached \ {k}
  /\ dev' = [dev EXCEPT ![k] = Idle(@)]
  /\ handle' = IF handle = k THEN "dead" ELSE handle
  /\ UNCHANGED <<ports, lastCmd, seq, call, ret, clock, begun>>

\* A read of a feature report takes the next slice of a response with it; a
\* key may give a slice more than once.
AfterRead(d) ==
  IF d.state # "response" THEN {d}
  ELSE {d, IF Len(d.left) = 1 THEN Idle(d) ELSE [d EXCEPT !.left = Tail(@)]}

Reads(d) == dev' = [dev EXCEPT ![handle] = d]

-----------------------------------------------------------------------------
(* Calls *)

NoCall == [at |-> "none"]
Polling(tend, max, resp) == [at |-> "poll", tend |-> tend, max |-> max, resp |-> resp]
Reading(resp, got, bail, of) ==
  [at |-> "slices", resp |-> resp, got |-> got, bail |-> bail, of |-> of]
Aborting == [at |-> "abort"]
Checking == [at |-> "recheck"]

At(step) == call.at = step
Answered(rc, cmd) == ret' = [rc |-> rc, answer |-> cmd] /\ call' = NoCall
Return(rc) == Answered(rc, NoCommand)

Opened == handle # "none"
Alive == handle \in attached

\* closeKey
CloseKey ==
  /\ At("none")
  /\ handle' = "none"
  /\ lastCmd' = "none"
  /\ Return("OK")
  /\ begun' = NoCommand
  /\ UNCHANGED <<attached, dev, ports, seq, clock>>

\* enumPorts opens every keyboard in turn in m_handle, and so leaves it empty;
\* the handle of a key that was open is lost and stays open.  (It returns -1
\* at once when the class cannot be listed.)
EnumPorts ==
  /\ At("none")
  /\ Return("OK")
  /\ \/ /\ ports' = attached
        /\ handle' = "none"
     \/ /\ ports' = {}
        /\ UNCHANGED handle
  /\ UNCHANGED <<attached, dev, lastCmd, seq, clock, begun>>

\* openKey() closes m_handle and takes the only key there is; opening it may
\* fail, and so may the enumeration, whose -1 it takes for a count.
OpenKey ==
  /\ At("none")
  /\ lastCmd' = "none"
  /\ begun' = NoCommand
  /\ \/ ports' = {} /\ handle' = "none" /\ Return("MORE_THAN_ONE")
     \/ /\ ports' = attached
        /\ \/ attached = {} /\ handle' = "none" /\ Return("NO_DEVICE")
           \/ Cardinality(attached) > 1 /\ handle' = "none" /\ Return("MORE_THAN_ONE")
           \/ \E k \in attached : attached = {k} /\ handle' = k /\ Return("OK")
           \/ Cardinality(attached) = 1 /\ handle' = "none" /\ Return("FAILURE")
  /\ UNCHANGED <<attached, dev, seq, clock>>

\* openKey(portIndex) takes a key of the last enumeration, plugged in or not.
OpenPort(k) ==
  /\ At("none")
  /\ k \in ports
  /\ lastCmd' = "none"
  /\ begun' = NoCommand
  /\ \/ k \in attached /\ handle' = k /\ Return("OK")
     \/ handle' = "none" /\ Return("FAILURE")
  /\ UNCHANGED <<attached, dev, ports, seq, clock>>

\* readStatus, and what rawWrite and abortPendingRequest see when they call it.
StatusCode ==
  CASE ~ Opened -> "NOT_OPENED"
    [] Opened /\ ~ Alive -> "FAILURE"
    [] Alive /\ dev[handle].state # "idle" -> "NOT_READY"
    [] OTHER -> "OK"

ReadStatus ==
  /\ At("none")
  /\ Return(StatusCode)
  /\ IF Alive THEN \E d \in AfterRead(dev[handle]) : Reads(d) ELSE UNCHANGED dev
  /\ UNCHANGED <<attached, library, clock, begun>>

-----------------------------------------------------------------------------
(* Starting a command: writeConfigBegin, writeNDEFBegin, readSerialBegin    *)
(* and writeChallengeBegin over rawWrite.  An argument that does not fit is *)
(* refused before anything happens and is not modelled.                     *)

\* The number the callers of rawWrite leave in m_seq, from what it left there;
\* they do so whether or not it succeeded.
Expected_Same(cmd, s) == s
Expected(cmd, s) ==
  CASE cmd.kind \in {"config", "ndef"} -> NextSeq(s)
    [] cmd.kind = "kill" -> 0
    [] OTHER -> s

MayWrite_Always == StatusCode \in {"OK", "NOT_READY"}
MayWrite == StatusCode = "OK"

\* Refused by readStatus or by the firmware check.
BeginRefused(cmd) ==
  /\ At("none")
  /\ \/ ~ MayWrite /\ Return(StatusCode)
     \/ MayWrite /\ ~ Supported(handle, cmd) /\ Return("UNSUPPORTED_FEATURE")
  /\ IF Alive THEN \E d \in AfterRead(dev[handle]) : Reads(d) ELSE UNCHANGED dev
  /\ seq' = Expected(cmd, seq)
  /\ UNCHANGED <<attached, handle, ports, lastCmd, clock, begun>>

\* The frame is written, or one of its reports fails.  A key that is not idle
\* ignores a frame.
Begin(cmd) ==
  /\ At("none")
  /\ MayWrite
  /\ Supported(handle, cmd)
  /\ lastCmd' = cmd.kind
  /\ seq' = Expected(cmd, dev[handle].pgmSeq)
  /\ \/ /\ Return("OK")
        /\ begun' = cmd
        /\ IF dev[handle].state = "idle"
           THEN Reads([dev[handle] EXCEPT !.state = "busy", !.cmd = cmd])
           ELSE UNCHANGED dev
     \/ /\ Return("FAILURE")
        /\ UNCHANGED <<dev, begun>>
  /\ UNCHANGED <<attached, handle, ports, clock>>

-----------------------------------------------------------------------------
(* waitForCompletion(maxWait, respBuffer, respLen, ..); resp tells whether  *)
(* a response is expected.                                                  *)

Wait(maxWait, resp) ==
  /\ At("none")
  /\ \E t \in StartTicks :
       /\ tick' = t
       /\ call' = Polling((t + maxWait) % TickMod, maxWait, resp)
  /\ waited' = 0
  /\ UNCHANGED <<attached, dev, library, ret, begun>>

\* The caller is through with its command when a wait ends for good.
WaitEnds(rc) ==
  /\ Return(rc)
  /\ begun' = NoCommand

PollFails ==
  /\ At("poll") \/ At("slices")
  /\ WaitEnds("FAILURE")
  /\ UNCHANGED <<attached, dev, library, clock>>

SeqRight_Unchecked == TRUE
SeqRight == lastCmd \in ConfigKinds => seq = dev[handle].pgmSeq

PollIdle ==
  /\ At("poll")
  /\ Alive
  /\ dev[handle].state = "idle"
  /\ WaitEnds(CASE call.resp -> "INVALID_RESPONSE"
                [] ~ call.resp /\ ~ SeqRight -> "WRITE_ERROR"
                [] OTHER -> "OK")
  /\ UNCHANGED <<attached, dev, library, clock>>

PollTouch ==
  /\ At("poll")
  /\ Alive
  /\ dev[handle].state = "touch"
  /\ Return("TIMER_WAIT")
  /\ UNCHANGED <<attached, dev, library, clock, begun>>

TimedOut_Exactly(tend) == tick = tend
TimedOut(tend) == tick >= tend

PollBusy ==
  /\ At("poll")
  /\ Alive
  /\ dev[handle].state = "busy"
  /\ IF TimedOut(call.tend)
     THEN Return("PROCESSING") /\ UNCHANGED clock
     ELSE /\ \E gap \in 1 .. MaxGap : tick' = (tick + gap) % TickMod /\ waited' = waited + gap
          /\ UNCHANGED <<call, ret>>
  /\ UNCHANGED <<attached, dev, library, begun>>

\* The first report of a response starts the inner loop, which stores the
\* slice it holds before it reads the next.
PollResponse ==
  /\ At("poll")
  /\ Alive
  /\ dev[handle].state = "response"
  /\ call' = Reading(call.resp, {Head(dev[handle].left)}, 1, dev[handle].cmd)
  /\ \E d \in AfterRead(dev[handle]) : Reads(d)
  /\ UNCHANGED <<attached, library, ret, clock, begun>>

NextBail(bail) == (bail + 1) % BailMod
GivesUp_Never(bail) == FALSE
GivesUp(bail) == bail > Bail

\* Not a response any more: idle ends the loop, anything else is an error.
\* All slices of the expected length must be there, and their checksum right.
SlicesEnd ==
  /\ At("slices")
  /\ Alive
  /\ dev[handle].state # "response"
  /\ IF dev[handle].state = "idle" /\ call.resp /\ call.got = 1 .. Slices
     THEN Answered("OK", call.of) /\ begun' = NoCommand
     ELSE WaitEnds("INVALID_RESPONSE")
  /\ UNCHANGED <<attached, dev, library, clock>>

SlicesMore ==
  /\ At("slices")
  /\ Alive
  /\ dev[handle].state = "response"
  /\ IF GivesUp(NextBail(call.bail))
     THEN /\ Reads(Idle(dev[handle]))
          /\ WaitEnds("INVALID_RESPONSE")
     ELSE /\ call' = [call EXCEPT !.got = @ \cup {Head(dev[handle].left)}, !.bail = NextBail(@)]
          /\ \E d \in AfterRead(dev[handle]) : Reads(d)
          /\ UNCHANGED <<ret, begun>>
  /\ UNCHANGED <<attached, library, clock>>

-----------------------------------------------------------------------------
(* abortPendingRequest *)

AbortBegin ==
  /\ At("none")
  /\ IF StatusCode = "NOT_READY"
     THEN call' = Aborting /\ UNCHANGED <<ret, begun>>
     ELSE Return(StatusCode) /\ begun' = NoCommand
  /\ IF Alive THEN \E d \in AfterRead(dev[handle]) : Reads(d) ELSE UNCHANGED dev
  /\ UNCHANGED <<attached, library, clock>>

\* The dummy write makes the key drop what it is doing.
AbortSend ==
  /\ At("abort")
  /\ \/ /\ Alive
        /\ Reads(Idle(dev[handle]))
        /\ call' = Checking
        /\ UNCHANGED <<ret, begun>>
     \/ /\ Return("FAILURE")
        /\ begun' = NoCommand
        /\ UNCHANGED dev
  /\ UNCHANGED <<attached, library, clock>>

AbortCheck ==
  /\ At("recheck")
  /\ Return(StatusCode)
  /\ begun' = NoCommand
  /\ UNCHANGED <<attached, dev, library, clock>>

-----------------------------------------------------------------------------
\* The constructor leaves m_seq as it finds it.
Init ==
  /\ attached \in SUBSET Keys
  /\ dev \in [Keys -> {[state |-> "idle", cmd |-> NoCommand, left |-> <<>>,
                         pgmSeq |-> s, taken |-> FALSE] : s \in 0 .. SeqMod - 1}]
  /\ handle = "none"
  /\ ports = {}
  /\ lastCmd = "none"
  /\ seq \in 0 .. SeqMod - 1
  /\ call = NoCall
  /\ ret = [rc |-> "OK", answer |-> NoCommand]
  /\ tick = 0
  /\ waited = 0
  /\ begun = NoCommand

World == \E k \in Keys : DeviceStep(k) \/ PlugIn(k) \/ Unplug(k)

\* The rest of a call that has begun.
CallStep ==
  \/ PollFails
  \/ PollIdle
  \/ PollTouch
  \/ PollBusy
  \/ PollResponse
  \/ SlicesEnd
  \/ SlicesMore
  \/ AbortSend
  \/ AbortCheck

\* Any call the class offers.
AnyCall ==
  \/ OpenKey
  \/ \E k \in Keys : OpenPort(k)
  \/ CloseKey
  \/ EnumPorts
  \/ ReadStatus
  \/ \E cmd \in Command : Begin(cmd) \/ BeginRefused(cmd)
  \/ \E maxWait \in MaxWaits, resp \in BOOLEAN : Wait(maxWait, resp)
  \/ AbortBegin

\* The calls of a caller that has at most one command under way and waits for
\* the one it has.
OrderlyCall ==
  \/ OpenKey
  \/ \E k \in Keys : OpenPort(k)
  \/ CloseKey
  \/ EnumPorts
  \/ ReadStatus
  \/ begun = NoCommand /\ \E cmd \in Command : Begin(cmd) \/ BeginRefused(cmd)
  \/ begun # NoCommand /\ \E maxWait \in MaxWaits : Wait(maxWait, begun.kind \in AnsweredKinds)
  \/ AbortBegin

Next == World \/ CallStep \/ AnyCall
Spec == Init /\ [][Next]_vars

NextOrderly == World \/ CallStep \/ OrderlyCall
SpecOrderly == Init /\ [][NextOrderly]_vars /\ WF_vars(CallStep)

\* A caller that also tries to begin a command while the last one is under way,
\* and is refused.
NextImpatient == NextOrderly \/ \E cmd \in Command : BeginRefused(cmd)
SpecImpatient == Init /\ [][NextImpatient]_vars
-----------------------------------------------------------------------------
(* Properties *)

ReturnCodes ==
  {"OK", "FAILURE", "NOT_OPENED", "NO_DEVICE", "MORE_THAN_ONE", "WRITE_ERROR",
   "INVALID_RESPONSE", "NOT_READY", "PROCESSING", "TIMER_WAIT", "UNSUPPORTED_FEATURE"}

CallType ==
  {NoCall, Aborting, Checking}
  \cup [at : {"poll"}, tend : 0 .. TickMod - 1, max : MaxWaits, resp : BOOLEAN]
  \cup [at : {"slices"}, resp : BOOLEAN, got : SUBSET (1 .. Slices),
        bail : 1 .. Bail, of : Command]

\* The values of the library's members, the key and the call's locals; m_seq
\* is a byte, and a response is read at most Bail times.
TypeOK ==
  /\ attached \subseteq Keys
  /\ dev \in [Keys -> Device]
  /\ handle \in Keys \cup {"none", "dead"}
  /\ ports \subseteq Keys
  /\ lastCmd \in {"none"} \cup {cmd.kind : cmd \in Command}
  /\ seq \in 0 .. SeqMod - 1
  /\ call \in CallType
  /\ ret \in [rc : ReturnCodes, answer : Command \cup {NoCommand}]
  /\ tick \in 0 .. TickMod - 1
  /\ waited \in Nat
  /\ begun \in Command \cup {NoCommand}

WaitReturns(rc) == (At("poll") \/ At("slices")) /\ At("none")' /\ ret'.rc = rc

\* The response waitForCompletion delivers is the key's answer to the command
\* the caller began last: never to one it aborted, gave up or was refused.
ReplyIsAnswer ==
  [][WaitReturns("OK") /\ call.resp /\ begun.kind \in AnsweredKinds => ret'.answer = begun]_vars

\* A configuration write that is said to be completed was taken by the key.
\* One that kills a configuration is judged by a number of 0 alone: it was
\* taken, or the key counted 0 before and may have refused it all the same.
WriteConfirmed ==
  [][WaitReturns("OK") /\ begun.kind \in ConfigKinds =>
       dev[handle].taken \/ (begun.kind = "kill" /\ dev[handle].pgmSeq = 0)]_vars

\* A write is reported as an error only if the key refused it.
WriteErrorIsTrue ==
  [][WaitReturns("WRITE_ERROR") => ~ dev[handle].taken]_vars

\* A wait is over once maxWait ticks have passed: the last sleep before that
\* is the only thing that may exceed it.
WaitBounded ==
  At("poll") => waited < call.max + MaxGap

\* Every wait and every abort returns, also if the key repeats a response for
\* ever: only the library's own steps have to be taken.
CallsReturn == ~ At("none") ~> At("none")
-----------------------------------------------------------------------------
(* The inductive invariants behind these properties *)

\* A key that is not idle has a command, one that responds a slice to give.
DeviceRight ==
  \A k \in Keys :
    /\ dev[k].state # "idle" => dev[k].cmd \in Command
    /\ dev[k].state = "response" => dev[k].left # <<>>

\* What the open key is working on, and the response that is being read, is
\* what the caller began last, if it has not given up on it.
CommandRight ==
  begun # NoCommand =>
    /\ handle \in Keys /\ dev[handle].state # "idle" => dev[handle].cmd = begun
    /\ At("slices") => call.of = begun

\* Holds of every caller.
IInv == TypeOK /\ DeviceRight /\ CommandRight

\* A wait is for the command that was begun; a write has no response.
WaitRight ==
  /\ At("poll") => begun # NoCommand
  /\ At("slices") => begun.kind \notin ConfigKinds
  /\ begun # NoCommand /\ handle \in Keys => lastCmd = begun.kind

\* While a write is under way m_seq is what the key will count to; when the key
\* is through with it, whether it counted tells whether it took the write.
WriteRight ==
  begun.kind \in ConfigKinds /\ handle \in Keys /\ ~ At("recheck") =>
    LET d == dev[handle]
        next == IF begun.kind = "kill" THEN 0 ELSE NextSeq(d.pgmSeq)
    IN \/ d.state = "busy" /\ seq = next
       \/ d.state = "idle" /\ seq = IF d.taken THEN d.pgmSeq ELSE next

\* Holds of an orderly caller.
OrderlyInv == IInv /\ WaitRight /\ WriteRight

\* The tick counter does not wrap during a wait.
NoWrap == \A t \in StartTicks, maxWait \in MaxWaits : t + maxWait + MaxGap <= TickMod

\* The clock of a wait runs with the tick counter.
ClockRight ==
  At("poll") => /\ tick + call.max = call.tend + waited
                /\ call.tend + MaxGap <= TickMod
                /\ waited < call.max + MaxGap
=============================================================================
