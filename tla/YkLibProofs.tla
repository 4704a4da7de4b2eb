---------------------------- MODULE YkLibProofs ----------------------------
(***************************************************************************)
(* Theorems about YkLib, for any keys, challenges, counters and waits.     *)
(*                                                                         *)
(* Of any caller: type correctness, and that a response is the answer to   *)
(* the command begun last.  Of an orderly caller: that a write is reported *)
(* as what became of it, if sequence numbers have more than one value, and *)
(* as long as the tick counter does not wrap that a wait ends in time.     *)
(***************************************************************************)
EXTENDS YkLib, SequenceTheorems, TLAPS

\* A key as DeviceRight wants it.
Right(d) ==
  /\ d \in Device
  /\ d.state # "idle" => d.cmd \in Command
  /\ d.state = "response" => d.left # <<>>

\* What the key works on in e it worked on in d.
SameWork(d, e) == e.state # "idle" => d.state # "idle" /\ e.cmd = d.cmd

-----------------------------------------------------------------------------
\* The kinds of a command and what it is not.
LEMMA CommandFacts ==
  /\ NoCommand \notin Command
  /\ \A cmd \in Command : cmd.kind \in {"config", "kill", "ndef", "serial", "challenge"}
BY DEF Command, NoCommand

\* A key that drops its command is as it should be.
LEMMA IdleRight ==
  ASSUME NEW d, Right(d)
  PROVE  /\ Right(Idle(d))
         /\ SameWork(d, Idle(d))
         /\ Idle(d).state = "idle"
         /\ Idle(d).taken = d.taken
         /\ Idle(d).pgmSeq = d.pgmSeq
<1>1. d \in Device
  BY DEF Right
<1>2. NoCommand \in Command \cup {NoCommand} /\ <<>> \in Seq(1 .. Slices) /\ "idle" \in DeviceState
  BY DEF DeviceState
<1>3. Idle(d) \in Device
  BY <1>1, <1>2 DEF Idle, Device
<1>4. /\ Idle(d).state = "idle"
      /\ Idle(d).taken = d.taken
      /\ Idle(d).pgmSeq = d.pgmSeq
  BY <1>1 DEF Idle, Device
<1> QED
  BY <1>3, <1>4 DEF Right, SameWork

\* Sequence numbers stay below SeqMod.
LEMMA NextSeqType ==
  ASSUME NEW s \in 0 .. SeqMod - 1
  PROVE  NextSeq(s) \in 0 .. SeqMod - 1
BY BoundsAssumption DEF NextSeq

\* A read of a report leaves the key as it should be, working on the same.
LEMMA AfterReadRight ==
  ASSUME NEW d, Right(d), NEW e \in AfterRead(d)
  PROVE  Right(e) /\ SameWork(d, e) /\ (d.state # "response" => e = d)
<1>1. CASE e = d
  BY <1>1 DEF SameWork
<1>2. CASE e # d
  <2>1. d.state = "response" /\ e = IF Len(d.left) = 1 THEN Idle(d) ELSE [d EXCEPT !.left = Tail(@)]
    BY <1>2 DEF AfterRead
  <2>2. CASE Len(d.left) = 1
    BY <2>1, <2>2, IdleRight
  <2>3. CASE Len(d.left) # 1
    <3>1. e = [d EXCEPT !.left = Tail(@)]
      BY <2>1, <2>3
    <3>2. d \in Device /\ d.left \in Seq(1 .. Slices) /\ d.left # <<>>
      BY <2>1 DEF Right, Device
    <3>3. Tail(d.left) \in Seq(1 .. Slices) /\ Tail(d.left) # <<>>
      <4>1. Tail(d.left) \in Seq(1 .. Slices) /\ Len(Tail(d.left)) = Len(d.left) - 1
        BY <3>2, HeadTailProperties
      <4>2. Len(<<>>) = 0
        BY EmptySeq
      <4>3. Len(d.left) \in Nat
        BY <3>2
      <4>4. Len(Tail(d.left)) # 0
        BY <2>3, <4>1, <4>3
      <4>5. Tail(d.left) # <<>>
        BY <4>2, <4>4, Zenon
      <4> QED
        BY <4>1, <4>5
    <3>4. e \in Device
      BY <3>1, <3>2, <3>3 DEF Device
    <3>5. e.state = d.state /\ e.cmd = d.cmd /\ e.left = Tail(d.left)
      BY <3>1, <3>2 DEF Device
    <3> QED
      BY <2>1, <3>3, <3>4, <3>5 DEF Right, SameWork
  <2> QED
    BY <2>2, <2>3
<1> QED
  BY <1>1, <1>2

\* A response that begins has a slice to give.
LEMMA RespondRight ==
  ASSUME NEW d, Right(d), d.state # "idle"
  PROVE  Right(Respond(d)) /\ SameWork(d, Respond(d)) /\ Respond(d).state = "response"
<1>1. SliceList \in Seq(1 .. Slices) /\ SliceList # <<>>
  <2>1. Slices \in Nat \ {0}
    BY BoundsAssumption
  <2>2. SliceList \in [1 .. Slices -> 1 .. Slices]
    BY DEF SliceList
  <2>3. SliceList \in Seq(1 .. Slices) /\ Len(SliceList) = Slices
    BY <2>1, <2>2
  <2> QED
    BY <2>1, <2>3
<1>2. Respond(d) \in Device
  BY <1>1 DEF Respond, Right, Device, DeviceState
<1> QED
  BY <1>1, <1>2 DEF Right, SameWork, Respond, Device

\* So does whatever a key may do next with its command.
LEMMA ProgressRight ==
  ASSUME NEW d, Right(d), NEW e \in Progress(d)
  PROVE  Right(e) /\ SameWork(d, e)
<1>1. d \in Device /\ d.pgmSeq \in 0 .. SeqMod - 1 /\ d.state \in DeviceState
  BY DEF Right, Device
<1>2. Right(Idle(d)) /\ SameWork(d, Idle(d)) /\ Idle(d) \in Device /\ Idle(d).state = "idle"
  BY IdleRight DEF Right
<1>3. ASSUME NEW s \in 0 .. SeqMod - 1, NEW b \in BOOLEAN
      PROVE  /\ Right([Idle(d) EXCEPT !.pgmSeq = s, !.taken = b])
             /\ SameWork(d, [Idle(d) EXCEPT !.pgmSeq = s, !.taken = b])
  BY <1>2 DEF Right, SameWork, Device
<1>4. ASSUME NEW s \in 0 .. SeqMod - 1
      PROVE  /\ Right([Idle(d) EXCEPT !.pgmSeq = s])
             /\ SameWork(d, [Idle(d) EXCEPT !.pgmSeq = s])
  BY <1>2 DEF Right, SameWork, Device
<1>5. ASSUME NEW b \in BOOLEAN
      PROVE  /\ Right([Idle(d) EXCEPT !.taken = b])
             /\ SameWork(d, [Idle(d) EXCEPT !.taken = b])
  BY <1>2 DEF Right, SameWork, Device
<1>6. (d.pgmSeq + 1) % SeqMod \in 0 .. SeqMod - 1 /\ 0 \in 0 .. SeqMod - 1
  BY <1>1, BoundsAssumption
<1>7. d.state # "idle" => /\ Right(Respond(d)) /\ SameWork(d, Respond(d))
  BY RespondRight
<1>8. d.state = "busy" => /\ Right([d EXCEPT !.state = "touch"])
                          /\ SameWork(d, [d EXCEPT !.state = "touch"])
  BY <1>1 DEF Right, SameWork, Device, DeviceState
<1>9. CASE d.state = "busy" /\ d.cmd.kind = "config"
  <2>1. e \in {[Idle(d) EXCEPT !.pgmSeq = (d.pgmSeq + 1) % SeqMod, !.taken = TRUE],
               [Idle(d) EXCEPT !.taken = FALSE]}
    BY <1>9 DEF Progress, AnsweredKinds
  <2> QED
    BY <2>1, <1>3, <1>5, <1>6
<1>10. CASE d.state = "busy" /\ d.cmd.kind = "kill"
  <2>1. e \in {[Idle(d) EXCEPT !.pgmSeq = 0, !.taken = TRUE], [Idle(d) EXCEPT !.taken = FALSE]}
    BY <1>10 DEF Progress, AnsweredKinds
  <2> QED
    BY <2>1, <1>3, <1>5, <1>6
<1>11. CASE d.state = "busy" /\ d.cmd.kind = "ndef"
  <2>1. e \in {[Idle(d) EXCEPT !.pgmSeq = (d.pgmSeq + 1) % SeqMod], Idle(d)}
    BY <1>11 DEF Progress, AnsweredKinds
  <2> QED
    BY <2>1, <1>2, <1>4, <1>6
<1>12. CASE d.state = "busy" /\ d.cmd.kind \in AnsweredKinds
  BY <1>2, <1>7, <1>8, <1>12 DEF Progress, AnsweredKinds
<1>13. CASE d.state = "touch"
  BY <1>2, <1>7, <1>13 DEF Progress
<1>14. CASE d.state \notin {"busy", "touch"}
  BY <1>14 DEF Progress
<1>15. d.state = "busy" => d.cmd.kind \in {"config", "kill", "ndef"} \cup AnsweredKinds
  BY CommandFacts DEF Right, AnsweredKinds
<1> QED
  BY <1>9, <1>10, <1>11, <1>12, <1>13, <1>14, <1>15
-----------------------------------------------------------------------------
(* The invariant of every caller *)

LEMMA KeysRight ==
  ASSUME IInv
  PROVE  \A k \in Keys : Right(dev[k])
BY DEF IInv, TypeOK, DeviceRight, Right

\* Changing one key for one that is right.
LEMMA OneKey ==
  ASSUME IInv, NEW k \in Keys, NEW d, Right(d), dev' = [dev EXCEPT ![k] = d]
  PROVE  /\ dev' \in [Keys -> Device]
         /\ DeviceRight'
         /\ dev'[k] = d
         /\ \A j \in Keys \ {k} : dev'[j] = dev[j]
BY DEF IInv, TypeOK, DeviceRight, Right

\* A report that is read or a command that is dropped keeps the invariant
\* of the keys and what the open key is working on.
LEMMA ReadsOne ==
  ASSUME IInv, Alive, NEW d, Right(d), SameWork(dev[handle], d), Reads(d)
  PROVE  /\ dev' \in [Keys -> Device]
         /\ DeviceRight'
         /\ dev'[handle].state # "idle" =>
              dev[handle].state # "idle" /\ dev'[handle].cmd = dev[handle].cmd
<1>1. handle \in Keys
  BY DEF IInv, TypeOK, Alive
<1>2. dev'[handle] = d
  BY <1>1, OneKey DEF Reads
<1> QED
  BY <1>1, <1>2, OneKey DEF Reads, SameWork

LEMMA ReadKeeps ==
  ASSUME IInv, IF Alive THEN \E d \in AfterRead(dev[handle]) : Reads(d) ELSE UNCHANGED dev
  PROVE  /\ dev' \in [Keys -> Device]
         /\ DeviceRight'
         /\ handle \in Keys /\ dev'[handle].state # "idle" =>
              dev[handle].state # "idle" /\ dev'[handle].cmd = dev[handle].cmd
<1>1. CASE Alive
  <2>1. PICK d \in AfterRead(dev[handle]) : Reads(d)
    BY <1>1
  <2>2. Right(dev[handle])
    BY <1>1, KeysRight DEF Alive, IInv, TypeOK
  <2>3. Right(d) /\ SameWork(dev[handle], d)
    BY <2>2, AfterReadRight
  <2> QED
    BY <1>1, <2>1, <2>3, ReadsOne
<1>2. CASE ~ Alive
  BY <1>2 DEF IInv, TypeOK, DeviceRight
<1> QED
  BY <1>1, <1>2

\* The invariant holds at the start.
LEMMA InitIInv == Init => IInv
<1> SUFFICES ASSUME Init PROVE IInv
  OBVIOUS
<1>1. <<>> \in Seq(1 .. Slices) /\ NoCommand \in Command \cup {NoCommand}
  OBVIOUS
<1>2. \A k \in Keys : dev[k] \in Device
  <2> TAKE k \in Keys
  <2>1. PICK s \in 0 .. SeqMod - 1 :
          dev[k] = [state |-> "idle", cmd |-> NoCommand, left |-> <<>>, pgmSeq |-> s, taken |-> FALSE]
    BY DEF Init
  <2> QED
    BY <1>1, <2>1 DEF Device, DeviceState
<1>3. TypeOK
  <2>1. dev \in [Keys -> Device]
    BY <1>2 DEF Init
  <2>2. tick \in 0 .. TickMod - 1 /\ waited \in Nat
    BY BoundsAssumption DEF Init
  <2>3. call \in CallType
    BY DEF Init, CallType
  <2>4. ret \in [rc : ReturnCodes, answer : Command \cup {NoCommand}]
    BY <1>1 DEF Init, ReturnCodes
  <2> QED
    BY <1>1, <2>1, <2>2, <2>3, <2>4 DEF Init, TypeOK
<1>4. DeviceRight
  BY DEF Init, DeviceRight
<1>5. CommandRight
  BY DEF Init, CommandRight
<1> QED
  BY <1>3, <1>4, <1>5 DEF IInv

\* The world: keys work on, come and go.
LEMMA WorldKeeps ==
  ASSUME IInv, World
  PROVE  IInv'
<1> USE DEF IInv
<1>1. ASSUME NEW k \in Keys, DeviceStep(k)
      PROVE  IInv'
  <2>1. PICK d \in Progress(dev[k]) : dev' = [dev EXCEPT ![k] = d]
    BY <1>1 DEF DeviceStep
  <2>2. Right(d) /\ SameWork(dev[k], d)
    BY KeysRight, ProgressRight
  <2>3. dev' \in [Keys -> Device] /\ DeviceRight' /\ dev'[k] = d /\ \A j \in Keys \ {k} : dev'[j] = dev[j]
    BY <2>1, <2>2, OneKey
  <2>4. TypeOK'
    BY <1>1, <2>3 DEF DeviceStep, TypeOK, library, clock
  <2>5. CommandRight'
    BY <1>1, <2>2, <2>3 DEF DeviceStep, CommandRight, SameWork, library, At
  <2> QED
    BY <2>3, <2>4, <2>5
<1>2. ASSUME NEW k \in Keys, PlugIn(k)
      PROVE  IInv'
  BY <1>2 DEF PlugIn, TypeOK, DeviceRight, CommandRight, library, clock, At
<1>3. ASSUME NEW k \in Keys, Unplug(k)
      PROVE  IInv'
  <2>1. Right(Idle(dev[k])) /\ SameWork(dev[k], Idle(dev[k]))
    BY KeysRight, IdleRight
  <2>2. dev' = [dev EXCEPT ![k] = Idle(dev[k])]
    BY <1>3 DEF Unplug, TypeOK
  <2>3. dev' \in [Keys -> Device] /\ DeviceRight' /\ \A j \in Keys \ {k} : dev'[j] = dev[j]
    BY <2>1, <2>2, OneKey
  <2>4. TypeOK'
    BY <1>3, <2>3 DEF Unplug, TypeOK, clock
  <2>5. handle' \in Keys => handle' = handle /\ handle # k
    BY <1>3, KeysAssumption DEF Unplug
  <2>6. CommandRight'
    BY <1>3, <2>3, <2>5 DEF Unplug, CommandRight, At
  <2> QED
    BY <2>3, <2>4, <2>6
<1> QED
  BY <1>1, <1>2, <1>3 DEF World

\* Calls that open, close or enumerate: no command is under way after them,
\* or nothing has happened to it.
LEMMA OpeningKeeps ==
  ASSUME IInv, CloseKey \/ EnumPorts \/ OpenKey \/ \E k \in Keys : OpenPort(k)
  PROVE  IInv'
<1> USE DEF IInv
<1>1. DeviceRight'
  BY DEF CloseKey, EnumPorts, OpenKey, OpenPort, DeviceRight
<1>2. CASE CloseKey
  <2>1. TypeOK'
    BY <1>2 DEF CloseKey, TypeOK, Return, Answered, clock, CallType, ReturnCodes
  <2> QED
    BY <1>1, <1>2, <2>1 DEF CloseKey, CommandRight
<1>3. CASE EnumPorts
  <2>1. TypeOK'
    BY <1>3 DEF EnumPorts, TypeOK, Return, Answered, clock, CallType, ReturnCodes
  <2>2. CommandRight'
    BY <1>3, KeysAssumption DEF EnumPorts, CommandRight, Return, Answered, NoCall, At
  <2> QED
    BY <1>1, <2>1, <2>2
<1>4. CASE OpenKey
  <2>1. TypeOK'
    BY <1>4 DEF OpenKey, TypeOK, Return, Answered, clock, CallType, ReturnCodes
  <2> QED
    BY <1>1, <1>4, <2>1 DEF OpenKey, CommandRight
<1>5. ASSUME NEW k \in Keys, OpenPort(k)
      PROVE  IInv'
  <2>1. TypeOK'
    BY <1>5 DEF OpenPort, TypeOK, Return, Answered, clock, CallType, ReturnCodes
  <2> QED
    BY <1>1, <1>5, <2>1 DEF OpenPort, CommandRight
<1> QED
  BY <1>2, <1>3, <1>4, <1>5

\* What a call that returns leaves.
LEMMA ReturnRight ==
  ASSUME NEW rc \in ReturnCodes, NEW cmd \in Command \cup {NoCommand}, Answered(rc, cmd)
  PROVE  /\ call' \in CallType
         /\ ret' \in [rc : ReturnCodes, answer : Command \cup {NoCommand}]
         /\ At("none")'
         /\ ret'.rc = rc
         /\ ret'.answer = cmd
BY DEF Answered, CallType, NoCall, At

\* The codes of readStatus; a command may be written to an idle key only.
LEMMA StatusRight ==
  ASSUME IInv
  PROVE  /\ StatusCode \in {"NOT_OPENED", "FAILURE", "NOT_READY", "OK"}
         /\ StatusCode \in ReturnCodes
         /\ StatusCode = "OK" => Alive /\ handle \in Keys /\ dev[handle].state = "idle"
BY DEF StatusCode, Opened, Alive, ReturnCodes, IInv, TypeOK

\* The numbers the callers of rawWrite leave are bytes.
LEMMA ExpectedType ==
  ASSUME NEW cmd, NEW s \in 0 .. SeqMod - 1
  PROVE  Expected(cmd, s) \in 0 .. SeqMod - 1
BY NextSeqType, BoundsAssumption DEF Expected

\* A call that returns at once, with the key read at most.
LEMMA StatusKeeps ==
  ASSUME IInv, ReadStatus
  PROVE  IInv'
<1>1. /\ dev' \in [Keys -> Device]
      /\ DeviceRight'
      /\ handle \in Keys /\ dev'[handle].state # "idle" =>
           dev[handle].state # "idle" /\ dev'[handle].cmd = dev[handle].cmd
  BY ReadKeeps DEF ReadStatus
<1>2. /\ call' \in CallType
      /\ ret' \in [rc : ReturnCodes, answer : Command \cup {NoCommand}]
      /\ At("none")'
  BY StatusRight, ReturnRight DEF ReadStatus, Return
<1>3. TypeOK'
  BY <1>1, <1>2 DEF ReadStatus, IInv, TypeOK, library, clock
<1>4. CommandRight'
  BY <1>1, <1>2 DEF ReadStatus, IInv, CommandRight, library, At
<1> QED
  BY <1>1, <1>3, <1>4 DEF IInv

\* A command that is refused, or whose frame is written or not.
LEMMA BeginKeeps ==
  ASSUME IInv, NEW cmd \in Command, BeginRefused(cmd) \/ Begin(cmd)
  PROVE  IInv'
<1>1. CASE BeginRefused(cmd)
  <2>1. /\ dev' \in [Keys -> Device]
        /\ DeviceRight'
        /\ handle \in Keys /\ dev'[handle].state # "idle" =>
             dev[handle].state # "idle" /\ dev'[handle].cmd = dev[handle].cmd
    BY <1>1, ReadKeeps DEF BeginRefused
  <2>2. /\ call' \in CallType
        /\ ret' \in [rc : ReturnCodes, answer : Command \cup {NoCommand}]
        /\ At("none")'
    <3>1. PICK rc \in ReturnCodes : Return(rc)
      BY <1>1, StatusRight DEF BeginRefused, ReturnCodes
    <3> QED
      BY <3>1, ReturnRight DEF Return
  <2>3. seq' \in 0 .. SeqMod - 1
    BY <1>1, ExpectedType DEF BeginRefused, IInv, TypeOK
  <2>4. TypeOK'
    BY <1>1, <2>1, <2>2, <2>3 DEF BeginRefused, IInv, TypeOK, clock
  <2>5. CommandRight'
    BY <1>1, <2>1, <2>2 DEF BeginRefused, IInv, CommandRight, At
  <2> QED
    BY <2>1, <2>4, <2>5 DEF IInv
<1>2. CASE Begin(cmd)
  <2>1. Alive /\ handle \in Keys /\ dev[handle].state = "idle" /\ dev[handle] \in Device
    BY <1>2, StatusRight DEF Begin, MayWrite, IInv, TypeOK
  <2>2. seq' \in 0 .. SeqMod - 1
    BY <1>2, <2>1, ExpectedType DEF Begin, Device
  <2>3. /\ call' \in CallType
        /\ ret' \in [rc : ReturnCodes, answer : Command \cup {NoCommand}]
        /\ At("none")'
    <3>1. PICK rc \in ReturnCodes : Return(rc)
      BY <1>2 DEF Begin, ReturnCodes
    <3> QED
      BY <3>1, ReturnRight DEF Return
  <2>4. lastCmd' \in {"none"} \cup {c.kind : c \in Command}
    BY <1>2 DEF Begin
  <2>5. CASE UNCHANGED <<dev, begun>>
    <3>1. TypeOK'
      BY <1>2, <2>2, <2>3, <2>4, <2>5 DEF Begin, IInv, TypeOK, clock
    <3> QED
      BY <1>2, <2>3, <2>5, <3>1 DEF Begin, IInv, DeviceRight, CommandRight, At
  <2>6. CASE begun' = cmd /\ Reads([dev[handle] EXCEPT !.state = "busy", !.cmd = cmd])
    <3> DEFINE d == [dev[handle] EXCEPT !.state = "busy", !.cmd = cmd]
    <3>1. d.state = "busy" /\ d.cmd = cmd /\ d \in Device
      BY <2>1 DEF Device, DeviceState
    <3>2. Right(d)
      BY <3>1 DEF Right
    <3>3. dev' \in [Keys -> Device] /\ DeviceRight' /\ dev'[handle] = d
      BY <2>1, <2>6, <3>2, OneKey DEF Reads
    <3>4. TypeOK'
      BY <1>2, <2>2, <2>3, <2>4, <2>6, <3>3 DEF Begin, IInv, TypeOK, clock
    <3>5. CommandRight'
      BY <1>2, <2>3, <2>6, <3>1, <3>3 DEF Begin, CommandRight, At
    <3> QED
      BY <3>3, <3>4, <3>5 DEF IInv
  <2> QED
    BY <1>2, <2>1, <2>5, <2>6 DEF Begin
<1> QED
  BY <1>1, <1>2

\* A wait begins.
LEMMA WaitKeeps ==
  ASSUME IInv, NEW maxWait \in MaxWaits, NEW resp \in BOOLEAN, Wait(maxWait, resp)
  PROVE  IInv'
<1>1. PICK t \in StartTicks : tick' = t /\ call' = Polling((t + maxWait) % TickMod, maxWait, resp)
  BY DEF Wait
<1>2. t \in 0 .. TickMod - 1 /\ (t + maxWait) % TickMod \in 0 .. TickMod - 1
  BY BoundsAssumption
<1>3. call' \in CallType /\ call'.at = "poll"
  BY <1>1, <1>2 DEF Polling, CallType
<1>4. TypeOK'
  BY <1>1, <1>2, <1>3 DEF Wait, IInv, TypeOK, library
<1> QED
  BY <1>3, <1>4 DEF Wait, IInv, DeviceRight, CommandRight, library, At

\* A wait that ends, or returns for the caller to wait again, and the key is
\* not read or has no more to give.
LEMMA ReturnKeeps ==
  ASSUME IInv, NEW rc \in ReturnCodes, NEW cmd \in Command \cup {NoCommand}, Answered(rc, cmd),
         begun' \in {begun, NoCommand}, UNCHANGED <<attached, dev, library, clock>>
  PROVE  IInv'
<1>1. /\ call' \in CallType
      /\ ret' \in [rc : ReturnCodes, answer : Command \cup {NoCommand}]
      /\ At("none")'
  BY ReturnRight
<1>2. TypeOK'
  BY <1>1 DEF IInv, TypeOK, library, clock
<1> QED
  BY <1>1, <1>2 DEF IInv, DeviceRight, CommandRight, library, At

\* A wait looks at the key again.
LEMMA PollKeeps ==
  ASSUME IInv, PollFails \/ PollIdle \/ PollTouch \/ PollBusy
  PROVE  IInv'
<1>1. NoCommand \in Command \cup {NoCommand}
  OBVIOUS
<1>2. CASE PollFails
  BY <1>1, <1>2, ReturnKeeps DEF PollFails, WaitEnds, Return, ReturnCodes
<1>3. CASE PollIdle
  <2>1. PICK rc \in ReturnCodes : WaitEnds(rc)
    BY <1>3 DEF PollIdle, ReturnCodes
  <2> QED
    BY <1>1, <1>3, <2>1, ReturnKeeps DEF PollIdle, WaitEnds, Return
<1>4. CASE PollTouch
  BY <1>1, <1>4, ReturnKeeps DEF PollTouch, Return, ReturnCodes
<1>5. CASE PollBusy
  <2>1. CASE TimedOut(call.tend)
    BY <1>1, <1>5, <2>1, ReturnKeeps DEF PollBusy, Return, ReturnCodes
  <2>2. CASE ~ TimedOut(call.tend)
    <3>1. PICK gap \in 1 .. MaxGap : tick' = (tick + gap) % TickMod /\ waited' = waited + gap
      BY <1>5, <2>2 DEF PollBusy
    <3>2. tick' \in 0 .. TickMod - 1 /\ waited' \in Nat
      BY <3>1, BoundsAssumption DEF IInv, TypeOK
    <3>3. TypeOK'
      BY <1>5, <2>2, <3>2 DEF PollBusy, IInv, TypeOK, library
    <3> QED
      BY <1>5, <2>2, <3>3 DEF PollBusy, IInv, DeviceRight, CommandRight, library, At
  <2> QED
    BY <2>1, <2>2
<1> QED
  BY <1>2, <1>3, <1>4, <1>5

\* The counter of the reads of a response does not wrap before it is given up.
LEMMA BailRight ==
  ASSUME NEW bail \in 1 .. Bail
  PROVE  /\ NextBail(bail) = bail + 1
         /\ ~ GivesUp(NextBail(bail)) => NextBail(bail) \in 1 .. Bail
BY BoundsAssumption DEF NextBail, GivesUp

\* What a call that reads slices has in its locals.
LEMMA ReadingType ==
  ASSUME call \in CallType, At("slices")
  PROVE  /\ call \in [at : {"slices"}, resp : BOOLEAN, got : SUBSET (1 .. Slices),
                      bail : 1 .. Bail, of : Command]
         /\ call.of \in Command
         /\ call.bail \in 1 .. Bail
BY DEF CallType, At, NoCall, Aborting, Checking

\* A response begins, goes on and ends.
LEMMA SlicesKeep ==
  ASSUME IInv, PollResponse \/ SlicesEnd \/ SlicesMore
  PROVE  IInv'
<1>1. Alive => handle \in Keys /\ Right(dev[handle]) /\ dev[handle] \in Device
  BY KeysRight DEF Alive, IInv, TypeOK, Right
<1>2. ASSUME Alive, dev[handle].state = "response"
      PROVE  Head(dev[handle].left) \in 1 .. Slices
  <2>1. dev[handle].left \in Seq(1 .. Slices) /\ dev[handle].left # <<>>
    BY <1>1, <1>2 DEF Right, Device
  <2> QED
    BY <2>1, HeadTailProperties
<1>3. CASE PollResponse
  <2>1. Alive /\ handle \in Keys /\ dev[handle].state = "response"
    BY <1>1, <1>3 DEF PollResponse
  <2>2. /\ dev' \in [Keys -> Device]
        /\ DeviceRight'
        /\ dev'[handle].state # "idle" => dev'[handle].cmd = dev[handle].cmd
    BY <1>3, <2>1, ReadKeeps DEF PollResponse
  <2>3. call.resp \in BOOLEAN
    BY <1>3 DEF PollResponse, At, IInv, TypeOK, CallType, NoCall, Aborting, Checking
  <2>4. dev[handle].cmd \in Command
    BY <1>1, <2>1 DEF Right
  <2>5. 1 \in 1 .. Bail /\ {Head(dev[handle].left)} \in SUBSET (1 .. Slices)
    BY <1>2, <2>1, BoundsAssumption
  <2>6. call' \in CallType /\ call'.of = dev[handle].cmd
    BY <1>3, <2>3, <2>4, <2>5 DEF PollResponse, Reading, CallType
  <2>7. TypeOK'
    BY <1>3, <2>2, <2>6 DEF PollResponse, IInv, TypeOK, library, clock
  <2>8. CommandRight'
    BY <1>3, <2>1, <2>2, <2>6 DEF PollResponse, IInv, CommandRight, library
  <2> QED
    BY <2>2, <2>7, <2>8 DEF IInv
<1>4. CASE SlicesEnd
  <2>1. call.of \in Command
    BY <1>4, ReadingType DEF SlicesEnd, IInv, TypeOK
  <2>2. PICK rc \in ReturnCodes, cmd \in Command \cup {NoCommand} :
          Answered(rc, cmd) /\ begun' = NoCommand
    BY <1>4, <2>1 DEF SlicesEnd, WaitEnds, Return, ReturnCodes
  <2> QED
    BY <1>4, <2>2, ReturnKeeps DEF SlicesEnd
<1>5. CASE SlicesMore
  <2>1. Alive /\ handle \in Keys /\ dev[handle].state = "response"
    BY <1>1, <1>5 DEF SlicesMore
  <2>2. CASE GivesUp(NextBail(call.bail))
    <3>1. Right(Idle(dev[handle])) /\ SameWork(dev[handle], Idle(dev[handle]))
      BY <1>1, <2>1, IdleRight
    <3>2. dev' \in [Keys -> Device] /\ DeviceRight'
      BY <1>5, <2>1, <2>2, <3>1, ReadsOne DEF SlicesMore
    <3>3. /\ call' \in CallType
          /\ ret' \in [rc : ReturnCodes, answer : Command \cup {NoCommand}]
      BY <1>5, <2>2, ReturnRight DEF SlicesMore, WaitEnds, Return, ReturnCodes
    <3>4. begun' = NoCommand
      BY <1>5, <2>2 DEF SlicesMore, WaitEnds
    <3>5. TypeOK'
      BY <1>5, <3>2, <3>3, <3>4 DEF SlicesMore, IInv, TypeOK, library, clock
    <3> QED
      BY <3>2, <3>4, <3>5 DEF IInv, CommandRight
  <2>3. CASE ~ GivesUp(NextBail(call.bail))
    <3>1. /\ dev' \in [Keys -> Device]
          /\ DeviceRight'
          /\ dev'[handle].state # "idle" =>
               dev[handle].state # "idle" /\ dev'[handle].cmd = dev[handle].cmd
      BY <1>5, <2>1, <2>3, ReadKeeps DEF SlicesMore
    <3>2. /\ call \in [at : {"slices"}, resp : BOOLEAN, got : SUBSET (1 .. Slices),
                       bail : 1 .. Bail, of : Command]
          /\ NextBail(call.bail) \in 1 .. Bail
      BY <1>5, <2>3, ReadingType, BailRight DEF SlicesMore, IInv, TypeOK
    <3>3. Head(dev[handle].left) \in 1 .. Slices
      BY <1>2, <2>1
    <3>4. call' = [call EXCEPT !.got = @ \cup {Head(dev[handle].left)}, !.bail = NextBail(@)]
      BY <1>5, <2>3 DEF SlicesMore
    <3>5. /\ call' \in [at : {"slices"}, resp : BOOLEAN, got : SUBSET (1 .. Slices),
                        bail : 1 .. Bail, of : Command]
          /\ call'.of = call.of
      BY <3>2, <3>3, <3>4
    <3>6. TypeOK'
      BY <1>5, <2>3, <3>1, <3>5 DEF SlicesMore, IInv, TypeOK, CallType, library, clock
    <3>7. CommandRight'
      BY <1>5, <2>1, <2>3, <3>1, <3>5 DEF SlicesMore, IInv, CommandRight, At, library
    <3> QED
      BY <3>1, <3>6, <3>7 DEF IInv
  <2> QED
    BY <2>2, <2>3
<1> QED
  BY <1>3, <1>4, <1>5

\* abortPendingRequest and its transactions.
LEMMA AbortKeeps ==
  ASSUME IInv, AbortBegin \/ AbortSend \/ AbortCheck
  PROVE  IInv'
<1>1. CASE AbortBegin
  <2>1. /\ dev' \in [Keys -> Device]
        /\ DeviceRight'
        /\ handle \in Keys /\ dev'[handle].state # "idle" =>
             dev[handle].state # "idle" /\ dev'[handle].cmd = dev[handle].cmd
    BY <1>1, ReadKeeps DEF AbortBegin
  <2>2. CASE StatusCode = "NOT_READY"
    <3>1. call' = Aborting /\ UNCHANGED <<ret, begun>>
      BY <1>1, <2>2 DEF AbortBegin
    <3>2. TypeOK'
      BY <1>1, <2>1, <3>1 DEF AbortBegin, IInv, TypeOK, CallType, library, clock
    <3> QED
      BY <1>1, <2>1, <3>1, <3>2 DEF AbortBegin, IInv, CommandRight, At, Aborting, library
  <2>3. CASE StatusCode # "NOT_READY"
    <3>1. Return(StatusCode) /\ begun' = NoCommand
      BY <1>1, <2>3 DEF AbortBegin
    <3>2. /\ call' \in CallType
          /\ ret' \in [rc : ReturnCodes, answer : Command \cup {NoCommand}]
      BY <3>1, StatusRight, ReturnRight DEF Return
    <3>3. TypeOK'
      BY <1>1, <2>1, <3>1, <3>2 DEF AbortBegin, IInv, TypeOK, library, clock
    <3> QED
      BY <2>1, <3>1, <3>3 DEF IInv, CommandRight
  <2> QED
    BY <2>2, <2>3
<1>2. CASE AbortSend
  <2>1. CASE Alive /\ Reads(Idle(dev[handle])) /\ call' = Checking /\ UNCHANGED <<ret, begun>>
    <3>1. handle \in Keys /\ Right(dev[handle])
      BY <2>1, KeysRight DEF Alive, IInv, TypeOK
    <3>2. /\ Right(Idle(dev[handle]))
          /\ SameWork(dev[handle], Idle(dev[handle]))
      BY <3>1, IdleRight
    <3>3. /\ dev' \in [Keys -> Device]
          /\ DeviceRight'
          /\ dev'[handle].state # "idle" =>
               dev[handle].state # "idle" /\ dev'[handle].cmd = dev[handle].cmd
      BY <2>1, <3>2, ReadsOne
    <3>4. TypeOK'
      BY <1>2, <2>1, <3>3 DEF AbortSend, IInv, TypeOK, CallType, library, clock
    <3> QED
      BY <1>2, <2>1, <3>1, <3>3, <3>4 DEF AbortSend, IInv, CommandRight, At, Checking, library
  <2>2. CASE Return("FAILURE") /\ begun' = NoCommand /\ UNCHANGED dev
    BY <1>2, <2>2, ReturnKeeps DEF AbortSend, Return, ReturnCodes
  <2> QED
    BY <1>2, <2>1, <2>2 DEF AbortSend
<1>3. CASE AbortCheck
  BY <1>3, StatusRight, ReturnKeeps DEF AbortCheck, Return
<1> QED
  BY <1>1, <1>2, <1>3

\* Every step of every caller keeps the invariant.
LEMMA NextKeeps == IInv /\ [Next]_vars => IInv'
<1> SUFFICES ASSUME IInv, [Next]_vars PROVE IInv'
  OBVIOUS
<1>1. CASE World
  BY <1>1, WorldKeeps
<1>2. CASE CallStep
  BY <1>2, PollKeeps, SlicesKeep, AbortKeeps DEF CallStep
<1>3. CASE AnyCall
  BY <1>3, OpeningKeeps, StatusKeeps, BeginKeeps, WaitKeeps, AbortKeeps DEF AnyCall
<1>4. CASE UNCHANGED vars
  BY <1>4 DEF vars, library, clock, IInv, TypeOK, DeviceRight, CommandRight, At
<1> QED
  BY <1>1, <1>2, <1>3, <1>4 DEF Next

\* IInv holds of the library whatever its caller does.
THEOREM Invariance == Spec => []IInv
<1> QED
  BY InitIInv, NextKeeps, PTL DEF Spec

\* The members of the library, the keys and the locals of a call keep to their
\* types: m_seq stays a byte, and a response is read at most Bail times before
\* waitForCompletion gives it up.
THEOREM TypeCorrect == Spec => []TypeOK
<1>1. IInv => TypeOK
  BY DEF IInv
<1> QED
  BY Invariance, <1>1, PTL

\* A wait that returns a response returns the answer to the command begun last,
\* also if the caller has begun, aborted or given up others: of every caller.
THEOREM RepliesAreAnswers == Spec => ReplyIsAnswer
<1>1. ASSUME IInv, [Next]_vars
      PROVE  [WaitReturns("OK") /\ call.resp /\ begun.kind \in AnsweredKinds => ret'.answer = begun]_vars
  <2>1. SUFFICES ASSUME Next, WaitReturns("OK"), call.resp, begun.kind \in AnsweredKinds
                 PROVE  ret'.answer = begun
    BY <1>1
  <2>2. begun # NoCommand
    BY <2>1 DEF NoCommand, AnsweredKinds
  <2>3. (At("poll") \/ At("slices")) /\ At("none")' /\ ret'.rc = "OK"
    BY <2>1 DEF WaitReturns
  <2>4. ~ AnyCall /\ ~ AbortSend /\ ~ AbortCheck
    BY <2>3 DEF AnyCall, OpenKey, OpenPort, CloseKey, EnumPorts, ReadStatus, Begin, BeginRefused,
                Wait, AbortBegin, AbortSend, AbortCheck, At
  <2>5. ~ World
    BY <2>3 DEF World, DeviceStep, PlugIn, Unplug, At
  <2>6. ~ PollFails
    BY <2>3, ReturnRight DEF PollFails, WaitEnds, Return, Answered
  <2>7. ~ PollIdle /\ ~ PollTouch
    BY <2>1, <2>3 DEF PollIdle, PollTouch, WaitEnds, Return, Answered
  <2>8. ~ PollBusy
    BY <2>3 DEF PollBusy, Return, Answered, At
  <2>9. ~ PollResponse
    BY <2>3 DEF PollResponse, Reading, At
  <2>10. CASE SlicesEnd
    <3>1. call.of = begun
      BY <1>1, <2>2, <2>10 DEF SlicesEnd, IInv, CommandRight
    <3>2. Answered("OK", call.of)
      BY <2>3, <2>10 DEF SlicesEnd, WaitEnds, Return, Answered
    <3> QED
      BY <3>1, <3>2 DEF Answered
  <2>11. ~ SlicesMore
    <3> SUFFICES ASSUME SlicesMore PROVE FALSE
      OBVIOUS
    <3>1. CASE GivesUp(NextBail(call.bail))
      BY <2>3, <3>1 DEF SlicesMore, WaitEnds, Return, Answered
    <3>2. CASE ~ GivesUp(NextBail(call.bail))
      <4>1. call \in [at : {"slices"}, resp : BOOLEAN, got : SUBSET (1 .. Slices),
                      bail : 1 .. Bail, of : Command]
        BY <1>1, ReadingType DEF SlicesMore, IInv, TypeOK
      <4>2. call' = [call EXCEPT !.got = @ \cup {Head(dev[handle].left)}, !.bail = NextBail(@)]
        BY <3>2 DEF SlicesMore
      <4>3. call'.at = "slices"
        BY <4>1, <4>2
      <4> QED
        BY <2>3, <4>3 DEF At
    <3> QED
      BY <3>1, <3>2
  <2> QED
    BY <2>1, <2>4, <2>5, <2>6, <2>7, <2>8, <2>9, <2>10, <2>11 DEF Next, CallStep
<1> QED
  BY Invariance, <1>1, PTL DEF Spec, ReplyIsAnswer
-----------------------------------------------------------------------------
(* The clock of a wait *)

\* As long as the tick counter does not wrap, the clock of a wait runs with it.
LEMMA ClockKeeps ==
  ASSUME NoWrap, IInv, ClockRight, [Next]_vars
  PROVE  ClockRight'
<1>1. ASSUME NEW maxWait \in MaxWaits, NEW resp \in BOOLEAN, Wait(maxWait, resp)
      PROVE  ClockRight'
  <2>1. PICK t \in StartTicks : tick' = t /\ call' = Polling((t + maxWait) % TickMod, maxWait, resp)
    BY <1>1 DEF Wait
  <2>2. /\ t \in Nat /\ maxWait \in Nat /\ MaxGap \in Nat \ {0} /\ TickMod \in Nat \ {0}
        /\ t + maxWait + MaxGap <= TickMod
    BY BoundsAssumption DEF NoWrap
  <2>3. (t + maxWait) % TickMod = t + maxWait
    BY <2>2
  <2>4. tick' = t /\ call'.tend = t + maxWait /\ call'.max = maxWait /\ waited' = 0
    BY <1>1, <2>1, <2>3 DEF Wait, Polling
  <2> QED
    BY <2>2, <2>4 DEF ClockRight
<1>2. CASE PollBusy /\ ~ TimedOut(call.tend)
  <2>1. call \in [at : {"poll"}, tend : 0 .. TickMod - 1, max : MaxWaits, resp : BOOLEAN]
    BY <1>2 DEF PollBusy, IInv, TypeOK, CallType, At, NoCall, Aborting, Checking
  <2>2. /\ tick \in Nat /\ waited \in Nat /\ call.tend \in Nat /\ call.max \in Nat
        /\ MaxGap \in Nat /\ TickMod \in Nat \ {0}
    <3>1. MaxGap \in Nat /\ TickMod \in Nat \ {0} /\ MaxWaits \subseteq Nat
      BY BoundsAssumption
    <3>2. call.tend \in 0 .. TickMod - 1 /\ call.max \in MaxWaits
      BY <2>1
    <3>3. tick \in 0 .. TickMod - 1 /\ waited \in Nat
      BY DEF IInv, TypeOK
    <3>4. 0 .. TickMod - 1 \subseteq Nat
      BY <3>1
    <3> QED
      BY <3>1, <3>2, <3>3, <3>4, Zenon
  <2>3. PICK gap \in 1 .. MaxGap : tick' = (tick + gap) % TickMod /\ waited' = waited + gap
    BY <1>2 DEF PollBusy
  <2>4. tick < call.tend
    BY <1>2, <2>2 DEF TimedOut
  <2>5. tick + call.max = call.tend + waited /\ call.tend + MaxGap <= TickMod
    BY <1>2 DEF PollBusy, ClockRight
  <2>6. (tick + gap) % TickMod = tick + gap
    BY <2>2, <2>4, <2>5
  <2>7. call' = call
    BY <1>2 DEF PollBusy
  <2> QED
    BY <2>2, <2>3, <2>4, <2>5, <2>6, <2>7 DEF ClockRight
<1>3. CASE PollBusy /\ TimedOut(call.tend)
  BY <1>3 DEF PollBusy, Return, Answered, NoCall, ClockRight, At
<1>4. CASE PollFails \/ PollIdle \/ PollTouch \/ PollResponse \/ SlicesEnd
  BY <1>4 DEF PollFails, PollIdle, PollTouch, PollResponse, SlicesEnd, WaitEnds, Return, Answered,
              NoCall, Reading, ClockRight, At
<1>5. CASE SlicesMore
  <2>1. call \in [at : {"slices"}, resp : BOOLEAN, got : SUBSET (1 .. Slices),
                  bail : 1 .. Bail, of : Command]
    BY <1>5, ReadingType DEF SlicesMore, IInv, TypeOK
  <2>2. \/ call' = NoCall
        \/ call' = [call EXCEPT !.got = @ \cup {Head(dev[handle].left)}, !.bail = NextBail(@)]
    BY <1>5 DEF SlicesMore, WaitEnds, Return, Answered
  <2>3. call'.at # "poll"
    <3>1. CASE call' = NoCall
      BY <3>1 DEF NoCall
    <3>2. CASE call' = [call EXCEPT !.got = @ \cup {Head(dev[handle].left)}, !.bail = NextBail(@)]
      BY <2>1, <3>2
    <3> QED
      BY <2>2, <3>1, <3>2
  <2> QED
    BY <2>3 DEF ClockRight, At
<1>6. CASE AbortBegin \/ AbortSend \/ AbortCheck
  BY <1>6 DEF AbortBegin, AbortSend, AbortCheck, Return, Answered, NoCall, Aborting, Checking,
              ClockRight, At
<1>7. CASE World \/ UNCHANGED vars
  BY <1>7 DEF World, DeviceStep, PlugIn, Unplug, vars, clock, ClockRight, At
<1>8. CASE OpenKey \/ CloseKey \/ EnumPorts \/ ReadStatus \/ \E k \in Keys : OpenPort(k)
  BY <1>8 DEF OpenKey, CloseKey, EnumPorts, ReadStatus, OpenPort, Return, Answered, NoCall,
              ClockRight, At
<1>9. ASSUME NEW cmd \in Command, Begin(cmd) \/ BeginRefused(cmd)
      PROVE  ClockRight'
  BY <1>9 DEF Begin, BeginRefused, Return, Answered, NoCall, ClockRight, At
<1> QED
  BY <1>1, <1>2, <1>3, <1>4, <1>5, <1>6, <1>7, <1>8, <1>9 DEF Next, CallStep, AnyCall

\* A wait is over MaxGap ticks after maxWait at the latest, whatever the key
\* does, as long as the tick counter does not wrap while it lasts.
THEOREM WaitsAreBounded ==
  ASSUME NoWrap
  PROVE  Spec => []WaitBounded
<1>1. Init => ClockRight
  BY DEF Init, ClockRight, At, NoCall
<1>2. IInv /\ ClockRight /\ [Next]_vars => ClockRight'
  BY ClockKeeps
<1>3. ClockRight => WaitBounded
  BY DEF ClockRight, WaitBounded
<1> QED
  BY Invariance, <1>1, <1>2, <1>3, PTL DEF Spec
-----------------------------------------------------------------------------
(* The orderly caller *)

LEMMA OrderlyIsACaller == [NextOrderly]_vars => [Next]_vars
<1>1. ASSUME NEW maxWait \in MaxWaits, Wait(maxWait, begun.kind \in AnsweredKinds)
      PROVE  AnyCall
  <2>1. (begun.kind \in AnsweredKinds) \in BOOLEAN
    OBVIOUS
  <2>2. \E resp \in BOOLEAN : Wait(maxWait, resp)
    BY <1>1, <2>1, Zenon
  <2> QED
    BY <2>2 DEF AnyCall
<1>2. OrderlyCall => AnyCall
  BY <1>1 DEF OrderlyCall, AnyCall
<1> QED
  BY <1>2 DEF NextOrderly, Next

\* A key's work on a write: it takes it and counts, or refuses it and does not.
LEMMA WriteProgress ==
  ASSUME NEW d, Right(d), d.cmd.kind \in ConfigKinds, NEW e \in Progress(d), d.state = "busy"
  PROVE  /\ e.state = "idle"
         /\ IF e.taken
            THEN e.pgmSeq = IF d.cmd.kind = "kill" THEN 0 ELSE NextSeq(d.pgmSeq)
            ELSE e.pgmSeq = d.pgmSeq
<1>1. d \in Device
  BY DEF Right
<1>2. Idle(d) \in Device /\ Idle(d).state = "idle" /\ Idle(d).pgmSeq = d.pgmSeq
  BY IdleRight DEF Right
<1>3. CASE e = [Idle(d) EXCEPT !.taken = FALSE]
  BY <1>2, <1>3 DEF Device
<1>4. CASE d.cmd.kind = "config" /\ e = [Idle(d) EXCEPT !.pgmSeq = (d.pgmSeq + 1) % SeqMod, !.taken = TRUE]
  BY <1>2, <1>4 DEF Device, NextSeq
<1>5. CASE d.cmd.kind = "kill" /\ e = [Idle(d) EXCEPT !.pgmSeq = 0, !.taken = TRUE]
  BY <1>2, <1>5 DEF Device
<1>6. CASE d.cmd.kind = "config"
  BY <1>3, <1>4, <1>6 DEF Progress, AnsweredKinds
<1>7. CASE d.cmd.kind = "kill"
  BY <1>3, <1>5, <1>7 DEF Progress, AnsweredKinds
<1> QED
  BY <1>6, <1>7 DEF ConfigKinds

\* What a write under way amounts to: the premise of WriteRight and its claim.
Writing == begun.kind \in ConfigKinds /\ handle \in Keys /\ ~ At("recheck")
Awaited(d) == IF begun.kind = "kill" THEN 0 ELSE NextSeq(d.pgmSeq)
Tells(d) ==
  \/ d.state = "busy" /\ seq = Awaited(d)
  \/ d.state = "idle" /\ seq = IF d.taken THEN d.pgmSeq ELSE Awaited(d)

LEMMA WriteRightIs == WriteRight <=> (Writing => Tells(dev[handle]))
BY DEF WriteRight, Writing, Tells, Awaited

\* A step that leaves the write under way and its key alone.
LEMMA WriteStays ==
  ASSUME OrderlyInv, Writing' => Writing /\ begun' = begun /\ handle' = handle /\ seq' = seq /\
                                 dev'[handle] = dev[handle]
  PROVE  WriteRight'
BY WriteRightIs DEF OrderlyInv, WriteRight, Writing, Tells, Awaited

\* A report that is read from a key at work on a write takes nothing from it.
LEMMA WriteUnread ==
  ASSUME OrderlyInv, Writing,
         IF Alive THEN \E d \in AfterRead(dev[handle]) : Reads(d) ELSE UNCHANGED dev
  PROVE  dev'[handle] = dev[handle]
<1>1. dev[handle].state # "response"
  BY WriteRightIs DEF OrderlyInv, Tells
<1>2. CASE Alive
  BY <1>1, <1>2 DEF AfterRead, Reads, Writing, OrderlyInv, IInv, TypeOK
<1> QED
  BY <1>2

LEMMA OrderlyInit == Init => OrderlyInv
BY InitIInv DEF OrderlyInv, WaitRight, WriteRight, Init, At, NoCall, NoCommand, ConfigKinds

\* The world: only a key at work on a write changes what m_seq tells of it.
LEMMA OrderlyWorld ==
  ASSUME OrderlyInv, World
  PROVE  WaitRight' /\ WriteRight'
<1>1. ASSUME NEW k \in Keys, DeviceStep(k)
      PROVE  WaitRight' /\ WriteRight'
  <2>1. WaitRight'
    BY <1>1 DEF DeviceStep, OrderlyInv, WaitRight, At, library
  <2>2. PICK d \in Progress(dev[k]) : dev' = [dev EXCEPT ![k] = d]
    BY <1>1 DEF DeviceStep
  <2>3. Right(dev[k]) /\ Right(d) /\ SameWork(dev[k], d)
    BY <2>2, KeysRight, ProgressRight DEF OrderlyInv
  <2>4. dev'[k] = d /\ \A j \in Keys \ {k} : dev'[j] = dev[j]
    BY <2>2, <2>3, OneKey DEF OrderlyInv
  <2>5. handle' = handle /\ begun' = begun /\ seq' = seq /\ At("recheck")' = At("recheck")
    BY <1>1 DEF DeviceStep, library, At
  <2>6. CASE k = handle /\ Writing
    <3>1. Tells(dev[k])
      BY <2>6, WriteRightIs DEF OrderlyInv
    <3>2. dev[k].state = "busy"
      BY <2>2, <3>1 DEF Tells, Progress
    <3>3. dev[k].cmd = begun
      BY <2>6, <3>2 DEF Writing, OrderlyInv, IInv, CommandRight, NoCommand, ConfigKinds
    <3>4. /\ d.state = "idle"
          /\ IF d.taken THEN d.pgmSeq = Awaited(dev[k]) ELSE d.pgmSeq = dev[k].pgmSeq
      BY <2>3, <2>6, <3>2, <3>3, WriteProgress DEF Writing, Awaited
    <3>5. seq = IF d.taken THEN d.pgmSeq ELSE Awaited(d)
      BY <3>1, <3>2, <3>4 DEF Tells, Awaited
    <3>6. WriteRight'
      BY <2>4, <2>5, <2>6, <3>4, <3>5 DEF WriteRight, Awaited
    <3> QED
      BY <2>1, <3>6
  <2>7. CASE ~ (k = handle /\ Writing)
    <3>1. Writing' => Writing /\ dev'[handle] = dev[handle]
      BY <2>4, <2>5, <2>7 DEF Writing
    <3> QED
      BY <2>1, <2>5, <3>1, WriteStays
  <2> QED
    BY <2>6, <2>7
<1>2. ASSUME NEW k \in Keys, PlugIn(k)
      PROVE  WaitRight' /\ WriteRight'
  BY <1>2, WriteStays DEF PlugIn, OrderlyInv, WaitRight, Writing, At, library
<1>3. ASSUME NEW k \in Keys, Unplug(k)
      PROVE  WaitRight' /\ WriteRight'
  <2>1. handle' \in Keys => handle' = handle /\ handle # k
    BY <1>3, KeysAssumption DEF Unplug
  <2>2. WaitRight'
    BY <1>3, <2>1 DEF Unplug, OrderlyInv, WaitRight, At
  <2>3. Writing' => /\ Writing /\ begun' = begun /\ handle' = handle /\ seq' = seq
                    /\ dev'[handle] = dev[handle]
    BY <1>3, <2>1 DEF Unplug, Writing, At, OrderlyInv, IInv, TypeOK
  <2> QED
    BY <2>2, <2>3, WriteStays
<1> QED
  BY <1>1, <1>2, <1>3 DEF World

\* A command that is begun over, aborted or closed is not waited for.
LEMMA OrderlyQuiet ==
  ASSUME begun' = NoCommand, ~ At("poll")'
  PROVE  WaitRight' /\ WriteRight'
BY DEF WaitRight, WriteRight, NoCommand, ConfigKinds

\* The steps of waitForCompletion and abortPendingRequest.
LEMMA OrderlyCallStep ==
  ASSUME OrderlyInv, CallStep
  PROVE  WaitRight' /\ WriteRight'
<1>1. CASE PollFails \/ PollIdle \/ SlicesEnd \/ AbortCheck
  <2>1. begun' = NoCommand /\ ~ At("poll")'
    BY <1>1 DEF PollFails, PollIdle, SlicesEnd, AbortCheck, WaitEnds, Return, Answered, NoCall, At
  <2> QED
    BY <2>1, OrderlyQuiet
<1>2. CASE PollTouch \/ PollBusy
  <2>1. /\ UNCHANGED <<dev, library, begun>>
        /\ At("poll") /\ ~ At("recheck")
        /\ call' \in {call, NoCall}
    BY <1>2 DEF PollTouch, PollBusy, Return, Answered, At
  <2>2. WaitRight'
    BY <2>1 DEF OrderlyInv, WaitRight, NoCall, At, library
  <2>3. Writing' => Writing
    BY <2>1 DEF Writing, NoCall, At, library
  <2> QED
    BY <2>1, <2>2, <2>3, WriteStays DEF library
<1>3. CASE PollResponse
  <2>1. handle \in Keys /\ ~ At("recheck") /\ dev[handle].state = "response"
    BY <1>3 DEF PollResponse, Alive, At, OrderlyInv, IInv, TypeOK
  <2>2. ~ Writing
    BY <2>1, WriteRightIs DEF Tells, OrderlyInv
  <2>3. begun.kind \notin ConfigKinds
    BY <2>1, <2>2 DEF Writing
  <2>4. begun' = begun /\ UNCHANGED library /\ call'.at = "slices"
    BY <1>3 DEF PollResponse, Reading
  <2> QED
    BY <2>3, <2>4 DEF OrderlyInv, WaitRight, WriteRight, At, library
<1>4. CASE SlicesMore
  <2>1. CASE GivesUp(NextBail(call.bail))
    <3>1. begun' = NoCommand /\ ~ At("poll")'
      BY <1>4, <2>1 DEF SlicesMore, WaitEnds, Return, Answered, NoCall, At
    <3> QED
      BY <3>1, OrderlyQuiet
  <2>2. CASE ~ GivesUp(NextBail(call.bail))
    <3>1. call \in [at : {"slices"}, resp : BOOLEAN, got : SUBSET (1 .. Slices),
                    bail : 1 .. Bail, of : Command]
      BY <1>4, ReadingType DEF SlicesMore, OrderlyInv, IInv, TypeOK
    <3>2. call' = [call EXCEPT !.got = @ \cup {Head(dev[handle].left)}, !.bail = NextBail(@)]
      BY <1>4, <2>2 DEF SlicesMore
    <3>3. call'.at = "slices" /\ call.at = "slices"
      BY <3>1, <3>2
    <3>4. begun' = begun /\ UNCHANGED library
      BY <1>4, <2>2 DEF SlicesMore
    <3> QED
      BY <3>3, <3>4 DEF OrderlyInv, WaitRight, WriteRight, At, library
  <2> QED
    BY <2>1, <2>2
<1>5. CASE AbortSend
  <2>1. CASE call' = Checking /\ UNCHANGED <<begun, library>>
    BY <2>1 DEF Checking, OrderlyInv, WaitRight, WriteRight, At, library
  <2>2. CASE Return("FAILURE") /\ begun' = NoCommand
    BY <2>2, OrderlyQuiet DEF Return, Answered, NoCall, At
  <2> QED
    BY <1>5, <2>1, <2>2 DEF AbortSend
<1> QED
  BY <1>1, <1>2, <1>3, <1>4, <1>5 DEF CallStep

\* The calls an orderly caller makes.
LEMMA OrderlyCalls ==
  ASSUME OrderlyInv, OrderlyCall
  PROVE  WaitRight' /\ WriteRight'
<1>1. CASE OpenKey \/ CloseKey \/ \E k \in Keys : OpenPort(k)
  <2>1. begun' = NoCommand /\ ~ At("poll")'
    BY <1>1 DEF OpenKey, CloseKey, OpenPort, Return, Answered, NoCall, At
  <2> QED
    BY <2>1, OrderlyQuiet
<1>2. CASE EnumPorts
  <2>1. /\ UNCHANGED <<dev, lastCmd, seq, begun>> /\ At("none") /\ At("none")'
        /\ handle' = "none" \/ handle' = handle
    BY <1>2 DEF EnumPorts, Return, Answered, NoCall, At
  <2>2. CASE handle' = "none"
    BY <2>1, <2>2, KeysAssumption DEF WaitRight, WriteRight, At
  <2>3. CASE handle' = handle
    BY <2>1, <2>3 DEF OrderlyInv, WaitRight, WriteRight, At
  <2> QED
    BY <2>1, <2>2, <2>3
<1>3. CASE ReadStatus
  <2>1. UNCHANGED <<library, begun>> /\ At("none") /\ At("none")'
    BY <1>3 DEF ReadStatus, Return, Answered, NoCall, At
  <2>2. WaitRight'
    BY <2>1 DEF OrderlyInv, WaitRight, library, At
  <2>3. Writing' => Writing /\ dev'[handle] = dev[handle]
    BY <1>3, <2>1, WriteUnread DEF ReadStatus, Writing, At, library
  <2> QED
    BY <2>1, <2>2, <2>3, WriteStays DEF library
<1>4. ASSUME NEW cmd \in Command, begun = NoCommand, BeginRefused(cmd)
      PROVE  WaitRight' /\ WriteRight'
  <2>1. begun' = NoCommand /\ ~ At("poll")'
    BY <1>4 DEF BeginRefused, Return, Answered, NoCall, At
  <2> QED
    BY <2>1, OrderlyQuiet
<1>5. ASSUME NEW cmd \in Command, begun = NoCommand, Begin(cmd)
      PROVE  WaitRight' /\ WriteRight'
  <2>1. call' = NoCall /\ handle' = handle
    BY <1>5 DEF Begin, Return, Answered
  <2>2. CASE begun' = NoCommand
    BY <2>1, <2>2, OrderlyQuiet DEF NoCall, At
  <2>3. CASE begun' # NoCommand
    <3>1. handle \in Keys /\ dev[handle].state = "idle" /\ dev[handle] \in Device
      BY <1>5, StatusRight DEF Begin, MayWrite, OrderlyInv, IInv, TypeOK
    <3>2. /\ begun' = cmd /\ lastCmd' = cmd.kind /\ seq' = Expected(cmd, dev[handle].pgmSeq)
          /\ dev' = [dev EXCEPT ![handle] = [dev[handle] EXCEPT !.state = "busy", !.cmd = cmd]]
      BY <1>5, <2>3, <3>1 DEF Begin, Reads
    <3>3. dev'[handle].state = "busy" /\ dev'[handle].pgmSeq = dev[handle].pgmSeq
      BY <3>1, <3>2 DEF OrderlyInv, IInv, TypeOK, Device
    <3>4. WaitRight'
      BY <2>1, <3>2 DEF WaitRight, NoCall, At
    <3>5. begun'.kind \in ConfigKinds =>
            seq' = IF begun'.kind = "kill" THEN 0 ELSE NextSeq(dev'[handle].pgmSeq)
      BY <3>2, <3>3 DEF Expected, ConfigKinds
    <3>6. WriteRight'
      BY <2>1, <3>3, <3>5 DEF WriteRight, NextSeq
    <3> QED
      BY <3>4, <3>6
  <2> QED
    BY <2>2, <2>3
<1>6. ASSUME begun # NoCommand, NEW maxWait \in MaxWaits, NEW resp, Wait(maxWait, resp)
      PROVE  WaitRight' /\ WriteRight'
  <2>1. UNCHANGED <<dev, library, begun>> /\ At("none") /\ call'.at = "poll"
    BY <1>6 DEF Wait, Polling
  <2>2. WaitRight'
    BY <1>6, <2>1 DEF OrderlyInv, WaitRight, library, At
  <2>3. Writing' => Writing
    BY <2>1 DEF Writing, library, At
  <2> QED
    BY <2>1, <2>2, <2>3, WriteStays DEF library
<1>7. CASE AbortBegin
  <2>1. CASE StatusCode = "NOT_READY"
    <3>1. call' = Aborting /\ UNCHANGED <<begun, library>> /\ At("none")
      BY <1>7, <2>1 DEF AbortBegin
    <3>2. WaitRight'
      BY <3>1 DEF OrderlyInv, WaitRight, Aborting, library, At
    <3>3. Writing' => Writing /\ dev'[handle] = dev[handle]
      BY <1>7, <3>1, WriteUnread DEF AbortBegin, Writing, At, library
    <3> QED
      BY <3>1, <3>2, <3>3, WriteStays DEF library
  <2>2. CASE StatusCode # "NOT_READY"
    BY <1>7, <2>2, OrderlyQuiet DEF AbortBegin, Return, Answered, NoCall, At
  <2> QED
    BY <2>1, <2>2
<1> QED
  BY <1>1, <1>2, <1>3, <1>4, <1>5, <1>6, <1>7 DEF OrderlyCall

LEMMA OrderlyKeeps == OrderlyInv /\ [NextOrderly]_vars => OrderlyInv'
<1> SUFFICES ASSUME OrderlyInv, [NextOrderly]_vars PROVE OrderlyInv'
  OBVIOUS
<1>1. IInv'
  BY OrderlyIsACaller, NextKeeps DEF OrderlyInv
<1>2. CASE NextOrderly
  BY <1>1, <1>2, OrderlyWorld, OrderlyCallStep, OrderlyCalls DEF NextOrderly, OrderlyInv
<1>3. CASE UNCHANGED vars
  BY <1>1, <1>3 DEF vars, library, OrderlyInv, WaitRight, WriteRight, At
<1> QED
  BY <1>2, <1>3

\* OrderlyInv holds of an orderly caller.
THEOREM OrderlyInvariance == SpecOrderly => []OrderlyInv
<1> QED
  BY OrderlyInit, OrderlyKeeps, PTL DEF SpecOrderly

\* A wait for a write returns from the first report that shows an idle key.
LEMMA WritesReturnIdle ==
  ASSUME OrderlyInv, NextOrderly, NEW rc \in {"OK", "WRITE_ERROR"}, WaitReturns(rc),
         begun.kind \in ConfigKinds \/ rc = "WRITE_ERROR"
  PROVE  PollIdle
<1>1. (At("poll") \/ At("slices")) /\ At("none")' /\ ret'.rc = rc
  BY DEF WaitReturns
<1>2. ~ OrderlyCall /\ ~ AbortSend /\ ~ AbortCheck
  BY <1>1 DEF OrderlyCall, OpenKey, OpenPort, CloseKey, EnumPorts, ReadStatus, Begin,
              BeginRefused, Wait, AbortBegin, AbortSend, AbortCheck, At
<1>3. ~ World
  BY <1>1 DEF World, DeviceStep, PlugIn, Unplug, At
<1>4. ~ PollFails /\ ~ PollTouch
  BY <1>1 DEF PollFails, PollTouch, WaitEnds, Return, Answered
<1>5. ~ PollBusy
  BY <1>1 DEF PollBusy, Return, Answered, At
<1>6. ~ PollResponse
  BY <1>1 DEF PollResponse, Reading, At
<1>7. ~ SlicesEnd /\ ~ SlicesMore
  <2>1. At("slices") => begun.kind \notin ConfigKinds
    BY DEF OrderlyInv, WaitRight
  <2>2. SlicesEnd => rc # "WRITE_ERROR"
    BY <1>1 DEF SlicesEnd, WaitEnds, Return, Answered
  <2>3. ASSUME SlicesMore
        PROVE  rc # "WRITE_ERROR"
    <3>1. CASE GivesUp(NextBail(call.bail))
      BY <1>1, <2>3, <3>1 DEF SlicesMore, WaitEnds, Return, Answered
    <3>2. CASE ~ GivesUp(NextBail(call.bail))
      <4>1. call \in [at : {"slices"}, resp : BOOLEAN, got : SUBSET (1 .. Slices),
                      bail : 1 .. Bail, of : Command]
        BY <2>3, ReadingType DEF SlicesMore, OrderlyInv, IInv, TypeOK
      <4>2. call' = [call EXCEPT !.got = @ \cup {Head(dev[handle].left)}, !.bail = NextBail(@)]
        BY <2>3, <3>2 DEF SlicesMore
      <4>3. call'.at = "slices"
        BY <4>1, <4>2
      <4> QED
        BY <1>1, <4>3 DEF At
    <3> QED
      BY <3>1, <3>2
  <2>4. SlicesEnd \/ SlicesMore => At("slices")
    BY DEF SlicesEnd, SlicesMore
  <2> QED
    BY <2>1, <2>2, <2>3, <2>4
<1> QED
  BY <1>2, <1>3, <1>4, <1>5, <1>6, <1>7 DEF NextOrderly, CallStep

\* An orderly caller is told that a configuration write failed only if the key
\* refused it.
THEOREM WriteErrorsAreTrue == SpecOrderly => WriteErrorIsTrue
<1>1. ASSUME OrderlyInv, [NextOrderly]_vars
      PROVE  [WaitReturns("WRITE_ERROR") => ~ dev[handle].taken]_vars
  <2>1. SUFFICES ASSUME NextOrderly, WaitReturns("WRITE_ERROR")
                 PROVE  ~ dev[handle].taken
    BY <1>1
  <2>2. PollIdle
    BY <1>1, <2>1, WritesReturnIdle
  <2>3. ret'.rc = "WRITE_ERROR"
    BY <2>1 DEF WaitReturns
  <2>4. lastCmd \in ConfigKinds /\ seq # dev[handle].pgmSeq
    <3>1. SeqRight => ret'.rc # "WRITE_ERROR"
      BY <2>2 DEF PollIdle, WaitEnds, Return, Answered
    <3> QED
      BY <2>3, <3>1 DEF SeqRight
  <2>5. handle \in Keys /\ dev[handle].state = "idle" /\ begun # NoCommand /\ ~ At("recheck")
    BY <1>1, <2>2 DEF PollIdle, Alive, At, OrderlyInv, IInv, TypeOK, WaitRight
  <2>6. begun.kind \in ConfigKinds
    BY <1>1, <2>4, <2>5 DEF OrderlyInv, WaitRight
  <2> QED
    BY <1>1, <2>4, <2>5, <2>6 DEF OrderlyInv, WriteRight
<1> QED
  BY OrderlyInvariance, <1>1, PTL DEF SpecOrderly, WriteErrorIsTrue

\* An orderly caller is told that a configuration write is completed only if
\* the key took it, if sequence numbers have more than one value; and that a
\* configuration is killed only if it is or the key counts 0 as if it were.
THEOREM WritesAreConfirmed ==
  ASSUME SeqMod > 1
  PROVE  SpecOrderly => WriteConfirmed
<1>1. ASSUME OrderlyInv, [NextOrderly]_vars
      PROVE  [WaitReturns("OK") /\ begun.kind \in ConfigKinds =>
                dev[handle].taken \/ (begun.kind = "kill" /\ dev[handle].pgmSeq = 0)]_vars
  <2>1. SUFFICES ASSUME NextOrderly, WaitReturns("OK"), begun.kind \in ConfigKinds
                 PROVE  dev[handle].taken \/ (begun.kind = "kill" /\ dev[handle].pgmSeq = 0)
    BY <1>1
  <2>2. PollIdle
    BY <1>1, <2>1, WritesReturnIdle
  <2>3. ret'.rc = "OK"
    BY <2>1 DEF WaitReturns
  <2>4. handle \in Keys /\ dev[handle].state = "idle" /\ begun # NoCommand /\ ~ At("recheck")
    BY <1>1, <2>2 DEF PollIdle, Alive, At, OrderlyInv, IInv, TypeOK, WaitRight
  <2>5. lastCmd \in ConfigKinds
    BY <1>1, <2>1, <2>4 DEF OrderlyInv, WaitRight
  <2>6. seq = dev[handle].pgmSeq
    <3>1. ~ call.resp /\ ~ SeqRight => ret'.rc = "WRITE_ERROR"
      BY <2>2 DEF PollIdle, WaitEnds, Return, Answered
    <3>2. call.resp => ret'.rc = "INVALID_RESPONSE"
      BY <2>2 DEF PollIdle, WaitEnds, Return, Answered
    <3> QED
      BY <2>3, <2>5, <3>1, <3>2 DEF SeqRight
  <2>7. NextSeq(dev[handle].pgmSeq) # dev[handle].pgmSeq
    <3>1. dev[handle].pgmSeq \in 0 .. SeqMod - 1
      BY <1>1, <2>4 DEF OrderlyInv, IInv, TypeOK, Device
    <3> QED
      BY <3>1, BoundsAssumption DEF NextSeq
  <2>8. dev[handle].taken \/ seq = IF begun.kind = "kill" THEN 0 ELSE NextSeq(dev[handle].pgmSeq)
    BY <1>1, <2>1, <2>4 DEF OrderlyInv, WriteRight
  <2> QED
    BY <2>6, <2>7, <2>8
<1> QED
  BY OrderlyInvariance, <1>1, PTL DEF SpecOrderly, WriteConfirmed
=============================================================================
