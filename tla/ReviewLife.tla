----------------------------- MODULE ReviewLife -----------------------------
(***************************************************************************)
(* What the code review extension promises of the repository and of the    *)
(* issues: the history of the central repository is only ever continued,   *)
(* "Submitted as R" is said of an issue when a revision R that was made    *)
(* from it is in that history, and an issue is closed when that has been   *)
(* said of it, or that it is abandoned.  (That it stays closed is not       *)
(* promised: its owner may post its form again.)                           *)
(***************************************************************************)
EXTENDS Integers, Sequences, SequencesExt

CONSTANTS Issues, Change   \* a change has the number of its issue, n

VARIABLES
  history,    \* of the central repository
  announced,  \* the issues and revisions of which "Submitted as" has been said
  abandoned,  \* the issues that have been abandoned
  closed      \* the issues that are closed

vars == <<history, announced, abandoned, closed>>

Init == history = <<>> /\ announced = {} /\ abandoned = {} /\ closed = {}

Publish ==
  /\ history' \in Seq(Change)
  /\ IsPrefix(history, history')
  /\ UNCHANGED <<announced, abandoned, closed>>

Announce(n, i) ==
  /\ history[i].n = n
  /\ announced' = announced \cup {<<n, SubSeq(history, 1, i)>>}
  /\ UNCHANGED <<history, abandoned, closed>>

Abandon(n) == abandoned' = abandoned \cup {n} /\ UNCHANGED <<history, announced, closed>>

Close(n) ==
  /\ n \in abandoned \/ \E said \in announced : said[1] = n
  /\ closed' = closed \cup {n}
  /\ UNCHANGED <<history, announced, abandoned>>

Reopen(n) == closed' = closed \ {n} /\ UNCHANGED <<history, announced, abandoned>>

Next == \/ Publish
        \/ \E n \in Issues : Abandon(n) \/ Close(n) \/ Reopen(n) \/ \E i \in DOMAIN history : Announce(n, i)

Spec == Init /\ [][Next]_vars
=============================================================================
