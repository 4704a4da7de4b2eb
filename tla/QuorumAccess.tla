---------------------------- MODULE QuorumAccess ----------------------------
(***************************************************************************)
(* What the server promises, without its stores and threads: the key of an *)
(* encryption is handed to a request only when every member of the quorum  *)
(* has consented to that request.  Members are numbered, as their rows are.*)
(***************************************************************************)
EXTENDS Integers

CONSTANTS Encryptions, Requests, MaxMembers

VARIABLES
  members,   \* set-up encryptions and the size of their quorum
  asked,     \* requests and the encryption each is for
  consents,  \* who has consented to what: pairs of a request and a member
  granted    \* requests that have been given the key

vars == <<members, asked, consents, granted>>

Extend(f, k, v) == [x \in DOMAIN f \cup {k} |-> IF x = k THEN v ELSE f[x]]

Init ==
  /\ members = [e \in {} |-> 0]
  /\ asked = [r \in {} |-> 0]
  /\ consents = {}
  /\ granted = {}

SetUp(e) ==
  /\ e \notin DOMAIN members
  /\ \E n \in 1 .. MaxMembers : members' = Extend(members, e, n)
  /\ UNCHANGED <<asked, consents, granted>>

\* Members may have answered their challenge before the last one is issued.
Ask(r, e) ==
  /\ r \notin DOMAIN asked
  /\ e \in DOMAIN members
  /\ asked' = Extend(asked, r, e)
  /\ \E early \in SUBSET (1 .. members[e]) :
       consents' = consents \cup ({r} \X early)
  /\ UNCHANGED <<members, granted>>

Consent(r, i) ==
  /\ r \in DOMAIN asked
  /\ i \in 1 .. members[asked[r]]
  /\ consents' = consents \cup {<<r, i>>}
  /\ UNCHANGED <<members, asked, granted>>

Grant(r) ==
  /\ r \in DOMAIN asked
  /\ {r} \X (1 .. members[asked[r]]) \subseteq consents
  /\ granted' = granted \cup {r}
  /\ UNCHANGED <<members, asked, consents>>

Next ==
  \/ \E e \in Encryptions : SetUp(e)
  \/ \E r \in Requests, e \in Encryptions : Ask(r, e)
  \/ \E r \in Requests, i \in 1 .. MaxMembers : Consent(r, i)
  \/ \E r \in Requests : Grant(r)

Spec == Init /\ [][Next]_vars
=============================================================================
