-------------------------- MODULE CodeReviewProofs --------------------------
(***************************************************************************)
(* Theorems about CodeReview, for any developers, files, issues and bounds.*)
(***************************************************************************)
EXTENDS CodeReview, TLAPS

-----------------------------------------------------------------------------
(* The inductive invariant.  Its parts are operators of issues is, of the  *)
(* central history h, and of the tip t and the job j of developer d, so    *)
(* that they can be compared before and after a step.                      *)

\* A CL of d for issue n: its author owns the issue, and if that is d and the
\* CL is marked as mailed the issue has been.
CLRight(is, d, n, cl) ==
  /\ cl.copied # d
  /\ Author(d, cl) = is[n].owner
  /\ cl.mailed /\ cl.copied = Nobody => is[n].mailed

HistoryRight(is, h) ==
  \A i \in DOMAIN h :
    /\ h[i].user = is[h[i].n].owner
    /\ h[i].user = h[i].by => is[h[i].n].mailed

InHistory(h, n) == \E i \in DOMAIN h : h[i].n = n

IssuesRight(is, h) ==
  \A n \in Issues : /\ is[n].owner = Nobody => is[n] = Unborn
                    /\ is[n].submitted # {} => InHistory(h, n)

\* Where a command holds the CL of the issue job[d].n.
Holding == {"save", "resave", "mail", "commit", "push", "announce", "abandon", "close", "delete"}

\* A new CL is the developer's own; one that is uploaded may be for the issue
\* of somebody else, which the server will say; any other is as CLRight wants.
HeldRight(is, d, j) ==
  /\ j.at \in Holding \cup {"patch"} => j.n \in Issues
  /\ j.at \in {"create", "recreate"} => j.cl.copied = Nobody /\ ~ j.cl.mailed
  /\ j.at = "patch" => /\ j.cl.copied # d
                       /\ j.cl.copied \in {Nobody, is[j.n].owner}
                       /\ j.cl.mailed /\ j.cl.copied = Nobody => is[j.n].mailed
  /\ j.at \in Holding => CLRight(is, d, j.n, j.cl)
  /\ \A n \in Issues : j.dirty[n] # NoCL => CLRight(is, d, n, j.dirty[n])

\* What has been done by the time a command is where it is.
DoneRight(is, h, t, j) ==
  /\ j.at = "resave" /\ j.cmd = "submit" => j.cl.mailed
  /\ j.at = "commit" => j.cl.mailed \/ j.cl.copied # Nobody
  /\ j.at \in {"push", "announce"} => t # <<>> /\ Last(t).n = j.n
  /\ j.at = "announce" => IsPrefix(t, h)
  /\ j.at = "close" => is[j.n].abandoned \/ is[j.n].submitted # {}
  /\ j.at \in {"abandon", "close", "delete"} => j.cmd \in {"abandon", "forget"} \/ InHistory(h, j.n)

\* A clone whose process was not killed is ahead by what it is about to push.
NotAhead(h, t, j) == IsPrefix(IF j.at = "push" THEN Front(t) ELSE t, h)

CloneRight(d) ==
  /\ \A n \in Issues : cls[d][n] # NoCL => CLRight(issue, d, n, cls[d][n])
  /\ HistoryRight(issue, tip[d])
  /\ HeldRight(issue, d, job[d])
  /\ DoneRight(issue, remote, tip[d], job[d])
  /\ d \notin killed => NotAhead(remote, tip[d], job[d])

IInv ==
  /\ TypeOK
  /\ IssuesRight(issue, remote)
  /\ HistoryRight(issue, remote)
  /\ \A d \in Clones : CloneRight(d)

-----------------------------------------------------------------------------
(* Prefixes, point by point *)

\* What IsPrefix says of the elements.
LEMMA PrefixDef ==
  ASSUME NEW S, NEW s \in Seq(S), NEW t \in Seq(S)
  PROVE  IsPrefix(s, t) <=> Len(s) <= Len(t) /\ \A i \in 1 .. Len(s) : s[i] = t[i]
<1>1. ASSUME IsPrefix(s, t)
      PROVE  Len(s) <= Len(t) /\ \A i \in 1 .. Len(s) : s[i] = t[i]
  <2>1. Len(s) <= Len(t) /\ SubSeq(s, 1, Len(s)) = SubSeq(t, 1, Len(s))
    BY <1>1 DEF IsPrefix
  <2>2. ASSUME NEW i \in 1 .. Len(s)
        PROVE  s[i] = t[i]
    <3>1. SubSeq(s, 1, Len(s))[i] = s[i] /\ SubSeq(t, 1, Len(s))[i] = t[i]
      BY <2>1
    <3> QED
      BY <2>1, <3>1
  <2> QED
    BY <2>1, <2>2
<1>2. ASSUME Len(s) <= Len(t), \A i \in 1 .. Len(s) : s[i] = t[i]
      PROVE  IsPrefix(s, t)
  BY <1>2 DEF IsPrefix
<1> QED
  BY <1>1, <1>2

LEMMA PrefixRefl ==
  ASSUME NEW S, NEW s \in Seq(S)
  PROVE  IsPrefix(s, s)
BY PrefixDef

LEMMA PrefixTrans ==
  ASSUME NEW S, NEW s \in Seq(S), NEW t \in Seq(S), NEW u \in Seq(S),
         IsPrefix(s, t), IsPrefix(t, u)
  PROVE  IsPrefix(s, u)
BY PrefixDef

\* The first elements of a sequence are a prefix of it.
LEMMA PrefixCut ==
  ASSUME NEW S, NEW s \in Seq(S), NEW m \in 0 .. Len(s)
  PROVE  /\ SubSeq(s, 1, m) \in Seq(S)
         /\ Len(SubSeq(s, 1, m)) = m
         /\ \A i \in 1 .. m : SubSeq(s, 1, m)[i] = s[i]
         /\ IsPrefix(SubSeq(s, 1, m), s)
<1> DEFINE t == SubSeq(s, 1, m)
<1>1. /\ t \in Seq(S)
      /\ Len(t) = m
      /\ \A i \in 1 .. m : t[i] = s[i]
  OBVIOUS
<1> HIDE DEF t
<1>2. Len(t) <= Len(s)
  BY <1>1
<1>3. IsPrefix(t, s)
  BY <1>1, <1>2, PrefixDef
<1> QED
  BY <1>1, <1>3 DEF t

\* A prefix is what its length cuts off.
LEMMA PrefixIsCut ==
  ASSUME NEW S, NEW s \in Seq(S), NEW t \in Seq(S), IsPrefix(s, t)
  PROVE  s = SubSeq(t, 1, Len(s))
<1>1. s = SubSeq(s, 1, Len(s))
  OBVIOUS
<1> QED
  BY <1>1 DEF IsPrefix

\* Taking back what was appended.
LEMMA AppendFront ==
  ASSUME NEW S, NEW s \in Seq(S), NEW x \in S
  PROVE  /\ Append(s, x) \in Seq(S) /\ Append(s, x) # <<>>
         /\ Front(Append(s, x)) = s
         /\ Last(Append(s, x)) = x
         /\ \A i \in 1 .. Len(Append(s, x)) : Append(s, x)[i] = IF i = Len(s) + 1 THEN x ELSE s[i]
<1>1. Front(Append(s, x)) = s
  BY DEF Front
<1> QED
  BY <1>1 DEF Last

LEMMA FrontType ==
  ASSUME NEW S, NEW s \in Seq(S), s # <<>>
  PROVE  /\ Front(s) \in Seq(S) /\ Last(s) \in S
         /\ Len(s) \in DOMAIN s /\ Len(Front(s)) = Len(s) - 1
         /\ \A i \in 1 .. Len(Front(s)) : Front(s)[i] = s[i]
         /\ IsPrefix(Front(s), s)
<1>1. Len(s) - 1 \in 0 .. Len(s) /\ Len(s) \in DOMAIN s
  OBVIOUS
<1>2. Last(s) \in S
  BY <1>1 DEF Last
<1>3. Front(s) = SubSeq(s, 1, Len(s) - 1)
  BY DEF Front
<1> QED
  BY <1>1, <1>2, <1>3, PrefixCut

-----------------------------------------------------------------------------
(* Types *)

LEMMA SmallTypes ==
  /\ Blank \in CL /\ Clean \in [Issues -> CL \cup {NoCL}]
  /\ Idle \in Job /\ Unborn \in Issue
BY DEF Blank, Clean, Idle, Unborn, CL, Job, Issue, Labels

\* The parts of TypeOK, for the developers and issues they are about.
LEMMA TypeParts ==
  ASSUME TypeOK
  PROVE  /\ \A n \in Issues : issue[n] \in Issue
         /\ remote \in Seq(Change)
         /\ \A d \in Clones : /\ tip[d] \in Seq(Change)
                             /\ known[d] \in 0 .. Len(remote)
                             /\ stray[d] \in BOOLEAN
                             /\ mod[d] \in SUBSET Files
                             /\ job[d] \in Job
         /\ \A d \in Clones, n \in Issues : cls[d][n] \in CL \cup {NoCL}
BY DEF TypeOK

\* What a command begins with is a job.
LEMMA BeginType ==
  ASSUME TypeOK, NEW d \in Clones, NEW cmd \in Commands, NEW at \in Labels,
         NEW n \in Issues \cup {New}, NEW cl \in CL, Begin(d, cmd, at, n, cl)
  PROVE  job' \in [Clones -> Job]
<1>1. [Idle EXCEPT !.cmd = cmd, !.at = at, !.n = n, !.cl = cl] \in Job
  BY SmallTypes DEF Job
<1> QED
  BY <1>1 DEF Begin, TypeOK

LEMMA BeginNewType ==
  ASSUME TypeOK, NEW d \in Clones, NEW cmd \in Commands, NEW files \in SUBSET Files,
         NEW quotes \in SUBSET Issues, BeginNew(d, cmd, files, quotes)
  PROVE  job' \in [Clones -> Job]
<1>1. [Blank EXCEPT !.files = files] \in CL
  BY SmallTypes DEF CL
<1>2. [Idle EXCEPT !.cmd = cmd, !.at = "create", !.quotes = quotes,
                   !.cl = [Blank EXCEPT !.files = files]] \in Job
  BY <1>1, SmallTypes DEF Job, Labels
<1> QED
  BY <1>2 DEF BeginNew, TypeOK

\* A CL that is there is one.
LEMMA LocalType ==
  ASSUME TypeOK, NEW d \in Clones, NEW n \in Local(d)
  PROVE  n \in Issues /\ cls[d][n] \in CL
BY TypeParts DEF Local

LEMMA DownloadedType ==
  ASSUME TypeOK, NEW d \in Clones, NEW n \in Issues, Born(n)
  PROVE  LoadCL(d, n) \in CL /\ Downloaded(d, n) \in CL
<1>1. LoadCL(d, n) \in CL
  BY LocalType, SmallTypes DEF LoadCL
<1>2. issue[n].patch \in SUBSET Files /\ issue[n].owner \in Clones \cup {Nobody} /\ issue[n].mailed \in BOOLEAN
  BY TypeParts DEF Issue
<1> QED
  BY <1>1, <1>2 DEF Downloaded, CL

\* The revisions of a clone are histories, and not empty.
LEMMA LogChange ==
  ASSUME TypeOK, NEW d \in Clones, NEW rev \in Log(d)
  PROVE  rev \in Seq(Change) /\ rev # <<>> /\ rev[Len(rev)] \in Change
<1>1. PICK h \in {tip[d], remote} : \E i \in 1 .. Len(h) : rev = SubSeq(h, 1, i)
  BY TypeParts DEF Log
<1>2. h \in Seq(Change)
  BY TypeParts
<1> PICK i \in 1 .. Len(h) : rev = SubSeq(h, 1, i)
  BY <1>1
<1>3. rev \in Seq(Change) /\ Len(rev) = i
  BY <1>2, PrefixCut
<1> QED
  BY <1>3

\* The CLs hg file has changed.
LEMMA RefileType ==
  ASSUME TypeOK, NEW d \in Clones, NEW n \in Local(d),
         NEW files \in SUBSET mod[d], NEW taken
  PROVE  Refile(d, n, files, taken) \in Job
<1>1. ASSUME NEW m \in Local(d)
      PROVE  /\ [cls[d][m] EXCEPT !.files = @ \cup files] \in CL
             /\ [cls[d][m] EXCEPT !.files = @ \ files] \in CL
  BY <1>1, LocalType, TypeParts DEF CL
<1> QED
  BY <1>1, SmallTypes DEF Refile, Job, Labels, Commands

\* The commands.
LEMMA CommandType ==
  ASSUME TypeOK, NEW d \in Clones, Command(d)
  PROVE  TypeOK'
<1> USE DEF Labels, Commands
<1>0. left' \in [commands: 0 .. MaxCommands, fails: 0 .. MaxFails]
  BY BoundAssumption DEF Command, TypeOK
<1>1. CASE ChangeNew(d)
  <2>1. job' \in [Clones -> Job]
    <3>1. PICK files \in SUBSET Files, q \in {n \in Issues : Born(n)} \cup {New} :
            BeginNew(d, "new", files, {q} \ {New})
      BY <1>1 DEF ChangeNew, EditCL
    <3>2. {q} \ {New} \in SUBSET Issues
      OBVIOUS
    <3> QED
      BY <3>1, <3>2, BeginNewType
  <2> QED
    BY <1>0, <1>1, <2>1 DEF ChangeNew, TypeOK, repos, clone
<1>2. CASE MailCmd(d)
  <2>1. job' \in [Clones -> Job]
    <3>1. CASE CommandLineNew(d, "mail")
      BY <3>1, BeginNewType DEF CommandLineNew, EditCL
    <3>2. CASE \E n \in Issues : Born(n) /\ Begin(d, "mail", "patch", n, LoadCL(d, n))
      BY <3>2, BeginType, DownloadedType
    <3> QED
      BY <1>2, <3>1, <3>2 DEF MailCmd
  <2> QED
    BY <1>0, <1>2, <2>1 DEF MailCmd, TypeOK, repos, clone
<1>3. CASE SubmitCmd(d)
  <2>1. job' \in [Clones -> Job]
    <3>1. CASE CommandLineNew(d, "submit")
      BY <3>1, BeginNewType DEF CommandLineNew, EditCL
    <3>2. ASSUME NEW n \in Local(d),
                 Begin(d, "submit", IF cls[d][n].copied = Nobody THEN "patch" ELSE "save", n, cls[d][n])
          PROVE  job' \in [Clones -> Job]
      BY <3>2, BeginType, LocalType
    <3> QED
      BY <1>3, <3>1, <3>2 DEF SubmitCmd
  <2> QED
    BY <1>0, <1>3, <2>1 DEF SubmitCmd, TypeOK, repos, clone
<1>4. CASE Undo(d)
  <2>1. PICK rev \in Log(d) : /\ rev[Len(rev)].files \cap mod[d] = {}
                              /\ mod' = [mod EXCEPT ![d] = @ \cup rev[Len(rev)].files]
                              /\ BeginNew(d, "undo", rev[Len(rev)].files,
                                          rev[Len(rev)].quotes \cup {rev[Len(rev)].n})
    BY <1>4 DEF Undo
  <2>2. rev[Len(rev)] \in Change
    BY LogChange
  <2>3. job' \in [Clones -> Job]
    BY <2>1, <2>2, BeginNewType DEF Change
  <2>4. mod' \in [Clones -> SUBSET Files]
    BY <2>1, <2>2 DEF Change, TypeOK
  <2> QED
    BY <1>0, <1>4, <2>3, <2>4 DEF Undo, TypeOK, repos
<1>5. ASSUME NEW at \in {"pull", "update"}, SyncCmd(d, at)
      PROVE  TypeOK'
  <2>1. job' \in [Clones -> Job]
    BY <1>5, BeginType, SmallTypes DEF SyncCmd
  <2> QED
    BY <1>0, <1>5, <2>1 DEF SyncCmd, TypeOK, repos, clone
<1>6. ASSUME NEW n \in Issues, ChangeEdit(d, n) \/ ChangeDelete(d, n) \/ UploadCmd(d, n)
      PROVE  TypeOK'
  <2>1. job' \in [Clones -> Job]
    <3>1. n \in Local(d)
      BY <1>6 DEF ChangeEdit, ChangeDelete, UploadCmd
    <3>2. CASE ChangeEdit(d, n)
      <4>1. PICK files \in SUBSET Files : Begin(d, "edit", "save", n, [cls[d][n] EXCEPT !.files = files])
        BY <3>2 DEF ChangeEdit, EditCL
      <4>2. [cls[d][n] EXCEPT !.files = files] \in CL
        BY <3>1, LocalType DEF CL
      <4> QED
        BY <4>1, <4>2, BeginType
    <3>3. CASE ChangeDelete(d, n) \/ UploadCmd(d, n)
      BY <3>1, <3>3, LocalType, BeginType DEF ChangeDelete, UploadCmd
    <3> QED
      BY <1>6, <3>2, <3>3
  <2> QED
    BY <1>0, <1>6, <2>1 DEF ChangeEdit, ChangeDelete, UploadCmd, TypeOK, repos, clone
<1>7. ASSUME NEW n \in Issues, FileDelete(d, n)
      PROVE  TypeOK'
  <2>1. PICK files : Begin(d, "file", "save", n, [cls[d][n] EXCEPT !.files = @ \ files])
    BY <1>7 DEF FileDelete
  <2>2. [cls[d][n] EXCEPT !.files = @ \ files] \in CL
    BY <1>7, LocalType DEF FileDelete, CL
  <2>3. job' \in [Clones -> Job]
    BY <2>1, <2>2, BeginType
  <2> QED
    BY <1>0, <1>7, <2>3 DEF FileDelete, TypeOK, repos, clone
<1>8. ASSUME NEW n \in Issues, File(d, n)
      PROVE  TypeOK'
  <2>1. PICK files \in SUBSET (mod[d] \ cls[d][n].files) \ {{}} :
          \E taken \in [files -> Local(d) \cup {New}] : job' = [job EXCEPT ![d] = Refile(d, n, files, taken)]
    BY <1>8 DEF File
  <2> PICK taken : job' = [job EXCEPT ![d] = Refile(d, n, files, taken)]
    BY <2>1
  <2>2. Refile(d, n, files, taken) \in Job
    BY <1>8, <2>1, RefileType DEF File
  <2>3. job' \in [Clones -> Job]
    BY <2>2 DEF TypeOK
  <2> QED
    BY <1>0, <1>8, <2>3 DEF File, TypeOK, repos, clone
<1>9. ASSUME NEW n \in Issues, Clpatch(d, n)
      PROVE  TypeOK'
  <2>1. job' \in [Clones -> Job]
    BY <1>9, BeginType, DownloadedType DEF Clpatch
  <2>2. issue[n].patch \in SUBSET Files
    BY TypeParts DEF Issue
  <2>3. mod' \in [Clones -> SUBSET Files]
    BY <1>9, <2>2 DEF Clpatch, TypeOK
  <2> QED
    BY <1>0, <1>9, <2>1, <2>3 DEF Clpatch, TypeOK, repos
<1> QED
  BY <1>1, <1>2, <1>3, <1>4, <1>5, <1>6, <1>7, <1>8, <1>9 DEF Command

\* The job of a developer who has one: its CL and its number.
LEMMA JobParts ==
  ASSUME TypeOK, NEW d \in Clones
  PROVE  /\ job[d].at \in Labels
         /\ job[d].cmd \in Commands \cup {"none"}
         /\ job[d].n \in Issues \cup {New}
         /\ job[d].cl \in CL
         /\ job[d].quotes \in SUBSET Issues
         /\ job[d].dirty \in [Issues -> CL \cup {NoCL}]
BY TypeParts DEF Job

\* Steps that only change where the command is.
LEMMA GotoType ==
  ASSUME TypeOK, NEW d \in Clones, NEW at \in Labels, Goto(d, at) \/ Finish(d)
  PROVE  job' \in [Clones -> Job]
<1>1. [job[d] EXCEPT !.at = at] \in Job
  BY TypeParts DEF Job
<1> QED
  BY <1>1, SmallTypes DEF Goto, Finish, TypeOK

LEMMA FailType ==
  ASSUME TypeOK, Fail
  PROVE  left' \in [commands: 0 .. MaxCommands, fails: 0 .. MaxFails]
<1>1. left \in [commands: 0 .. MaxCommands, fails: 0 .. MaxFails]
  BY DEF TypeOK
<1>2. left.fails - 1 \in 0 .. MaxFails /\ left' = [left EXCEPT !.fails = left.fails - 1]
  BY <1>1, BoundAssumption DEF Fail
<1> QED
  BY <1>1, <1>2

\* The number of the issue a call is about (JobRight says that there is one).
Numbered ==
  \A d \in Clones :
    job[d].at \in {"patch", "save", "resave", "mail", "commit", "push", "announce",
                   "abandon", "close", "delete"} => job[d].n \in Issues

LEMMA UpdateType ==
  ASSUME TypeOK
  PROVE  /\ \A n, i : i \in Issue /\ issue' = [issue EXCEPT ![n] = i] => issue' \in [Issues -> Issue]
         /\ \A d, j : j \in Job /\ job' = [job EXCEPT ![d] = j] => job' \in [Clones -> Job]
BY DEF TypeOK

\* An issue that is created is the developer's, and nothing has been said of it.
LEMMA NewIssueType ==
  ASSUME NEW d \in Clones, job[d].cl \in CL, job[d].quotes \in SUBSET Issues, mod[d] \in SUBSET Files
  PROVE  /\ NewIssue(d) \in Issue /\ NewIssue(d).owner = d /\ NewIssue(d).submitted = {}
         /\ NewIssue(d).abandoned = FALSE /\ NewIssue(d).closed = FALSE
BY SmallTypes DEF NewIssue, Issue, Unborn

\* Writing a CL and posting its form may open an issue, and changes nothing else.
LEMMA FormPosted ==
  ASSUME TypeOK, NEW d \in Clones, FlushCL(d), job[d].n \in Issues
  PROVE  /\ issue' \in [Issues -> Issue]
         /\ \A n \in Issues : /\ issue'[n].owner = issue[n].owner
                              /\ issue'[n].mailed = issue[n].mailed
                              /\ issue'[n].abandoned = issue[n].abandoned
                              /\ issue'[n].submitted = issue[n].submitted
                              /\ n # job[d].n => issue'[n] = issue[n]
         /\ issue' = issue \/ issue'[job[d].n].closed = FALSE
<1>1. issue \in [Issues -> Issue] /\ issue[job[d].n] \in Issue
  BY DEF TypeOK
<1>2. CASE issue' = issue
  BY <1>1, <1>2
<1>3. CASE issue' = [issue EXCEPT ![job[d].n].closed = FALSE]
  <2>1. PICK i : i = [issue[job[d].n] EXCEPT !.closed = FALSE]
    OBVIOUS
  <2>2. /\ i \in Issue /\ i.owner = issue[job[d].n].owner /\ i.mailed = issue[job[d].n].mailed
        /\ i.abandoned = issue[job[d].n].abandoned /\ i.submitted = issue[job[d].n].submitted
        /\ i.closed = FALSE
    BY <1>1, <2>1 DEF Issue
  <2>3. issue' = [issue EXCEPT ![job[d].n] = i]
    BY <1>3, <2>1
  <2> QED
    BY <1>1, <2>2, <2>3
<1> QED
  BY <1>2, <1>3 DEF FlushCL

\* The calls to the review server.
LEMMA CallType ==
  ASSUME TypeOK, Numbered, NEW d \in Clones
  PROVE  /\ CreateIssue(d) \/ CreateUnheard(d) => TypeOK'
         /\ UploadPatch(d) \/ PostMail(d) => TypeOK'
         /\ PostAbandoned(d) \/ PostSubmitted(d) \/ CloseIssue(d) => TypeOK'
<1>0. /\ \A n \in Issues : issue[n] \in Issue
      /\ job[d] \in Job
      /\ job[d].cl \in CL /\ job[d].quotes \in SUBSET Issues /\ mod[d] \in SUBSET Files
  BY JobParts, TypeParts
<1>1. ASSUME CreateIssue(d)
      PROVE  TypeOK'
  <2>1. PICK n \in Issues :
          /\ issue' = [issue EXCEPT ![n] = NewIssue(d)]
          /\ job' = [job EXCEPT ![d] = [job[d] EXCEPT !.n = n, !.at = "save"]]
    BY <1>1 DEF CreateIssue
  <2>2. NewIssue(d) \in Issue
    BY <1>0, NewIssueType
  <2>3. [job[d] EXCEPT !.n = n, !.at = "save"] \in Job
    BY <1>0 DEF Job, Labels
  <2>4. issue' \in [Issues -> Issue] /\ job' \in [Clones -> Job]
    BY <2>1, <2>2, <2>3, UpdateType
  <2> QED
    BY <1>1, <2>4 DEF CreateIssue, TypeOK, repos, clone
<1>2. ASSUME CreateUnheard(d)
      PROVE  TypeOK'
  <2>1. PICK n \in Issues :
          issue' = [issue EXCEPT ![n] = NewIssue(d)]
    BY <1>2 DEF CreateUnheard
  <2>2. NewIssue(d) \in Issue
    BY <1>0, NewIssueType
  <2>3. issue' \in [Issues -> Issue]
    BY <2>1, <2>2, UpdateType
  <2>4. job' \in [Clones -> Job]
    BY <1>2, GotoType DEF CreateUnheard, Labels
  <2> QED
    BY <1>2, <2>3, <2>4, FailType DEF CreateUnheard, TypeOK, repos, clone
<1>3. ASSUME UploadPatch(d)
      PROVE  TypeOK'
  <2>1. issue[job[d].n] \in Issue
    BY <1>0, <1>3 DEF UploadPatch, At, Numbered
  <2>2. issue' = [issue EXCEPT ![job[d].n] = [issue[job[d].n] EXCEPT !.patch = job[d].cl.files \cap mod[d]]]
    BY <1>3 DEF UploadPatch, PostMessage
  <2>3. [issue[job[d].n] EXCEPT !.patch = job[d].cl.files \cap mod[d]] \in Issue
    BY <1>0, <2>1 DEF Issue, CL
  <2>4. issue' \in [Issues -> Issue]
    BY <2>2, <2>3, UpdateType
  <2>5. job' \in [Clones -> Job]
    BY <1>3, GotoType DEF UploadPatch, Labels
  <2> QED
    BY <1>3, <2>4, <2>5 DEF UploadPatch, TypeOK, repos, clone
<1>4. ASSUME PostMail(d)
      PROVE  TypeOK'
  <2>1. issue[job[d].n] \in Issue
    BY <1>0, <1>4 DEF PostMail, At, Numbered
  <2>2. issue' = [issue EXCEPT ![job[d].n] = [issue[job[d].n] EXCEPT !.mailed = TRUE]]
    BY <1>4 DEF PostMail, PostMessage
  <2>3. [issue[job[d].n] EXCEPT !.mailed = TRUE] \in Issue
    BY <1>0, <2>1 DEF Issue, CL
  <2>4. issue' \in [Issues -> Issue]
    BY <2>2, <2>3, UpdateType
  <2>5. job' \in [Clones -> Job]
    <3>1. [job[d] EXCEPT !.at = "resave", !.cl.mailed = TRUE] \in Job
      BY <1>0 DEF Job, CL, Labels
    <3>2. job' = [job EXCEPT ![d] = [job[d] EXCEPT !.at = "resave", !.cl.mailed = TRUE]]
      BY <1>4 DEF PostMail
    <3> QED
      BY <3>1, <3>2, UpdateType
  <2> QED
    BY <1>4, <2>4, <2>5 DEF PostMail, TypeOK, repos, clone
<1>5. ASSUME PostAbandoned(d)
      PROVE  TypeOK'
  <2>1. issue[job[d].n] \in Issue
    BY <1>0, <1>5 DEF PostAbandoned, At, Numbered
  <2>2. issue' = [issue EXCEPT ![job[d].n] = [issue[job[d].n] EXCEPT !.abandoned = TRUE]]
    BY <1>5 DEF PostAbandoned, PostMessage
  <2>3. [issue[job[d].n] EXCEPT !.abandoned = TRUE] \in Issue
    BY <1>0, <2>1 DEF Issue, CL
  <2>4. issue' \in [Issues -> Issue]
    BY <2>2, <2>3, UpdateType
  <2>5. job' \in [Clones -> Job]
    BY <1>5, GotoType DEF PostAbandoned, Labels
  <2> QED
    BY <1>5, <2>4, <2>5 DEF PostAbandoned, TypeOK, repos, clone
<1>6. ASSUME PostSubmitted(d)
      PROVE  TypeOK'
  <2>1. issue[job[d].n] \in Issue /\ tip[d] \in Seq(Change)
    BY <1>0, <1>6, TypeParts DEF PostSubmitted, At, Numbered
  <2>2. issue' = [issue EXCEPT ![job[d].n] = [issue[job[d].n] EXCEPT !.submitted = @ \cup {tip[d]}]]
    BY <1>6 DEF PostSubmitted, PostMessage
  <2>3. [issue[job[d].n] EXCEPT !.submitted = @ \cup {tip[d]}] \in Issue
    BY <1>0, <2>1 DEF Issue, CL
  <2>4. issue' \in [Issues -> Issue]
    BY <2>2, <2>3, UpdateType
  <2>5. job' \in [Clones -> Job]
    BY <1>6, GotoType DEF PostSubmitted, Labels
  <2> QED
    BY <1>6, <2>4, <2>5 DEF PostSubmitted, TypeOK, repos, clone
<1>7. ASSUME CloseIssue(d)
      PROVE  TypeOK'
  <2>1. issue[job[d].n] \in Issue
    BY <1>0, <1>7 DEF CloseIssue, At, Numbered
  <2>2. issue' = [issue EXCEPT ![job[d].n] = [issue[job[d].n] EXCEPT !.closed = TRUE]]
    BY <1>7 DEF CloseIssue, PostMessage
  <2>3. [issue[job[d].n] EXCEPT !.closed = TRUE] \in Issue
    BY <1>0, <2>1 DEF Issue, CL
  <2>4. issue' \in [Issues -> Issue]
    BY <2>2, <2>3, UpdateType
  <2>5. job' \in [Clones -> Job]
    BY <1>7, GotoType DEF CloseIssue, Labels
  <2> QED
    BY <1>7, <2>4, <2>5 DEF CloseIssue, TypeOK, repos, clone
<1> QED
  BY <1>1, <1>2, <1>3, <1>4, <1>5, <1>6, <1>7

\* The files cl.N.
LEMMA FileStepType ==
  ASSUME TypeOK, Numbered, NEW d \in Clones
  PROVE  FlushCL(d) \/ DeleteCL(d) \/ FlushDirty(d) => TypeOK'
<1> USE JobParts, TypeParts
<1>1. ASSUME FlushCL(d)
      PROVE  TypeOK'
  <2>1. cls' \in [Clones -> [Issues -> CL \cup {NoCL}]]
    BY <1>1 DEF FlushCL, TypeOK
  <2>2. AfterFlush(job[d]) \in Labels
    BY DEF AfterFlush, Labels
  <2>3. job' \in [Clones -> Job]
    BY <1>1, <2>2, GotoType DEF FlushCL
  <2>4. issue' \in [Issues -> Issue]
    BY <1>1, FormPosted DEF FlushCL, Numbered
  <2> QED
    BY <1>1, <2>1, <2>3, <2>4 DEF FlushCL, TypeOK, repos
<1>2. ASSUME DeleteCL(d)
      PROVE  TypeOK'
  <2>1. cls' \in [Clones -> [Issues -> CL \cup {NoCL}]]
    BY <1>2 DEF DeleteCL, TypeOK
  <2>2. job' \in [Clones -> Job]
    <3>1. CASE job[d].cmd = "sync"
      BY <1>2, <3>1, BeginType, SmallTypes DEF DeleteCL, Labels, Commands
    <3>2. CASE job[d].cmd # "sync"
      BY <1>2, <3>2, GotoType DEF DeleteCL, Labels
    <3> QED
      BY <3>1, <3>2
  <2> QED
    BY <1>2, <2>1, <2>2 DEF DeleteCL, TypeOK, repos
<1>3. ASSUME FlushDirty(d)
      PROVE  TypeOK'
  <2>1. CASE job[d].dirty = Clean /\ Finish(d) /\ cls' = cls
    <3>1. job' \in [Clones -> Job]
      BY <2>1, GotoType DEF Labels
    <3> QED
      BY <1>3, <2>1, <3>1 DEF FlushDirty, TypeOK, repos
  <2>2. ASSUME NEW n \in Issues,
               job[d].dirty[n] # NoCL,
               cls' = [cls EXCEPT ![d][n] = job[d].dirty[n]],
               job' = [job EXCEPT ![d].dirty[n] = NoCL]
        PROVE  TypeOK'
    <3>1. cls' \in [Clones -> [Issues -> CL \cup {NoCL}]]
      BY <2>2 DEF TypeOK
    <3>2. [job[d] EXCEPT !.dirty[n] = NoCL] \in Job
      <4>1. [job[d].dirty EXCEPT ![n] = NoCL] \in [Issues -> CL \cup {NoCL}]
        OBVIOUS
      <4> QED
        BY <4>1 DEF Job
    <3>3. job' = [job EXCEPT ![d] = [job[d] EXCEPT !.dirty[n] = NoCL]]
      BY <2>2
    <3>4. job' \in [Clones -> Job]
      BY <3>2, <3>3, UpdateType
    <3> QED
      BY <1>3, <3>1, <3>4 DEF FlushDirty, TypeOK, repos
  <2> QED
    BY <1>3, <2>1, <2>2 DEF FlushDirty
<1> QED
  BY <1>1, <1>2, <1>3

\* The repositories.
LEMMA RepoStepType ==
  ASSUME TypeOK, Numbered, NEW d \in Clones, At(d, "push") => tip[d] # <<>>
  PROVE  /\ Commit(d) \/ Push(d) \/ PushFails(d) => TypeOK'
         /\ Pull(d) \/ Update(d) => TypeOK'
         /\ (\E n \in Issues : Scan(d, n)) \/ Prune(d) => TypeOK'
<1> USE JobParts, TypeParts
<1>1. ASSUME Commit(d)
      PROVE  TypeOK'
  <2> DEFINE c == [n |-> job[d].n, quotes |-> issue[job[d].n].quotes,
                   files |-> job[d].cl.files \cap mod[d], user |-> Author(d, job[d].cl), by |-> d]
  <2>1. c \in Change
    BY <1>1 DEF Commit, Change, Author, CL, Issue, At, Numbered
  <2>2. tip' = [tip EXCEPT ![d] = Append(@, c)]
    BY <1>1 DEF Commit
  <2>3. tip' \in [Clones -> Seq(Change)]
    BY <2>1, <2>2 DEF TypeOK
  <2>4. job' \in [Clones -> Job]
    BY <1>1, GotoType DEF Commit, Labels
  <2>5. mod' \in [Clones -> SUBSET Files]
    BY <1>1 DEF Commit, TypeOK
  <2> QED
    BY <1>1, <2>3, <2>4, <2>5 DEF Commit, TypeOK
<1>2. ASSUME Push(d)
      PROVE  TypeOK'
  <2>1. job' \in [Clones -> Job]
    BY <1>2, GotoType DEF Push, Labels
  <2>2. remote' \in Seq(Change) /\ Len(remote) <= Len(remote')
    BY <1>2 DEF Push, MayPush, IsPrefix
  <2>3. known' \in [Clones -> 0 .. Len(remote')]
    BY <1>2, <2>2 DEF Push, TypeOK
  <2> QED
    BY <1>2, <2>1, <2>2, <2>3 DEF Push, TypeOK, clone
<1>3. ASSUME PushFails(d)
      PROVE  TypeOK'
  <2>1. job' \in [Clones -> Job]
    BY <1>3, GotoType DEF PushFails, Labels
  <2>2. remote' \in Seq(Change) /\ Len(remote) <= Len(remote')
    BY <1>3 DEF PushFails, MayPush, IsPrefix
  <2>3. Last(tip[d]) \in Change /\ Front(tip[d]) \in Seq(Change)
    BY <1>3, FrontType DEF PushFails
  <2>4. tip' \in [Clones -> Seq(Change)] /\ mod' \in [Clones -> SUBSET Files]
    BY <1>3, <2>3 DEF PushFails, Rollback, TypeOK, Change
  <2>5. known' \in [Clones -> 0 .. Len(remote')]
    BY <1>3, <2>2 DEF PushFails, TypeOK
  <2> QED
    BY <1>3, <2>1, <2>2, <2>4, <2>5 DEF PushFails, TypeOK
<1>4. ASSUME Pull(d)
      PROVE  TypeOK'
  <2>1. job' \in [Clones -> Job]
    BY <1>4, GotoType DEF Pull, Labels
  <2>2. Len(remote) \in 0 .. Len(remote)
    OBVIOUS
  <2> QED
    BY <1>4, <2>1, <2>2 DEF Pull, TypeOK, clone
<1>5. ASSUME Update(d)
      PROVE  TypeOK'
  <2>1. job' \in [Clones -> Job]
    BY <1>5, GotoType DEF Update, Labels
  <2>2. Pulled(d) \in Seq(Change)
    BY PrefixCut DEF Pulled
  <2>3. tip' \in [Clones -> Seq(Change)]
    <3>1. tip' = tip \/ tip' = [tip EXCEPT ![d] = Pulled(d)]
      BY <1>5 DEF Update
    <3> QED
      BY <2>2, <3>1 DEF TypeOK
  <2>4. stray' \in [Clones -> BOOLEAN]
    <3>1. stray' = stray \/ stray' = [stray EXCEPT ![d] = TRUE]
      BY <1>5 DEF Update
    <3> QED
      BY <3>1 DEF TypeOK
  <2>5. mod' \in [Clones -> SUBSET Files]
    <3>1. mod' = mod \/ \E same : mod' = [mod EXCEPT ![d] = mod[d] \ same]
      BY <1>5 DEF Update
    <3>2. mod \in [Clones -> SUBSET Files]
      BY DEF TypeOK
    <3>3. \A same : mod[d] \ same \in SUBSET Files
      BY <3>2
    <3> QED
      BY <3>1, <3>2, <3>3
  <2> QED
    BY <1>5, <2>1, <2>3, <2>4, <2>5 DEF Update, TypeOK
<1>6. ASSUME NEW n \in Issues, Scan(d, n)
      PROVE  TypeOK'
  <2>1. cls[d][n] \in CL
    BY <1>6, LocalType DEF Scan, ToClose
  <2>2. job' \in [Clones -> Job]
    BY <1>6, <2>1, BeginType DEF Scan, Labels, Commands
  <2> QED
    BY <1>6, <2>2 DEF Scan, TypeOK, repos, clone
<1>7. ASSUME Prune(d)
      PROVE  TypeOK'
  <2>1. job' \in [Clones -> Job]
    <3>1. \A n \in Local(d) : [cls[d][n] EXCEPT !.files = @ \cap mod[d]] \in CL
      BY LocalType DEF CL
    <3> QED
      BY <1>7, <3>1, SmallTypes DEF Prune, TypeOK, Job, Labels, Commands
  <2>2. left' \in [commands: 0 .. MaxCommands, fails: 0 .. MaxFails]
    BY <1>7, FailType DEF Prune, TypeOK
  <2> QED
    BY <1>7, <2>1, <2>2 DEF Prune, TypeOK, repos, clone
<1> QED
  BY <1>1, <1>2, <1>3, <1>4, <1>5, <1>6, <1>7

\* Ends of a command, and the developer.
LEMMA EndType ==
  ASSUME TypeOK, NEW d \in Clones, Refused(d) \/ Stop(d) \/ Kill(d) \/ Modify(d)
  PROVE  TypeOK'
<1>1. CASE Refused(d) \/ Stop(d)
  <2>1. job' \in [Clones -> Job]
    BY <1>1, GotoType DEF Refused, Stop, Labels
  <2>2. left' \in [commands: 0 .. MaxCommands, fails: 0 .. MaxFails]
    BY <1>1, FailType DEF Refused, Stop, TypeOK
  <2> QED
    BY <1>1, <2>1, <2>2 DEF Refused, Stop, TypeOK, repos, clone
<1>2. CASE Kill(d)
  <2>1. job' \in [Clones -> Job]
    BY <1>2, GotoType DEF Kill, Labels
  <2> QED
    BY <1>2, <2>1, FailType DEF Kill, TypeOK, repos, clone
<1>3. CASE Modify(d)
  BY <1>3 DEF Modify, TypeOK, repos
<1> QED
  BY <1>1, <1>2, <1>3

-----------------------------------------------------------------------------
(* What other developers rely on only grows                                *)

\* Owners stay, and what has been said of an issue remains said.
Grown(is, js) ==
  \A n \in Issues :
    /\ is[n].owner # Nobody => js[n].owner = is[n].owner
    /\ is[n].mailed => js[n].mailed
    /\ is[n].abandoned => js[n].abandoned
    /\ is[n].submitted \subseteq js[n].submitted

\* The author of a CL is a developer, so its issue is there.
LEMMA AuthorBorn ==
  ASSUME NEW d \in Clones, NEW cl \in CL
  PROVE  Author(d, cl) \in Clones /\ Author(d, cl) # Nobody
BY NameAssumption DEF Author, CL

LEMMA CLGrows ==
  ASSUME NEW is, NEW js, Grown(is, js), NEW d \in Clones, NEW n \in Issues,
         NEW cl \in CL, CLRight(is, d, n, cl)
  PROVE  CLRight(js, d, n, cl)
BY AuthorBorn DEF Grown, CLRight

LEMMA HistoryGrows ==
  ASSUME NEW is, NEW js, Grown(is, js), NEW h \in Seq(Change), HistoryRight(is, h)
  PROVE  HistoryRight(js, h)
<1>1. ASSUME NEW i \in DOMAIN h
      PROVE  h[i].n \in Issues /\ h[i].user # Nobody
  <2>1. h[i] \in Change
    OBVIOUS
  <2> QED
    BY <2>1, NameAssumption DEF Change
<1> QED
  BY <1>1 DEF Grown, HistoryRight

LEMMA InHistoryGrows ==
  ASSUME NEW h \in Seq(Change), NEW g \in Seq(Change), IsPrefix(h, g),
         NEW n, InHistory(h, n)
  PROVE  InHistory(g, n)
<1>1. Len(h) <= Len(g) /\ \A i \in 1 .. Len(h) : h[i] = g[i]
  BY PrefixDef
<1>2. PICK i \in 1 .. Len(h) : h[i].n = n
  BY DEF InHistory
<1>3. i \in DOMAIN g /\ g[i].n = n
  BY <1>1, <1>2
<1> QED
  BY <1>3 DEF InHistory

LEMMA HeldGrows ==
  ASSUME NEW is, NEW js, Grown(is, js), NEW d \in Clones, NEW j \in Job, HeldRight(is, d, j)
  PROVE  HeldRight(js, d, j)
<1>1. j.cl \in CL /\ j.dirty \in [Issues -> CL \cup {NoCL}]
  BY DEF Job
<1>2. /\ j.at \in Holding \cup {"patch"} => j.n \in Issues
      /\ j.at \in {"create", "recreate"} => j.cl.copied = Nobody /\ ~ j.cl.mailed
  BY DEF HeldRight
<1>3. ASSUME j.at = "patch"
      PROVE  /\ j.cl.copied # d
             /\ j.cl.copied \in {Nobody, js[j.n].owner}
             /\ j.cl.mailed /\ j.cl.copied = Nobody => js[j.n].mailed
  BY <1>2, <1>3 DEF HeldRight, Grown
<1>4. j.at \in Holding => CLRight(js, d, j.n, j.cl)
  BY <1>1, <1>2, CLGrows DEF HeldRight
<1>5. \A n \in Issues : j.dirty[n] # NoCL => CLRight(js, d, n, j.dirty[n])
  BY <1>1, CLGrows DEF HeldRight
<1> QED
  BY <1>2, <1>3, <1>4, <1>5 DEF HeldRight

LEMMA DoneGrows ==
  ASSUME NEW is, NEW js, Grown(is, js),
         NEW h \in Seq(Change), NEW g \in Seq(Change), IsPrefix(h, g),
         NEW t \in Seq(Change), NEW d \in Clones, NEW j \in Job,
         HeldRight(is, d, j), DoneRight(is, h, t, j)
  PROVE  DoneRight(js, g, t, j)
<1>1. j.at = "announce" => IsPrefix(t, g)
  BY PrefixTrans DEF DoneRight
<1>2. j.at = "close" => js[j.n].abandoned \/ js[j.n].submitted # {}
  BY DEF DoneRight, HeldRight, Holding, Grown
<1>3. j.at \in {"abandon", "close", "delete"} => j.cmd \in {"abandon", "forget"} \/ InHistory(g, j.n)
  BY InHistoryGrows DEF DoneRight
<1> QED
  BY <1>1, <1>2, <1>3 DEF DoneRight

LEMMA NotAheadGrows ==
  ASSUME NEW h \in Seq(Change), NEW g \in Seq(Change), IsPrefix(h, g),
         NEW t \in Seq(Change), NEW j, j.at = "push" => t # <<>>, NotAhead(h, t, j)
  PROVE  NotAhead(g, t, j)
<1>1. (IF j.at = "push" THEN Front(t) ELSE t) \in Seq(Change)
  BY FrontType
<1> QED
  BY <1>1, PrefixTrans DEF NotAhead

\* Enough for a step of developer d to preserve the invariant.
LEMMA StepRight ==
  ASSUME IInv, TypeOK', NEW d \in Clones,
         Grown(issue, issue'), IsPrefix(remote, remote'),
         IssuesRight(issue', remote'), HistoryRight(issue', remote'),
         \A e \in Clones \ {d} : cls'[e] = cls[e] /\ tip'[e] = tip[e] /\ job'[e] = job[e],
         killed \subseteq killed',
         CloneRight(d)'
  PROVE  IInv'
<1>1. ASSUME NEW e \in Clones \ {d}
      PROVE  CloneRight(e)'
  <2>1. cls'[e] = cls[e] /\ tip'[e] = tip[e] /\ job'[e] = job[e] /\ CloneRight(e)
    BY DEF IInv
  <2>2. /\ remote \in Seq(Change) /\ remote' \in Seq(Change)
        /\ tip[e] \in Seq(Change) /\ job[e] \in Job
        /\ \A n \in Issues : cls[e][n] \in CL \cup {NoCL}
    BY TypeParts DEF IInv, TypeOK
  <2>3. \A n \in Issues : cls[e][n] # NoCL => CLRight(issue', e, n, cls[e][n])
    BY <2>1, <2>2, CLGrows DEF CloneRight
  <2>4. HistoryRight(issue', tip[e])
    BY <2>1, <2>2, HistoryGrows DEF CloneRight
  <2>5. HeldRight(issue', e, job[e])
    BY <2>1, <2>2, HeldGrows DEF CloneRight
  <2>6. DoneRight(issue', remote', tip[e], job[e])
    BY <2>1, <2>2, DoneGrows DEF CloneRight
  <2>7. e \notin killed' => NotAhead(remote', tip[e], job[e])
    <3>1. job[e].at = "push" => tip[e] # <<>>
      BY <2>1 DEF CloneRight, DoneRight
    <3>2. e \notin killed' => NotAhead(remote, tip[e], job[e])
      BY <2>1 DEF CloneRight
    <3> QED
      BY <2>2, <3>1, <3>2, NotAheadGrows
  <2> QED
    BY <2>1, <2>3, <2>4, <2>5, <2>6, <2>7 DEF CloneRight
<1> QED
  BY <1>1 DEF IInv

\* A step that leaves the repositories and the head alone, and of the server what
\* the invariant speaks of.
LEMMA QuietRight ==
  ASSUME IInv, TypeOK', NEW d \in Clones,
         issue' = issue \/ (Grown(issue, issue') /\ IssuesRight(issue', remote)), remote' = remote, tip' = tip, killed \subseteq killed',
         \A e \in Clones \ {d} : cls'[e] = cls[e] /\ job'[e] = job[e],
         \A n \in Issues : cls'[d][n] # NoCL => CLRight(issue, d, n, cls'[d][n]),
         HeldRight(issue, d, job'[d]),
         DoneRight(issue, remote, tip[d], job'[d]),
         ~ At(d, "push") \/ d \in killed', job'[d].at # "push"
  PROVE  IInv'
<1>1. /\ remote \in Seq(Change) /\ tip[d] \in Seq(Change) /\ job'[d] \in Job
      /\ \A n \in Issues : cls'[d][n] \in CL \cup {NoCL}
  BY TypeParts DEF IInv, TypeOK
<1>2. Grown(issue, issue') /\ IsPrefix(remote, remote')
  BY <1>1, PrefixRefl DEF Grown
<1>3. IssuesRight(issue', remote') /\ HistoryRight(issue', remote')
  BY <1>1, <1>2, HistoryGrows DEF IInv
<1>4. CloneRight(d)'
  <2>1. CloneRight(d)
    BY DEF IInv
  <2>2. HistoryRight(issue', tip'[d])
    BY <1>1, <1>2, <2>1, HistoryGrows DEF CloneRight
  <2>3. d \notin killed' => NotAhead(remote', tip'[d], job'[d])
    BY <2>1 DEF CloneRight, NotAhead, At
  <2>4. \A n \in Issues : cls'[d][n] # NoCL => CLRight(issue', d, n, cls'[d][n])
    BY <1>1, <1>2, CLGrows
  <2>5. HeldRight(issue', d, job'[d])
    BY <1>1, <1>2, HeldGrows
  <2>6. DoneRight(issue', remote', tip'[d], job'[d])
    BY <1>1, <1>2, DoneGrows
  <2> QED
    BY <2>2, <2>3, <2>4, <2>5, <2>6 DEF CloneRight
<1> QED
  BY <1>2, <1>3, <1>4, StepRight

\* A step that also leaves the files cl.N alone.
LEMMA IdleRight ==
  ASSUME IInv, TypeOK', NEW d \in Clones,
         issue' = issue, remote' = remote, tip' = tip, cls' = cls, killed \subseteq killed',
         NEW j \in Job, job' = [job EXCEPT ![d] = j],
         HeldRight(issue, d, j), DoneRight(issue, remote, tip[d], j),
         ~ At(d, "push") \/ d \in killed', j.at # "push"
  PROVE  IInv'
<1>1. job'[d] = j /\ \A e \in Clones \ {d} : job'[e] = job[e]
  BY DEF IInv, TypeOK
<1>2. \A n \in Issues : cls[d][n] # NoCL => CLRight(issue, d, n, cls[d][n])
  BY DEF IInv, CloneRight
<1> QED
  BY <1>1, <1>2, QuietRight

\* Nothing is held by a developer who runs no command.
LEMMA NothingHeld ==
  ASSUME NEW is, NEW h, NEW t, NEW d
  PROVE  /\ HeldRight(is, d, Idle) /\ DoneRight(is, h, t, Idle)
         /\ Idle \in Job /\ Idle.at # "push"
BY SmallTypes DEF HeldRight, DoneRight, Idle, Holding, Clean

\* What a command begins with, where it has a CL.
LEMMA BeginRight ==
  ASSUME IInv, TypeOK', NEW d \in Clones, At(d, "idle") \/ At(d, "scan"),
         issue' = issue, remote' = remote, tip' = tip, cls' = cls, killed' = killed,
         NEW cmd \in Commands, NEW at \in {"patch", "save", "abandon", "delete", "close"},
         NEW n \in Issues, NEW cl \in CL, Begin(d, cmd, at, n, cl),
         \/ CLRight(issue, d, n, cl)
         \/ at = "patch" /\ cl = Blank,
         at \in {"abandon", "delete", "close"} =>
            \/ cmd \in {"abandon", "forget"} /\ at # "close"
            \/ issue[n].submitted # {} /\ InHistory(remote, n)
  PROVE  IInv'
<1> DEFINE j == [Idle EXCEPT !.cmd = cmd, !.at = at, !.n = n, !.cl = cl]
<1>1. j \in Job /\ j.at = at /\ j.cmd = cmd /\ j.n = n /\ j.cl = cl /\ j.dirty = Clean
  BY SmallTypes DEF Job, Labels, Idle
<1>2. job' = [job EXCEPT ![d] = j]
  BY DEF Begin
<1> HIDE DEF j
<1>3. HeldRight(issue, d, j)
  <2>1. at = "patch" => cl.copied # d /\ cl.copied \in {Nobody, issue[n].owner}
                          /\ (cl.mailed /\ cl.copied = Nobody => issue[n].mailed)
    BY NameAssumption DEF CLRight, Author, Blank
  <2>2. at \in Holding => CLRight(issue, d, n, cl)
    BY DEF Holding
  <2> QED
    BY <1>1, <2>1, <2>2 DEF HeldRight, Clean
<1>4. DoneRight(issue, remote, tip[d], j)
  BY <1>1 DEF DoneRight
<1> QED
  BY <1>1, <1>2, <1>3, <1>4, IdleRight DEF At

\* A new CL is the developer's own.
LEMMA BeginNewRight ==
  ASSUME IInv, TypeOK', NEW d \in Clones, At(d, "idle"),
         issue' = issue, remote' = remote, tip' = tip, cls' = cls, killed' = killed,
         NEW cmd \in Commands, NEW files \in SUBSET Files, NEW quotes \in SUBSET Issues,
         BeginNew(d, cmd, files, quotes)
  PROVE  IInv'
<1> DEFINE cl == [Blank EXCEPT !.files = files]
           j == [Idle EXCEPT !.cmd = cmd, !.at = "create", !.quotes = quotes, !.cl = cl]
<1>1. cl \in CL /\ cl.copied = Nobody /\ ~ cl.mailed
  BY SmallTypes DEF Blank, CL
<1>2. job' = [job EXCEPT ![d] = j]
  BY DEF BeginNew
<1> HIDE DEF cl
<1>3. j \in Job /\ j.at = "create" /\ j.cl = cl /\ j.dirty = Clean
  BY <1>1, SmallTypes DEF Job, Labels, Idle
<1> HIDE DEF j
<1>4. HeldRight(issue, d, j)
  BY <1>1, <1>3 DEF HeldRight, Holding, Clean
<1>5. DoneRight(issue, remote, tip[d], j)
  BY <1>3 DEF DoneRight
<1> QED
  BY <1>2, <1>3, <1>4, <1>5, IdleRight DEF At

\* A CL that is on disk is right; what clpatch downloads, too.
LEMMA LocalRight ==
  ASSUME IInv, NEW d \in Clones, NEW n \in Local(d)
  PROVE  n \in Issues /\ cls[d][n] \in CL /\ CLRight(issue, d, n, cls[d][n])
BY LocalType DEF IInv, CloneRight, Local

LEMMA FilesRight ==
  ASSUME NEW is, NEW d, NEW n, NEW cl \in CL, CLRight(is, d, n, cl), NEW files \in SUBSET Files
  PROVE  [cl EXCEPT !.files = files] \in CL /\ CLRight(is, d, n, [cl EXCEPT !.files = files])
BY DEF CL, CLRight, Author

LEMMA DownloadedRight ==
  ASSUME IInv, NEW d \in Clones, NEW n \in Issues, Born(n)
  PROVE  CLRight(issue, d, n, Downloaded(d, n))
<1>1. LoadCL(d, n) = Blank \/ CLRight(issue, d, n, LoadCL(d, n))
  BY LocalRight DEF LoadCL
<1>2. LoadCL(d, n) \in CL
  BY DownloadedType DEF IInv
<1>3. issue[n].owner # Nobody
  BY DEF Born
<1>4. CASE issue[n].owner = d
  <2>1. LoadCL(d, n).copied = Nobody
    BY <1>1, <1>4 DEF CLRight, Author, Blank
  <2> QED
    BY <1>2, <1>3, <1>4, <2>1 DEF Downloaded, CLRight, Author, CL
<1>5. CASE issue[n].owner # d
  BY <1>2, <1>3, <1>5 DEF Downloaded, CLRight, Author, CL
<1> QED
  BY <1>4, <1>5

\* hg file leaves the CLs it changes right.
LEMMA RefileRight ==
  ASSUME IInv, NEW d \in Clones, NEW n \in Local(d), NEW files \in SUBSET mod[d], NEW taken
  PROVE  /\ HeldRight(issue, d, Refile(d, n, files, taken))
         /\ DoneRight(issue, remote, tip[d], Refile(d, n, files, taken))
         /\ Refile(d, n, files, taken).at # "push"
<1> DEFINE j == Refile(d, n, files, taken)
<1>1. /\ j.at = "flush"
      /\ \A m \in Issues : j.dirty[m] # NoCL =>
           /\ m \in Local(d)
           /\ \E fs : j.dirty[m] = [cls[d][m] EXCEPT !.files = fs]
  BY DEF Refile, Idle
<1>2. ASSUME NEW m \in Local(d), NEW fs
      PROVE  CLRight(issue, d, m, [cls[d][m] EXCEPT !.files = fs])
  BY LocalRight DEF CL, CLRight, Author
<1> HIDE DEF j
<1>3. \A m \in Issues : j.dirty[m] # NoCL => CLRight(issue, d, m, j.dirty[m])
  <2> SUFFICES ASSUME NEW m \in Issues, j.dirty[m] # NoCL
               PROVE  CLRight(issue, d, m, j.dirty[m])
    OBVIOUS
  <2>1. PICK fs : j.dirty[m] = [cls[d][m] EXCEPT !.files = fs]
    BY <1>1
  <2> QED
    BY <1>1, <1>2, <2>1
<1>4. HeldRight(issue, d, j)
  BY <1>1, <1>3 DEF HeldRight, Holding
<1>5. DoneRight(issue, remote, tip[d], j)
  BY <1>1 DEF DoneRight
<1> QED
  BY <1>1, <1>4, <1>5 DEF j

LEMMA CommandRight ==
  ASSUME IInv, NEW d \in Clones, Command(d)
  PROVE  IInv'
<1>0. TypeOK /\ TypeOK' /\ At(d, "idle")
  BY CommandType DEF IInv, Command
<1> USE DEF Commands
<1>1. CASE ChangeNew(d)
  <2>1. PICK files \in SUBSET Files, q \in {n \in Issues : Born(n)} \cup {New} :
          BeginNew(d, "new", files, {q} \ {New})
    BY <1>1 DEF ChangeNew, EditCL
  <2>2. {q} \ {New} \in SUBSET Issues
    OBVIOUS
  <2> QED
    BY <1>0, <1>1, <2>1, <2>2, BeginNewRight DEF ChangeNew, repos, clone
<1>2. ASSUME NEW cmd \in {"mail", "submit"}, CommandLineNew(d, cmd), UNCHANGED <<issue, repos, clone, killed>>
      PROVE  IInv'
  BY <1>0, <1>2, BeginNewRight DEF CommandLineNew, EditCL, repos, clone
<1>3. CASE MailCmd(d)
  <2>1. ASSUME NEW n \in Issues, Born(n), Begin(d, "mail", "patch", n, LoadCL(d, n))
        PROVE  IInv'
    <3>1. LoadCL(d, n) \in CL /\ (LoadCL(d, n) = Blank \/ CLRight(issue, d, n, LoadCL(d, n)))
      BY <1>0, <2>1, DownloadedType, LocalRight DEF LoadCL
    <3> QED
      BY <1>0, <1>3, <2>1, <3>1, BeginRight DEF MailCmd, repos, clone
  <2> QED
    BY <1>2, <1>3, <2>1 DEF MailCmd
<1>4. CASE SubmitCmd(d)
  <2>1. ASSUME NEW n \in Local(d),
               Begin(d, "submit", IF cls[d][n].copied = Nobody THEN "patch" ELSE "save", n, cls[d][n])
        PROVE  IInv'
    BY <1>0, <1>4, <2>1, BeginRight, LocalRight DEF SubmitCmd, repos, clone
  <2> QED
    BY <1>2, <1>4, <2>1 DEF SubmitCmd
<1>5. CASE Undo(d)
  <2>1. PICK rev \in Log(d) : BeginNew(d, "undo", rev[Len(rev)].files,
                                       rev[Len(rev)].quotes \cup {rev[Len(rev)].n})
    BY <1>5 DEF Undo
  <2>2. rev[Len(rev)].files \in SUBSET Files /\ rev[Len(rev)].quotes \cup {rev[Len(rev)].n} \in SUBSET Issues
    BY <1>0, LogChange DEF Change
  <2> QED
    BY <1>0, <1>5, <2>1, <2>2, BeginNewRight DEF Undo, repos
<1>6. ASSUME NEW at \in {"pull", "update"}, SyncCmd(d, at)
      PROVE  IInv'
  <2> DEFINE j == [Idle EXCEPT !.cmd = "sync", !.at = at, !.n = New, !.cl = Blank]
  <2>1. j \in Job /\ j.at = at /\ j.dirty = Clean
    BY SmallTypes DEF Job, Labels, Idle
  <2>2. job' = [job EXCEPT ![d] = j]
    BY <1>6 DEF SyncCmd, Begin
  <2> HIDE DEF j
  <2>3. HeldRight(issue, d, j) /\ DoneRight(issue, remote, tip[d], j)
    BY <2>1 DEF HeldRight, DoneRight, Holding, Clean
  <2> QED
    BY <1>0, <1>6, <2>1, <2>2, <2>3, IdleRight DEF SyncCmd, At, repos, clone
<1>7. ASSUME NEW n \in Issues, ChangeEdit(d, n) \/ ChangeDelete(d, n) \/ UploadCmd(d, n)
      PROVE  IInv'
  <2>1. n \in Local(d) /\ UNCHANGED <<issue, remote, tip, cls, killed>>
    BY <1>7 DEF ChangeEdit, ChangeDelete, UploadCmd, repos, clone
  <2>2. CASE ChangeEdit(d, n)
    <3>1. PICK files \in SUBSET Files : Begin(d, "edit", "save", n, [cls[d][n] EXCEPT !.files = files])
      BY <2>2 DEF ChangeEdit, EditCL
    <3>2. [cls[d][n] EXCEPT !.files = files] \in CL /\ CLRight(issue, d, n, [cls[d][n] EXCEPT !.files = files])
      BY <2>1, LocalRight, FilesRight
    <3> QED
      BY <1>0, <2>1, <3>1, <3>2, BeginRight
  <2>3. CASE ChangeDelete(d, n)
    BY <1>0, <2>1, <2>3, BeginRight, LocalRight DEF ChangeDelete
  <2>4. CASE UploadCmd(d, n)
    BY <1>0, <2>1, <2>4, BeginRight, LocalRight DEF UploadCmd
  <2> QED
    BY <1>7, <2>2, <2>3, <2>4
<1>8. ASSUME NEW n \in Issues, FileDelete(d, n)
      PROVE  IInv'
  <2>1. PICK files : Begin(d, "file", "save", n, [cls[d][n] EXCEPT !.files = @ \ files])
    BY <1>8 DEF FileDelete
  <2>2. n \in Local(d) /\ cls[d][n] \in CL /\ CLRight(issue, d, n, cls[d][n])
    BY <1>8, LocalRight DEF FileDelete
  <2>3. cls[d][n].files \ files \in SUBSET Files
    BY <2>2 DEF CL
  <2>4. /\ [cls[d][n] EXCEPT !.files = @ \ files] \in CL
        /\ CLRight(issue, d, n, [cls[d][n] EXCEPT !.files = @ \ files])
    BY <2>2, <2>3, FilesRight
  <2> QED
    BY <1>0, <1>8, <2>1, <2>4, BeginRight DEF FileDelete, repos, clone
<1>9. ASSUME NEW n \in Issues, File(d, n)
      PROVE  IInv'
  <2>1. PICK files \in SUBSET (mod[d] \ cls[d][n].files) \ {{}} :
          \E taken \in [files -> Local(d) \cup {New}] : job' = [job EXCEPT ![d] = Refile(d, n, files, taken)]
    BY <1>9 DEF File
  <2> PICK taken : job' = [job EXCEPT ![d] = Refile(d, n, files, taken)]
    BY <2>1
  <2>2. n \in Local(d) /\ files \in SUBSET mod[d]
    BY <1>9, <2>1 DEF File
  <2>3. Refile(d, n, files, taken) \in Job
    BY <1>0, <2>2, RefileType
  <2> QED
    BY <1>0, <1>9, <2>2, <2>3, RefileRight, IdleRight DEF File, At, repos, clone
<1>10. ASSUME NEW n \in Issues, Clpatch(d, n)
       PROVE  IInv'
  BY <1>0, <1>10, BeginRight, DownloadedRight, DownloadedType DEF Clpatch, repos
<1> QED
  BY <1>1, <1>3, <1>4, <1>5, <1>6, <1>7, <1>8, <1>9, <1>10 DEF Command

\* The number that a step needs is there.
LEMMA NumberedRight ==
  ASSUME IInv
  PROVE  Numbered /\ \A d \in Clones : At(d, "push") => tip[d] # <<>>
BY DEF IInv, CloneRight, HeldRight, DoneRight, Numbered, Holding, At

\* Writing and deleting the files cl.N.
LEMMA FileStepRight ==
  ASSUME IInv, NEW d \in Clones, FlushCL(d) \/ DeleteCL(d) \/ FlushDirty(d)
  PROVE  IInv'
<1>0. TypeOK /\ TypeOK' /\ CloneRight(d) /\ Numbered
  BY NumberedRight, FileStepType DEF IInv
<1>1. job[d] \in Job /\ job[d].cl \in CL /\ job[d].dirty \in [Issues -> CL \cup {NoCL}]
  BY <1>0, JobParts, TypeParts
<1>2. /\ job \in [Clones -> Job] /\ cls \in [Clones -> [Issues -> CL \cup {NoCL}]]
  BY <1>0 DEF TypeOK
<1>3. \A n \in Issues : cls[d][n] # NoCL => CLRight(issue, d, n, cls[d][n])
  BY <1>0 DEF CloneRight
<1>4. /\ UNCHANGED <<remote, tip, killed>> /\ ~ At(d, "push")
      /\ ~ FlushCL(d) => issue' = issue
  BY DEF FlushCL, DeleteCL, FlushDirty, At, repos
<1>5. CASE FlushCL(d)
  <2> DEFINE j == IF AfterFlush(job[d]) = "idle" THEN Idle ELSE [job[d] EXCEPT !.at = AfterFlush(job[d])]
  <2>1. job' = [job EXCEPT ![d] = j]
    BY <1>5, <1>2 DEF FlushCL, Goto, Finish
  <2>2. CLRight(issue, d, job[d].n, job[d].cl) /\ job[d].n \in Issues
    BY <1>0, <1>5 DEF FlushCL, CloneRight, HeldRight, Holding
  <2>3. \A n \in Issues : cls'[d][n] # NoCL => CLRight(issue, d, n, cls'[d][n])
    BY <1>2, <1>3, <1>5, <2>2 DEF FlushCL
  <2>4. HeldRight(issue, d, j) /\ DoneRight(issue, remote, tip[d], j) /\ j.at # "push"
    <3>1. CASE AfterFlush(job[d]) = "idle"
      BY <3>1, NothingHeld
    <3>2. CASE AfterFlush(job[d]) # "idle"
      <4> DEFINE at == AfterFlush(job[d])
      <4>1. at \in {"patch", "mail", "commit"}
        BY <3>2 DEF AfterFlush
      <4>2. at = "commit" => job[d].cl.mailed \/ job[d].cl.copied # Nobody
        BY <1>0, <1>5, <4>1 DEF AfterFlush, FlushCL, CloneRight, DoneRight
      <4>3. job[d].cl.copied # d /\ job[d].cl.copied \in {Nobody, issue[job[d].n].owner}
              /\ (job[d].cl.mailed /\ job[d].cl.copied = Nobody => issue[job[d].n].mailed)
        BY <2>2 DEF CLRight, Author
      <4>4. /\ j.at = at /\ j.n = job[d].n /\ j.cl = job[d].cl /\ j.cmd = job[d].cmd
            /\ j.dirty = job[d].dirty
        BY <1>1, <3>2 DEF Job
      <4> HIDE DEF at, j
      <4>5. HeldRight(issue, d, j)
        BY <1>0, <2>2, <4>1, <4>3, <4>4 DEF HeldRight, CloneRight
      <4>6. DoneRight(issue, remote, tip[d], j)
        BY <4>1, <4>2, <4>4 DEF DoneRight
      <4> QED
        BY <4>1, <4>4, <4>5, <4>6
    <3> QED
      BY <3>1, <3>2
  <2>5. /\ job'[d] = j
        /\ \A e \in Clones \ {d} : cls'[e] = cls[e] /\ job'[e] = job[e]
    BY <1>2, <1>5, <2>1 DEF FlushCL
  <2>6. Grown(issue, issue') /\ IssuesRight(issue', remote)
    <3>1. issue[job[d].n].owner # Nobody
      BY <1>1, <2>2, AuthorBorn DEF CLRight
    <3>2. IssuesRight(issue, remote)
      BY DEF IInv
    <3> QED
      BY <1>0, <1>5, <2>2, <3>1, <3>2, FormPosted DEF Grown, IssuesRight
  <2> HIDE DEF j
  <2> QED
    BY <1>0, <1>4, <2>3, <2>4, <2>5, <2>6, QuietRight
<1>6. CASE DeleteCL(d)
  <2>0. issue' = issue
    BY <1>6 DEF DeleteCL
  <2> DEFINE j == IF job[d].cmd = "sync"
                  THEN [Idle EXCEPT !.cmd = "sync", !.at = "scan", !.n = New, !.cl = Blank] ELSE Idle
  <2>1. job' = [job EXCEPT ![d] = j]
    BY <1>6, <1>2 DEF DeleteCL, Begin, Finish
  <2>2. \A n \in Issues : cls'[d][n] # NoCL => CLRight(issue, d, n, cls'[d][n])
    BY <1>2, <1>3, <1>6 DEF DeleteCL
  <2>3. HeldRight(issue, d, j) /\ DoneRight(issue, remote, tip[d], j) /\ j.at # "push"
    BY DEF HeldRight, DoneRight, Idle, Holding, Clean
  <2>4. /\ job'[d] = j
        /\ \A e \in Clones \ {d} : cls'[e] = cls[e] /\ job'[e] = job[e]
    BY <1>2, <1>6, <2>1 DEF DeleteCL
  <2> HIDE DEF j
  <2> QED
    BY <1>0, <1>4, <2>0, <2>2, <2>3, <2>4, QuietRight
<1>7. CASE FlushDirty(d)
  <2>0. issue' = issue
    BY <1>7 DEF FlushDirty
  <2>1. CASE Finish(d) /\ cls' = cls
    BY <1>0, <1>4, <2>0, <2>1, NothingHeld, IdleRight DEF Finish
  <2>2. ASSUME NEW n \in Issues,
               job[d].dirty[n] # NoCL,
               cls' = [cls EXCEPT ![d][n] = job[d].dirty[n]],
               job' = [job EXCEPT ![d].dirty[n] = NoCL]
        PROVE  IInv'
    <3> DEFINE j == [job[d] EXCEPT !.dirty[n] = NoCL]
    <3>1. /\ job'[d] = j
          /\ \A e \in Clones \ {d} : cls'[e] = cls[e] /\ job'[e] = job[e]
          /\ \A m \in Issues : cls'[d][m] = IF m = n THEN job[d].dirty[n] ELSE cls[d][m]
      BY <1>2, <2>2
    <3>2. /\ j.at = job[d].at /\ j.n = job[d].n /\ j.cl = job[d].cl /\ j.cmd = job[d].cmd
          /\ \A m \in Issues : j.dirty[m] # NoCL => j.dirty[m] = job[d].dirty[m]
      BY <1>1 DEF Job
    <3>3. \A m \in Issues : job[d].dirty[m] # NoCL => CLRight(issue, d, m, job[d].dirty[m])
      BY <1>0 DEF CloneRight, HeldRight
    <3>4. \A m \in Issues : cls'[d][m] # NoCL => CLRight(issue, d, m, cls'[d][m])
      BY <1>3, <2>2, <3>1, <3>3
    <3> HIDE DEF j
    <3>5. HeldRight(issue, d, j) /\ DoneRight(issue, remote, tip[d], j) /\ j.at # "push"
      <4>1. job[d].at = "flush"
        BY <1>7 DEF FlushDirty, At
      <4> QED
        BY <4>1, <3>2, <3>3 DEF HeldRight, DoneRight, Holding
    <3> QED
      BY <1>0, <1>4, <2>0, <3>1, <3>4, <3>5, QuietRight
  <2> QED
    BY <1>7, <2>1, <2>2 DEF FlushDirty
<1> QED
  BY <1>5, <1>6, <1>7

\* A call that changes the issue n, after which the command of d has job j.
LEMMA CallRight ==
  ASSUME IInv, TypeOK', NEW d \in Clones, NEW n \in Issues, NEW i \in Issue,
         issue' = [issue EXCEPT ![n] = i],
         issue[n].owner # Nobody => i.owner = issue[n].owner,
         issue[n].mailed => i.mailed,
         issue[n].abandoned => i.abandoned,
         issue[n].submitted \subseteq i.submitted,
         i.owner # Nobody,
         i.submitted # {} => InHistory(remote, n),
         UNCHANGED <<remote, tip, cls, killed>>,
         NEW j \in Job, job' = [job EXCEPT ![d] = j],
         HeldRight(issue, d, j) \/ HeldRight(issue', d, j),
         DoneRight(issue', remote, tip[d], j),
         ~ At(d, "push"), j.at # "push"
  PROVE  IInv'
<1>1. TypeOK /\ CloneRight(d) /\ HistoryRight(issue, remote) /\ IssuesRight(issue, remote)
  BY DEF IInv
<1>2. /\ issue'[n] = i
      /\ \A m \in Issues \ {n} : issue'[m] = issue[m]
      /\ job'[d] = j
      /\ \A e \in Clones \ {d} : cls'[e] = cls[e] /\ job'[e] = job[e] /\ tip'[e] = tip[e]
  BY <1>1 DEF TypeOK
<1>3. Grown(issue, issue')
  BY <1>2 DEF Grown
<1>4. /\ remote \in Seq(Change) /\ tip[d] \in Seq(Change)
      /\ \A m \in Issues : cls[d][m] \in CL \cup {NoCL}
  BY <1>1, TypeParts
<1>5. IsPrefix(remote, remote') /\ HistoryRight(issue', remote')
  BY <1>1, <1>3, <1>4, PrefixRefl, HistoryGrows
<1>6. IssuesRight(issue', remote')
  BY <1>1, <1>2 DEF IssuesRight
<1>7. CloneRight(d)'
  <2>1. \A m \in Issues : cls[d][m] # NoCL => CLRight(issue', d, m, cls[d][m])
    BY <1>1, <1>3, <1>4, CLGrows DEF CloneRight
  <2>2. HistoryRight(issue', tip[d])
    BY <1>1, <1>3, <1>4, HistoryGrows DEF CloneRight
  <2>3. HeldRight(issue', d, j)
    BY <1>3, HeldGrows
  <2>4. d \notin killed => NotAhead(remote, tip[d], j)
    BY <1>1 DEF CloneRight, NotAhead, At
  <2> QED
    BY <1>2, <2>1, <2>2, <2>3, <2>4 DEF CloneRight
<1> QED
  BY <1>2, <1>3, <1>5, <1>6, <1>7, StepRight

\* The calls to the review server.
LEMMA CallStepRight ==
  ASSUME IInv, NEW d \in Clones
  PROVE  /\ CreateIssue(d) \/ CreateUnheard(d) => IInv'
         /\ UploadPatch(d) \/ PostMail(d) => IInv'
         /\ PostAbandoned(d) \/ PostSubmitted(d) \/ CloseIssue(d) => IInv'
<1>0. /\ TypeOK /\ CloneRight(d) /\ Numbered /\ IssuesRight(issue, remote)
      /\ HeldRight(issue, d, job[d]) /\ DoneRight(issue, remote, tip[d], job[d])
  BY NumberedRight DEF IInv, CloneRight
<1>1. /\ \A n \in Issues : issue[n] \in Issue
      /\ job[d] \in Job /\ job[d].cl \in CL /\ job[d].quotes \in SUBSET Issues /\ mod[d] \in SUBSET Files
      /\ d # Nobody
  BY <1>0, JobParts, TypeParts, NameAssumption
<1>2. ASSUME NEW n \in Issues, ~ Born(n)
      PROVE  ~ issue[n].mailed /\ ~ issue[n].abandoned /\ issue[n].submitted = {} /\ issue[n].owner = Nobody
  BY <1>0, <1>2 DEF IssuesRight, Born, Unborn
<1>3. ASSUME CreateIssue(d)
      PROVE  IInv'
  <2>1. PICK n \in Issues :
          /\ ~ Born(n)
          /\ issue' = [issue EXCEPT ![n] = NewIssue(d)]
          /\ job' = [job EXCEPT ![d] = [job[d] EXCEPT !.n = n, !.at = "save"]]
    BY <1>3 DEF CreateIssue
  <2> DEFINE i == NewIssue(d)
             j == [job[d] EXCEPT !.n = n, !.at = "save"]
  <2>2. i \in Issue /\ i.owner = d /\ i.submitted = {}
    BY <1>1, NewIssueType
  <2>3. /\ j \in Job /\ j.at = "save" /\ j.n = n /\ j.cl = job[d].cl
        /\ j.dirty = job[d].dirty
    BY <1>1 DEF Job, Labels
  <2>4. TypeOK' /\ UNCHANGED <<remote, tip, cls, killed>> /\ ~ At(d, "push")
    BY <1>0, <1>3, CallType DEF CreateIssue, repos, clone, At
  <2>5. issue' = [issue EXCEPT ![n] = i] /\ job' = [job EXCEPT ![d] = j]
    BY <2>1
  <2>6. Grown(issue, issue') /\ issue'[n].owner = d
    <3>1. issue'[n] = i /\ \A m \in Issues \ {n} : issue'[m] = issue[m]
      BY <1>0, <2>5 DEF TypeOK
    <3> QED
      BY <1>2, <2>1, <2>2, <3>1 DEF Grown
  <2> HIDE DEF i, j
  <2>7. HeldRight(issue', d, j)
    <3>1. job[d].cl.copied = Nobody /\ ~ job[d].cl.mailed
      BY <1>0, <1>3 DEF CreateIssue, HeldRight
    <3>2. CLRight(issue', d, n, job[d].cl)
      BY <1>1, <2>6, <3>1 DEF CLRight, Author
    <3>3. HeldRight(issue', d, job[d])
      BY <1>0, <1>1, <2>6, HeldGrows
    <3> QED
      BY <2>3, <3>2, <3>3 DEF HeldRight
  <2>8. DoneRight(issue', remote, tip[d], j)
    BY <2>3 DEF DoneRight
  <2>9. /\ issue[n].owner = Nobody /\ ~ issue[n].mailed /\ ~ issue[n].abandoned
        /\ issue[n].submitted = {} /\ i.owner # Nobody /\ i.submitted = {} /\ j.at # "push"
    BY <1>1, <1>2, <2>1, <2>2, <2>3
  <2>10. i \in Issue /\ j \in Job
    BY <2>2, <2>3
  <2> QED
    BY <2>4, <2>5, <2>7, <2>8, <2>9, <2>10, CallRight
<1>4. ASSUME CreateUnheard(d)
      PROVE  IInv'
  <2>1. PICK n \in Issues :
          /\ ~ Born(n)
          /\ issue' = [issue EXCEPT ![n] = NewIssue(d)]
    BY <1>4 DEF CreateUnheard
  <2> DEFINE i == NewIssue(d)
             j == [job[d] EXCEPT !.at = "recreate"]
  <2>2. i \in Issue /\ i.owner = d /\ i.submitted = {}
    BY <1>1, NewIssueType
  <2>3. /\ j \in Job /\ j.at = "recreate" /\ j.n = job[d].n /\ j.cl = job[d].cl
        /\ j.dirty = job[d].dirty
    BY <1>1 DEF Job, Labels
  <2>4. TypeOK' /\ UNCHANGED <<remote, tip, cls, killed>> /\ ~ At(d, "push")
    BY <1>0, <1>4, CallType DEF CreateUnheard, repos, clone, At
  <2>5. issue' = [issue EXCEPT ![n] = i] /\ job' = [job EXCEPT ![d] = j]
    BY <1>0, <1>4, <2>1 DEF CreateUnheard, Goto, TypeOK
  <2> HIDE DEF i, j
  <2>6. HeldRight(issue, d, j)
    BY <1>0, <1>4, <2>3 DEF CreateUnheard, At, HeldRight, Holding
  <2>7. DoneRight(issue', remote, tip[d], j)
    BY <2>3 DEF DoneRight
  <2>8. /\ issue[n].owner = Nobody /\ ~ issue[n].mailed /\ ~ issue[n].abandoned
        /\ issue[n].submitted = {} /\ i.owner # Nobody /\ i.submitted = {} /\ j.at # "push"
    BY <1>1, <1>2, <2>1, <2>2, <2>3
  <2> QED
    BY <2>2, <2>3, <2>4, <2>5, <2>6, <2>7, <2>8, CallRight
<1>5. ASSUME UploadPatch(d)
      PROVE  IInv'
  <2> DEFINE n == job[d].n
             i == [issue[n] EXCEPT !.patch = job[d].cl.files \cap mod[d]]
             j == [job[d] EXCEPT !.at = IF job[d].cmd = "new" THEN "resave" ELSE "save"]
  <2>1. n \in Issues /\ issue[n].owner = d /\ job[d].at = "patch"
    BY <1>0, <1>5 DEF UploadPatch, At, Numbered
  <2>2. /\ i \in Issue /\ i.owner = d /\ i.mailed = issue[n].mailed
        /\ i.abandoned = issue[n].abandoned /\ i.submitted = issue[n].submitted
    BY <1>1, <2>1 DEF Issue, CL
  <2>3. /\ j \in Job /\ j.at \in {"save", "resave"} /\ j.n = n /\ j.cl = job[d].cl
        /\ j.dirty = job[d].dirty /\ j.cmd = job[d].cmd
        /\ j.at = "resave" => j.cmd = "new"
    BY <1>1 DEF Job, Labels
  <2>4. TypeOK' /\ UNCHANGED <<remote, tip, cls, killed>> /\ ~ At(d, "push")
    BY <1>0, <1>5, CallType DEF UploadPatch, repos, clone, At
  <2>5. issue' = [issue EXCEPT ![n] = i] /\ job' = [job EXCEPT ![d] = j]
    BY <1>0, <1>5 DEF UploadPatch, Goto, TypeOK
  <2>6. i.submitted # {} => InHistory(remote, n)
    BY <1>0, <2>1, <2>2 DEF IssuesRight
  <2> HIDE DEF i, j
  <2>7. HeldRight(issue, d, j)
    <3>1. job[d].cl.copied = Nobody /\ (job[d].cl.mailed => issue[n].mailed)
      BY <1>0, <2>1 DEF HeldRight
    <3>2. CLRight(issue, d, n, job[d].cl)
      BY <1>1, <2>1, <3>1 DEF CLRight, Author
    <3> QED
      BY <1>0, <2>1, <2>3, <3>2 DEF HeldRight
  <2>8. DoneRight(issue', remote, tip[d], j)
    BY <2>3 DEF DoneRight
  <2>9. /\ n \in Issues /\ i.owner = issue[n].owner /\ i.owner # Nobody
        /\ issue[n].mailed => i.mailed
        /\ issue[n].abandoned => i.abandoned
        /\ issue[n].submitted \subseteq i.submitted
        /\ i \in Issue /\ j \in Job /\ j.at # "push"
    BY <1>1, <2>1, <2>2, <2>3
  <2> HIDE DEF n
  <2> QED
    BY <2>4, <2>5, <2>6, <2>7, <2>8, <2>9, CallRight
<1>6. ASSUME NEW at \in {"mail", "abandon", "announce", "close"}, At(d, at)
      PROVE  /\ job[d].n \in Issues /\ job[d].at = at /\ CLRight(issue, d, job[d].n, job[d].cl)
             /\ issue[job[d].n].owner # Nobody
             /\ issue[job[d].n].submitted # {} => InHistory(remote, job[d].n)
  <2>1. job[d].n \in Issues /\ job[d].at = at /\ CLRight(issue, d, job[d].n, job[d].cl)
    BY <1>0, <1>6 DEF At, HeldRight, Holding
  <2> QED
    BY <1>0, <1>1, <2>1, AuthorBorn DEF CLRight, IssuesRight
<1>7. ASSUME PostMail(d)
      PROVE  IInv'
  <2> DEFINE n == job[d].n
             i == [issue[n] EXCEPT !.mailed = TRUE]
             j == [job[d] EXCEPT !.at = "resave", !.cl.mailed = TRUE]
  <2>1. /\ n \in Issues /\ job[d].at = "mail" /\ CLRight(issue, d, n, job[d].cl)
        /\ issue[n].owner # Nobody /\ (issue[n].submitted # {} => InHistory(remote, n))
    BY <1>6, <1>7 DEF PostMail
  <2>2. /\ i \in Issue /\ i.owner = issue[n].owner /\ i.mailed
        /\ i.abandoned = issue[n].abandoned /\ i.submitted = issue[n].submitted
    <3>1. issue[n] \in Issue
      BY <1>1, <2>1
    <3> QED
      BY <3>1 DEF Issue
  <2>3. /\ j \in Job /\ j.at = "resave" /\ j.n = n /\ j.dirty = job[d].dirty
        /\ j.cl.copied = job[d].cl.copied /\ j.cl.mailed
    BY <1>1 DEF Job, Labels, CL
  <2>4. TypeOK' /\ UNCHANGED <<remote, tip, cls, killed>> /\ ~ At(d, "push")
    BY <1>0, <1>7, CallType DEF PostMail, repos, clone, At
  <2>5. issue' = [issue EXCEPT ![n] = i] /\ job' = [job EXCEPT ![d] = j]
    BY <1>0, <1>7 DEF PostMail, PostMessage, TypeOK
  <2>6. issue'[n] = i /\ Grown(issue, issue')
    <3>1. issue'[n] = i /\ \A m \in Issues \ {n} : issue'[m] = issue[m]
      BY <1>0, <2>1, <2>5 DEF TypeOK
    <3> QED
      BY <2>2, <3>1 DEF Grown
  <2> HIDE DEF i, j
  <2>7. HeldRight(issue', d, j)
    <3>1. CLRight(issue', d, n, j.cl)
      BY <2>1, <2>2, <2>3, <2>6 DEF CLRight, Author
    <3>2. HeldRight(issue', d, job[d])
      BY <1>0, <1>1, <2>6, HeldGrows
    <3> QED
      BY <2>1, <2>3, <3>1, <3>2 DEF HeldRight
  <2>8. DoneRight(issue', remote, tip[d], j)
    BY <2>3 DEF DoneRight
  <2> QED
    BY <1>1, <2>1, <2>2, <2>3, <2>4, <2>5, <2>7, <2>8, CallRight
<1>8. ASSUME PostAbandoned(d)
      PROVE  IInv'
  <2> DEFINE n == job[d].n
             i == [issue[n] EXCEPT !.abandoned = TRUE]
             j == [job[d] EXCEPT !.at = "close"]
  <2>1. /\ n \in Issues /\ job[d].at = "abandon"
        /\ issue[n].owner # Nobody /\ (issue[n].submitted # {} => InHistory(remote, n))
    BY <1>6, <1>8 DEF PostAbandoned
  <2>2. /\ i \in Issue /\ i.owner = issue[n].owner /\ i.mailed = issue[n].mailed
        /\ i.abandoned /\ i.submitted = issue[n].submitted
    <3>1. issue[n] \in Issue
      BY <1>1, <2>1
    <3> QED
      BY <3>1 DEF Issue
  <2>3. /\ j \in Job /\ j.at = "close" /\ j.n = n /\ j.dirty = job[d].dirty
        /\ j.cl = job[d].cl /\ j.cmd = job[d].cmd
    BY <1>1 DEF Job, Labels
  <2>4. TypeOK' /\ UNCHANGED <<remote, tip, cls, killed>> /\ ~ At(d, "push")
    BY <1>0, <1>8, CallType DEF PostAbandoned, repos, clone, At
  <2>5. issue' = [issue EXCEPT ![n] = i] /\ job' = [job EXCEPT ![d] = j] /\ issue'[n] = i
    BY <1>0, <1>8, <2>1 DEF PostAbandoned, PostMessage, Goto, TypeOK
  <2> HIDE DEF i, j
  <2>6. HeldRight(issue, d, j)
    BY <1>0, <2>1, <2>3 DEF HeldRight, Holding
  <2>7. DoneRight(issue', remote, tip[d], j)
    BY <1>0, <2>1, <2>2, <2>3, <2>5 DEF DoneRight
  <2> QED
    BY <1>1, <2>1, <2>2, <2>3, <2>4, <2>5, <2>6, <2>7, CallRight
<1>9. ASSUME PostSubmitted(d)
      PROVE  IInv'
  <2> DEFINE n == job[d].n
             i == [issue[n] EXCEPT !.submitted = @ \cup {tip[d]}]
             j == [job[d] EXCEPT !.at = IF job[d].cl.copied = Nobody THEN "close" ELSE "delete"]
  <2>1. /\ n \in Issues /\ job[d].at = "announce" /\ issue[n].owner # Nobody
    BY <1>6, <1>9 DEF PostSubmitted
  <2>2. /\ i \in Issue /\ i.owner = issue[n].owner /\ i.mailed = issue[n].mailed
        /\ i.abandoned = issue[n].abandoned /\ i.submitted = issue[n].submitted \cup {tip[d]}
    BY <1>0, <1>1, <2>1, TypeParts DEF Issue
  <2>3. /\ j \in Job /\ j.at \in {"close", "delete"} /\ j.n = n /\ j.dirty = job[d].dirty
        /\ j.cl = job[d].cl /\ j.cmd = job[d].cmd
    BY <1>1 DEF Job, Labels
  <2>4. TypeOK' /\ UNCHANGED <<remote, tip, cls, killed>> /\ ~ At(d, "push")
    BY <1>0, <1>9, CallType DEF PostSubmitted, repos, clone, At
  <2>5. issue' = [issue EXCEPT ![n] = i] /\ job' = [job EXCEPT ![d] = j] /\ issue'[n] = i
    BY <1>0, <1>9, <2>1 DEF PostSubmitted, PostMessage, Goto, TypeOK
  <2> HIDE DEF i, j
  <2>6. HeldRight(issue, d, j)
    BY <1>0, <2>1, <2>3 DEF HeldRight, Holding
  <2>7. InHistory(remote, n)
    <3>1. /\ remote \in Seq(Change) /\ tip[d] \in Seq(Change)
          /\ IsPrefix(tip[d], remote) /\ tip[d] # <<>> /\ Last(tip[d]).n = n
      BY <1>0, <2>1, TypeParts DEF DoneRight
    <3>2. Len(tip[d]) \in DOMAIN tip[d] /\ tip[d][Len(tip[d])].n = n
      BY <3>1, FrontType DEF Last
    <3>3. InHistory(tip[d], n)
      BY <3>2 DEF InHistory
    <3> QED
      BY <3>1, <3>3, InHistoryGrows
  <2>8. DoneRight(issue', remote, tip[d], j)
    BY <2>2, <2>3, <2>5, <2>7 DEF DoneRight
  <2> QED
    BY <1>1, <2>1, <2>2, <2>3, <2>4, <2>5, <2>6, <2>7, <2>8, CallRight
<1>10. ASSUME CloseIssue(d)
       PROVE  IInv'
  <2> DEFINE n == job[d].n
             i == [issue[n] EXCEPT !.closed = TRUE]
             j == [job[d] EXCEPT !.at = "delete"]
  <2>1. /\ n \in Issues /\ job[d].at = "close"
        /\ issue[n].owner # Nobody /\ (issue[n].submitted # {} => InHistory(remote, n))
    BY <1>6, <1>10 DEF CloseIssue
  <2>2. /\ i \in Issue /\ i.owner = issue[n].owner /\ i.mailed = issue[n].mailed
        /\ i.abandoned = issue[n].abandoned /\ i.submitted = issue[n].submitted
    <3>1. issue[n] \in Issue
      BY <1>1, <2>1
    <3> QED
      BY <3>1 DEF Issue
  <2>3. /\ j \in Job /\ j.at = "delete" /\ j.n = n /\ j.dirty = job[d].dirty
        /\ j.cl = job[d].cl /\ j.cmd = job[d].cmd
    BY <1>1 DEF Job, Labels
  <2>4. TypeOK' /\ UNCHANGED <<remote, tip, cls, killed>> /\ ~ At(d, "push")
    BY <1>0, <1>10, CallType DEF CloseIssue, repos, clone, At
  <2>5. issue' = [issue EXCEPT ![n] = i] /\ job' = [job EXCEPT ![d] = j]
    BY <1>0, <1>10 DEF CloseIssue, Goto, TypeOK
  <2> HIDE DEF i, j
  <2>6. HeldRight(issue, d, j)
    BY <1>0, <2>1, <2>3 DEF HeldRight, Holding
  <2>7. DoneRight(issue', remote, tip[d], j)
    BY <1>0, <2>1, <2>3 DEF DoneRight
  <2> QED
    BY <1>1, <2>1, <2>2, <2>3, <2>4, <2>5, <2>6, <2>7, CallRight
<1> QED
  BY <1>3, <1>4, <1>5, <1>7, <1>8, <1>9, <1>10

\* The commit is in the name of the CL's author, and mailed if that is its own.
LEMMA CommitRight ==
  ASSUME IInv, NEW d \in Clones, Commit(d)
  PROVE  IInv'
<1> DEFINE n == job[d].n
           cl == job[d].cl
           c == [n |-> n, quotes |-> issue[n].quotes, files |-> cl.files \cap mod[d],
                 user |-> Author(d, cl), by |-> d]
           j == [job[d] EXCEPT !.at = "push"]
<1>0. /\ TypeOK /\ TypeOK' /\ Numbered /\ CloneRight(d) /\ job[d].at = "commit"
      /\ HeldRight(issue, d, job[d]) /\ DoneRight(issue, remote, tip[d], job[d])
  BY NumberedRight, RepoStepType DEF IInv, CloneRight, Commit, At
<1>1. /\ job[d] \in Job /\ cl \in CL /\ mod[d] \in SUBSET Files /\ n \in Issues
      /\ tip[d] \in Seq(Change) /\ issue[n] \in Issue /\ remote \in Seq(Change)
  BY <1>0, JobParts, TypeParts DEF Numbered
<1>2. CLRight(issue, d, n, cl)
  BY <1>0 DEF HeldRight, Holding
<1>3. /\ c.n = n /\ c.user = issue[n].owner
      /\ c.user = c.by => issue[n].mailed
  <2>1. d = Author(d, cl) => cl.copied = Nobody
    BY <1>2 DEF CLRight, Author
  <2> QED
    BY <1>0, <1>2, <2>1 DEF CLRight, DoneRight
<1>4. c \in Change
  BY <1>1, AuthorBorn DEF Change, Issue, CL
<1>5. /\ tip' = [tip EXCEPT ![d] = Append(tip[d], c)]
      /\ job' = [job EXCEPT ![d] = j]
      /\ UNCHANGED <<issue, remote, cls, killed>>
  BY <1>0 DEF Commit, Goto, TypeOK
<1>6. /\ j \in Job /\ j.at = "push" /\ j.n = n /\ j.cl = cl /\ j.dirty = job[d].dirty
  BY <1>1 DEF Job, Labels
<1>7. /\ tip'[d] = Append(tip[d], c) /\ job'[d] = j
      /\ \A e \in Clones \ {d} : cls'[e] = cls[e] /\ tip'[e] = tip[e] /\ job'[e] = job[e]
  BY <1>0, <1>5 DEF TypeOK
<1> HIDE DEF n, cl, c, j
<1>8. HistoryRight(issue, Append(tip[d], c))
  <2>1. HistoryRight(issue, tip[d])
    BY <1>0 DEF CloneRight
  <2> QED
    BY <1>1, <1>3, <1>4, <2>1, AppendFront DEF HistoryRight
<1>9. Grown(issue, issue') /\ IsPrefix(remote, remote')
      /\ IssuesRight(issue', remote') /\ HistoryRight(issue', remote')
  BY <1>1, <1>5, PrefixRefl DEF Grown, IInv
<1>10. CloneRight(d)'
  <2>1. HeldRight(issue, d, j)
    BY <1>0, <1>1, <1>2, <1>6 DEF HeldRight, Holding
  <2>2. DoneRight(issue, remote, Append(tip[d], c), j)
    BY <1>1, <1>3, <1>4, <1>6, AppendFront DEF DoneRight
  <2>3. d \notin killed => NotAhead(remote, Append(tip[d], c), j)
    BY <1>0, <1>1, <1>4, <1>6, AppendFront DEF CloneRight, NotAhead
  <2> QED
    BY <1>0, <1>5, <1>7, <1>8, <2>1, <2>2, <2>3 DEF CloneRight
<1> QED
  BY <1>0, <1>5, <1>7, <1>9, <1>10, StepRight

\* A push publishes what is a continuation of the central history.
LEMMA PushRight ==
  ASSUME IInv, NEW d \in Clones, Push(d)
  PROVE  IInv'
<1> DEFINE j == [job[d] EXCEPT !.at = "announce"]
<1>0. /\ TypeOK /\ TypeOK' /\ CloneRight(d) /\ job[d].at = "push"
      /\ HeldRight(issue, d, job[d]) /\ DoneRight(issue, remote, tip[d], job[d])
  BY NumberedRight, RepoStepType DEF IInv, CloneRight, Push, At
<1>1. /\ job[d] \in Job /\ tip[d] \in Seq(Change) /\ remote \in Seq(Change)
  BY <1>0, TypeParts
<1>2. /\ remote' = tip[d] /\ IsPrefix(remote, tip[d])
      /\ job' = [job EXCEPT ![d] = j] /\ UNCHANGED <<issue, tip, cls, killed>>
  BY <1>0 DEF Push, MayPush, Goto, clone, TypeOK
<1>3. /\ j \in Job /\ j.at = "announce" /\ j.n = job[d].n /\ j.cl = job[d].cl
      /\ j.dirty = job[d].dirty
  BY <1>1 DEF Job, Labels
<1>4. /\ job'[d] = j
      /\ \A e \in Clones \ {d} : cls'[e] = cls[e] /\ tip'[e] = tip[e] /\ job'[e] = job[e]
  BY <1>0, <1>2 DEF TypeOK
<1> HIDE DEF j
<1>5. Grown(issue, issue') /\ HistoryRight(issue', remote')
  BY <1>0, <1>2 DEF Grown, CloneRight
<1>6. IssuesRight(issue', remote')
  BY <1>1, <1>2, InHistoryGrows DEF IInv, IssuesRight
<1>7. CloneRight(d)'
  <2>1. HeldRight(issue, d, j)
    BY <1>0, <1>3 DEF HeldRight, Holding
  <2>2. DoneRight(issue, tip[d], tip[d], j) /\ NotAhead(tip[d], tip[d], j)
    BY <1>0, <1>1, <1>3, PrefixRefl DEF DoneRight, NotAhead
  <2> QED
    BY <1>0, <1>2, <1>4, <2>1, <2>2 DEF CloneRight
<1> QED
  BY <1>0, <1>2, <1>4, <1>5, <1>6, <1>7, StepRight

LEMMA PushFailsRight ==
  ASSUME IInv, NEW d \in Clones, PushFails(d)
  PROVE  IInv'
<1>0. /\ TypeOK /\ TypeOK' /\ CloneRight(d) /\ job[d].at = "push" /\ tip[d] # <<>>
  BY NumberedRight, RepoStepType DEF IInv, PushFails, At
<1>1. /\ tip[d] \in Seq(Change) /\ remote \in Seq(Change) /\ remote' \in Seq(Change)
      /\ Front(tip[d]) \in Seq(Change)
  BY <1>0, TypeParts, FrontType DEF TypeOK
<1>2. /\ remote' = remote \/ (remote' = tip[d] /\ IsPrefix(remote, tip[d]))
      /\ tip' = [tip EXCEPT ![d] = Front(tip[d])]
      /\ job' = [job EXCEPT ![d] = Idle] /\ UNCHANGED <<issue, cls, killed>>
  BY DEF PushFails, Rollback, MayPush, Finish
<1>3. /\ job'[d] = Idle /\ tip'[d] = Front(tip[d])
      /\ \A e \in Clones \ {d} : cls'[e] = cls[e] /\ tip'[e] = tip[e] /\ job'[e] = job[e]
  BY <1>0, <1>2 DEF TypeOK
<1>4. Grown(issue, issue') /\ IsPrefix(remote, remote') /\ HistoryRight(issue', remote')
  BY <1>0, <1>1, <1>2, PrefixRefl DEF Grown, CloneRight, IInv
<1>5. IssuesRight(issue', remote')
  BY <1>1, <1>2, <1>4, InHistoryGrows DEF IInv, IssuesRight
<1>6. CloneRight(d)'
  <2>1. HistoryRight(issue, Front(tip[d]))
    <3>1. HistoryRight(issue, tip[d])
      BY <1>0 DEF CloneRight
    <3>2. /\ Len(Front(tip[d])) = Len(tip[d]) - 1
          /\ \A i \in 1 .. Len(Front(tip[d])) : Front(tip[d])[i] = tip[d][i]
      BY <1>0, <1>1, FrontType
    <3>3. \A i \in DOMAIN Front(tip[d]) : Front(tip[d])[i] = tip[d][i] /\ i \in DOMAIN tip[d]
      BY <1>1, <3>2
    <3> QED
      BY <3>1, <3>3 DEF HistoryRight
  <2>2. /\ HeldRight(issue, d, Idle) /\ DoneRight(issue, remote', Front(tip[d]), Idle)
    BY NothingHeld
  <2>3. d \notin killed => NotAhead(remote', Front(tip[d]), Idle)
    <3>1. d \notin killed => IsPrefix(Front(tip[d]), remote)
      BY <1>0 DEF CloneRight, NotAhead
    <3> QED
      BY <1>1, <1>4, <3>1, NothingHeld, PrefixTrans DEF NotAhead
  <2> QED
    BY <1>0, <1>2, <1>3, <2>1, <2>2, <2>3 DEF CloneRight
<1> QED
  BY <1>0, <1>2, <1>3, <1>4, <1>5, <1>6, StepRight

\* Steps of the repositories that publish nothing.
LEMMA PullUpdateRight ==
  ASSUME IInv, NEW d \in Clones, Pull(d) \/ Update(d)
  PROVE  IInv'
<1> DEFINE j == [job[d] EXCEPT !.at = IF Pull(d) THEN "update" ELSE "scan"]
<1>0. /\ TypeOK /\ TypeOK' /\ CloneRight(d) /\ job[d].at \in {"pull", "update"}
      /\ HeldRight(issue, d, job[d]) /\ DoneRight(issue, remote, tip[d], job[d])
  BY NumberedRight, RepoStepType DEF IInv, CloneRight, Pull, Update, At
<1>1. /\ job[d] \in Job /\ tip[d] \in Seq(Change) /\ remote \in Seq(Change)
      /\ Pulled(d) \in Seq(Change) /\ IsPrefix(Pulled(d), remote)
      /\ \A i \in DOMAIN Pulled(d) : Pulled(d)[i] = remote[i] /\ i \in DOMAIN remote
  BY <1>0, TypeParts, PrefixCut DEF Pulled
<1>2. PICK at \in {"update", "scan"} : Goto(d, at)
  BY DEF Pull, Update
<1>3. /\ job' = [job EXCEPT ![d] = [job[d] EXCEPT !.at = at]] /\ UNCHANGED <<issue, remote, cls, killed>>
      /\ tip' = tip \/ tip' = [tip EXCEPT ![d] = Pulled(d)]
  BY <1>2 DEF Goto, Pull, Update, clone, repos
<1> HIDE DEF j
<1>4. /\ job'[d] = [job[d] EXCEPT !.at = at]
      /\ tip'[d] = tip[d] \/ tip'[d] = Pulled(d)
      /\ \A e \in Clones \ {d} : cls'[e] = cls[e] /\ tip'[e] = tip[e] /\ job'[e] = job[e]
  BY <1>0, <1>3 DEF TypeOK
<1>5. /\ job'[d].at = at /\ job'[d].dirty = job[d].dirty
  BY <1>1, <1>4 DEF Job
<1>6. Grown(issue, issue') /\ IsPrefix(remote, remote')
      /\ IssuesRight(issue', remote') /\ HistoryRight(issue', remote')
  BY <1>1, <1>3, PrefixRefl DEF Grown, IInv
<1>7. CloneRight(d)'
  <2>1. HistoryRight(issue, tip'[d])
    <3>1. HistoryRight(issue, tip[d]) /\ HistoryRight(issue, remote)
      BY <1>0 DEF CloneRight, IInv
    <3>2. HistoryRight(issue, Pulled(d))
      BY <1>1, <3>1 DEF HistoryRight
    <3> QED
      BY <1>4, <3>1, <3>2
  <2>2. HeldRight(issue, d, job'[d]) /\ DoneRight(issue, remote, tip'[d], job'[d])
    BY <1>0, <1>5 DEF HeldRight, DoneRight, Holding
  <2>3. d \notin killed => NotAhead(remote, tip'[d], job'[d])
    BY <1>0, <1>1, <1>4, <1>5 DEF CloneRight, NotAhead
  <2> QED
    BY <1>0, <1>3, <2>1, <2>2, <2>3 DEF CloneRight
<1> QED
  BY <1>0, <1>3, <1>4, <1>6, <1>7, StepRight

\* What hg sync closes has been announced, so it is in the central history.
LEMMA ScanRight ==
  ASSUME IInv, NEW d \in Clones, NEW n \in Issues, Scan(d, n)
  PROVE  IInv'
<1>0. /\ TypeOK /\ TypeOK' /\ IssuesRight(issue, remote)
  BY NumberedRight, RepoStepType DEF IInv
<1>1. n \in Local(d) /\ issue[n].submitted # {}
  BY DEF Scan, ToClose, IsRietveldSubmitted
<1>2. InHistory(remote, n)
  BY <1>0, <1>1 DEF IssuesRight
<1>3. CLRight(issue, d, n, cls[d][n]) /\ cls[d][n] \in CL
  BY <1>1, LocalRight
<1> QED
  BY <1>0, <1>1, <1>2, <1>3, BeginRight DEF Scan, Commands, repos, clone

LEMMA PruneRight ==
  ASSUME IInv, NEW d \in Clones, Prune(d)
  PROVE  IInv'
<1> DEFINE j == [Idle EXCEPT !.cmd = "sync", !.at = "flush",
                   !.dirty = [n \in Issues |->
                      IF n \in Local(d) /\ ~ cls[d][n].files \subseteq mod[d]
                      THEN [cls[d][n] EXCEPT !.files = @ \cap mod[d]] ELSE NoCL]]
<1>0. TypeOK /\ TypeOK'
  BY NumberedRight, RepoStepType DEF IInv
<1>1. ASSUME NEW n \in Local(d)
      PROVE  /\ [cls[d][n] EXCEPT !.files = @ \cap mod[d]] \in CL
             /\ CLRight(issue, d, n, [cls[d][n] EXCEPT !.files = @ \cap mod[d]])
  <2>1. cls[d][n] \in CL /\ CLRight(issue, d, n, cls[d][n])
    BY LocalRight
  <2>2. cls[d][n].files \cap mod[d] \in SUBSET Files
    BY <2>1 DEF CL
  <2> QED
    BY <2>1, <2>2, FilesRight
<1>2. /\ j \in Job /\ j.at = "flush"
      /\ \A n \in Issues : j.dirty[n] # NoCL => CLRight(issue, d, n, j.dirty[n])
  BY <1>1, SmallTypes DEF Job, Labels, Commands, Idle
<1>3. job' = [job EXCEPT ![d] = j] /\ UNCHANGED <<issue, remote, tip, cls, killed>> /\ ~ At(d, "push")
  BY DEF Prune, repos, clone, At
<1> HIDE DEF j
<1>4. HeldRight(issue, d, j) /\ DoneRight(issue, remote, tip[d], j)
  BY <1>2 DEF HeldRight, DoneRight, Holding
<1> QED
  BY <1>0, <1>2, <1>3, <1>4, IdleRight

\* Ends of a command, and the developer.
LEMMA EndRight ==
  ASSUME IInv, NEW d \in Clones, Refused(d) \/ Stop(d) \/ Kill(d) \/ Modify(d)
  PROVE  IInv'
<1>0. TypeOK /\ TypeOK'
  BY EndType DEF IInv
<1>1. CASE Refused(d) \/ Stop(d) \/ Kill(d)
  <2>1. /\ job' = [job EXCEPT ![d] = Idle] /\ UNCHANGED <<issue, remote, tip, cls>>
        /\ killed \subseteq killed' /\ (~ At(d, "push") \/ d \in killed')
    BY <1>1 DEF Refused, Stop, Kill, Finish, repos, clone, At
  <2> QED
    BY <1>0, <2>1, NothingHeld, IdleRight
<1>2. CASE Modify(d)
  <2>1. job[d] \in Job /\ job' = [job EXCEPT ![d] = job[d]] /\ UNCHANGED <<issue, remote, tip, cls, killed>>
    BY <1>0, <1>2, TypeParts DEF Modify, repos, TypeOK
  <2>2. HeldRight(issue, d, job[d]) /\ DoneRight(issue, remote, tip[d], job[d]) /\ ~ At(d, "push")
    BY <1>2 DEF IInv, CloneRight, Modify, At
  <2> QED
    BY <1>0, <2>1, <2>2, IdleRight DEF At
<1> QED
  BY <1>1, <1>2

-----------------------------------------------------------------------------
(* The theorems                                                            *)

LEMMA InitRight ==
  ASSUME Init
  PROVE  IInv
<1>1. TypeOK
  BY SmallTypes, BoundAssumption DEF Init, TypeOK
<1>2. IssuesRight(issue, remote) /\ HistoryRight(issue, remote)
  BY DEF Init, IssuesRight, HistoryRight, Unborn
<1>3. ASSUME NEW d \in Clones
      PROVE  CloneRight(d)
  <2>1. /\ job[d] = Idle /\ tip[d] = <<>> /\ remote = <<>>
        /\ \A n \in Issues : cls[d][n] = NoCL
    BY DEF Init, Clean
  <2>2. HistoryRight(issue, tip[d]) /\ NotAhead(remote, tip[d], job[d])
    <3>1. <<>> \in Seq(Change) /\ DOMAIN <<>> = {}
      OBVIOUS
    <3>2. HistoryRight(issue, <<>>)
      BY <3>1 DEF HistoryRight
    <3>3. IsPrefix(<<>>, <<>>)
      BY <3>1, PrefixRefl
    <3> QED
      BY <2>1, <3>2, <3>3, NothingHeld DEF NotAhead
  <2> QED
    BY <2>1, <2>2, NothingHeld DEF CloneRight
<1> QED
  BY <1>1, <1>2, <1>3 DEF IInv

LEMMA NextRight ==
  ASSUME IInv, [Next]_vars
  PROVE  IInv'
<1>1. CASE UNCHANGED vars
  BY <1>1 DEF vars, repos, clone, IInv, CloneRight, TypeOK
<1>2. ASSUME NEW d \in Clones, Step(d)
      PROVE  IInv'
  BY <1>2, CallStepRight, FileStepRight, CommitRight, PushRight, PushFailsRight,
     PullUpdateRight, ScanRight, PruneRight DEF Step
<1> QED
  BY <1>1, <1>2, CommandRight, EndRight DEF Next

\* The invariant holds for any developers, files, issues and bounds.
THEOREM Invariance == Spec => []IInv
<1>1. Init => IInv
  BY InitRight
<1>2. IInv /\ [Next]_vars => IInv'
  BY NextRight
<1> QED
  BY <1>1, <1>2, PTL DEF Spec

\* Types of the issues, repositories, CLs and running commands.
THEOREM TypeCorrect == Spec => []TypeOK
<1>1. IInv => TypeOK
  BY DEF IInv
<1> QED
  BY <1>1, Invariance, PTL

\* What is in the central repository has the author of its issue.
THEOREM AuthorIsKept == Spec => []AuthorKept
<1>1. IInv => AuthorKept
  BY DEF IInv, HistoryRight, AuthorKept
<1> QED
  BY <1>1, Invariance, PTL

\* What developers submit of their own has been mailed.
THEOREM OwnIsMailed == Spec => []OwnWasMailed
<1>1. IInv => OwnWasMailed
  BY DEF IInv, HistoryRight, OwnWasMailed
<1> QED
  BY <1>1, Invariance, PTL

\* No commit stays behind unpublished, unless the process was killed.
THEOREM CommitsAreRolledBack == Spec => []RolledBack
<1>1. IInv => RolledBack
  BY DEF IInv, CloneRight, NotAhead, RolledBack, At
<1> QED
  BY <1>1, Invariance, PTL

\* Only DeleteCL takes a CL away, and by then its change is in the central
\* repository or its developer has asked for it.
THEOREM CLsLeaveForReason == Spec => LeavesForReason
<1> DEFINE Leaves(d, n) == n \in Local(d) /\ n \notin Local(d)'
           Reason(d, n) == Published(n) \/ job[d].cmd \in {"abandon", "forget"}
<1>1. ASSUME IInv, [Next]_vars, NEW d \in Clones, NEW n \in Issues, Leaves(d, n)
      PROVE  Reason(d, n)
  <2>1. cls' # cls /\ cls[d][n] # NoCL /\ cls'[d][n] = NoCL
    BY <1>1 DEF Local
  <2>2. /\ cls \in [Clones -> [Issues -> CL \cup {NoCL}]]
        /\ \A e \in Clones : job[e].cl \in CL
    BY <1>1, JobParts DEF IInv, TypeOK
  <2>3. PICK e \in Clones : FlushCL(e) \/ DeleteCL(e) \/ FlushDirty(e)
    <3>1. \A e \in Clones : ~ Command(e)
      BY <2>1 DEF Command, ChangeNew, MailCmd, SubmitCmd, Undo, SyncCmd, ChangeEdit, ChangeDelete,
                  File, FileDelete, UploadCmd, Clpatch, clone
    <3>2. \A e \in Clones : ~ (CreateIssue(e) \/ CreateUnheard(e) \/ UploadPatch(e) \/ PostMail(e)
                               \/ PostAbandoned(e) \/ PostSubmitted(e) \/ CloseIssue(e))
      BY <2>1 DEF CreateIssue, CreateUnheard, UploadPatch, PostMail, PostAbandoned, PostSubmitted,
                  CloseIssue, clone
    <3>3. \A e \in Clones : ~ (Commit(e) \/ Push(e) \/ PushFails(e) \/ Pull(e) \/ Update(e)
                               \/ (\E m \in Issues : Scan(e, m)) \/ Prune(e))
      BY <2>1 DEF Commit, Push, PushFails, Pull, Update, Scan, Prune, clone
    <3>4. \A e \in Clones : ~ (Refused(e) \/ Stop(e) \/ Kill(e) \/ Modify(e))
      BY <2>1 DEF Refused, Stop, Kill, Modify, clone
    <3>5. ~ UNCHANGED vars
      BY <2>1 DEF vars, clone
    <3> QED
      BY <1>1, <3>1, <3>2, <3>3, <3>4, <3>5 DEF Next, Step
  <2>4. CASE DeleteCL(e)
    <3>1. e = d /\ n = job[d].n /\ job[d].at = "delete"
      BY <2>1, <2>2, <2>4 DEF DeleteCL, At
    <3> QED
      BY <1>1, <3>1 DEF IInv, CloneRight, DoneRight, InHistory, Published
  <2>5. CASE FlushCL(e)
    BY <2>1, <2>2, <2>5, NameAssumption DEF FlushCL
  <2>6. CASE FlushDirty(e)
    BY <2>1, <2>2, <2>6 DEF FlushDirty
  <2> QED
    BY <2>3, <2>4, <2>5, <2>6
<1>2. IInv /\ [Next]_vars => \A d \in Clones, n \in Issues : Leaves(d, n) => Reason(d, n)
  BY <1>1
<1>3. IInv /\ [Next]_vars =>
        [\A d \in Clones, n \in Issues :
           n \in Local(d) /\ n \notin Local(d)' => Published(n) \/ job[d].cmd \in {"abandon", "forget"}]_vars
  BY <1>2
<1> QED
  BY <1>3, Invariance, PTL DEF Spec, LeavesForReason

-----------------------------------------------------------------------------
(* The commands implement ReviewLife.                                      *)

\* What ReviewLife sees of a call that says nothing of the issue n.
LEMMA NothingSaid ==
  ASSUME TypeOK, NEW n \in Issues, NEW i, issue' = [issue EXCEPT ![n] = i],
         i.submitted = issue[n].submitted, i.abandoned = issue[n].abandoned
  PROVE  /\ Said' = Said
         /\ {m \in Issues : issue[m].abandoned}' = {m \in Issues : issue[m].abandoned}
<1>1. \A m \in Issues : issue'[m].submitted = issue[m].submitted /\ issue'[m].abandoned = issue[m].abandoned
  BY DEF TypeOK
<1> QED
  BY <1>1 DEF Said

LEMMA CallsKeepPromises ==
  ASSUME IInv, NEW d \in Clones,
         \/ CreateIssue(d) \/ CreateUnheard(d) \/ UploadPatch(d) \/ PostMail(d)
         \/ PostAbandoned(d) \/ PostSubmitted(d) \/ CloseIssue(d)
  PROVE  [Life!Next]_(Life!vars)
<1> DEFINE n == job[d].n
           Abandoned == {m \in Issues : issue[m].abandoned}
           Closed == {m \in Issues : issue[m].closed}
<1>0. /\ TypeOK /\ Numbered /\ issue \in [Issues -> Issue] /\ remote' = remote
      /\ DoneRight(issue, remote, tip[d], job[d])
  BY NumberedRight DEF IInv, TypeOK, CloneRight, CreateIssue, CreateUnheard, UploadPatch, PostMail,
     PostAbandoned, PostSubmitted, CloseIssue, repos
<1>1. CASE CreateIssue(d) \/ CreateUnheard(d)
  <2>0. PICK m \in Issues : \E i : /\ issue[m].owner = Nobody /\ issue' = [issue EXCEPT ![m] = i]
                                   /\ i.submitted = {} /\ i.abandoned = FALSE /\ i.closed = FALSE
    <3>1. /\ NewIssue(d).submitted = {} /\ NewIssue(d).abandoned = FALSE /\ NewIssue(d).closed = FALSE
      BY <1>0, JobParts, TypeParts, NewIssueType
    <3>2. \E m \in Issues : issue[m].owner = Nobody /\ issue' = [issue EXCEPT ![m] = NewIssue(d)]
      BY <1>1 DEF CreateIssue, CreateUnheard, Born
    <3> QED
      BY <3>1, <3>2
  <2>1. PICK i : /\ issue[m].owner = Nobody /\ issue' = [issue EXCEPT ![m] = i]
                 /\ i.submitted = {} /\ i.abandoned = FALSE /\ i.closed = FALSE
    BY <2>0
  <2>2. issue[m] = Unborn
    BY <2>1 DEF IInv, IssuesRight
  <2>3. UNCHANGED <<Said, Abandoned>>
    <3>1. Unborn.submitted = {} /\ Unborn.abandoned = FALSE
      BY DEF Unborn
    <3>2. i.submitted = issue[m].submitted /\ i.abandoned = issue[m].abandoned
      BY <2>1, <2>2, <3>1
    <3> QED
      BY <1>0, <2>1, <3>2, NothingSaid
  <2>4. Closed' = Closed
    BY <1>0, <2>1, <2>2 DEF Unborn
  <2> QED
    BY <1>0, <2>3, <2>4 DEF Life!vars
<1>2. CASE UploadPatch(d) \/ PostMail(d)
  <2>1. n \in Issues
    BY <1>0, <1>2 DEF UploadPatch, PostMail, Numbered, At
  <2>2. \E i : /\ issue' = [issue EXCEPT ![n] = i] /\ i.submitted = issue[n].submitted
               /\ i.abandoned = issue[n].abandoned /\ i.closed = issue[n].closed
    <3>1. issue[n] \in Issue
      BY <1>0, <2>1
    <3> QED
      BY <1>2, <3>1 DEF UploadPatch, PostMail, PostMessage, Issue
  <2>3. UNCHANGED <<Said, Abandoned>>
    BY <1>0, <2>1, <2>2, NothingSaid
  <2>4. Closed' = Closed
    BY <1>0, <2>1, <2>2
  <2> QED
    BY <1>0, <2>3, <2>4 DEF Life!vars
<1>3. CASE PostAbandoned(d)
  <2>1. n \in Issues /\ issue[n] \in Issue /\ issue' = [issue EXCEPT ![n] = [issue[n] EXCEPT !.abandoned = TRUE]]
    BY <1>0, <1>3 DEF PostAbandoned, PostMessage, Numbered, At
  <2>2. /\ issue'[n].abandoned /\ issue'[n].submitted = issue[n].submitted /\ issue'[n].closed = issue[n].closed
        /\ \A m \in Issues \ {n} : issue'[m] = issue[m]
    BY <1>0, <2>1 DEF Issue
  <2>3. Abandoned' = Abandoned \cup {n} /\ Closed' = Closed
    BY <2>1, <2>2
  <2>4. Said' = Said
    BY <2>1, <2>2 DEF Said
  <2> QED
    BY <1>0, <2>1, <2>3, <2>4 DEF Life!Next, Life!Abandon
<1>4. CASE PostSubmitted(d)
  <2>1. n \in Issues /\ issue[n] \in Issue
        /\ issue' = [issue EXCEPT ![n] = [issue[n] EXCEPT !.submitted = @ \cup {tip[d]}]]
    BY <1>0, <1>4 DEF PostSubmitted, PostMessage, Numbered, At
  <2>2. /\ issue'[n].abandoned = issue[n].abandoned /\ issue'[n].closed = issue[n].closed
        /\ issue'[n].submitted = issue[n].submitted \cup {tip[d]}
        /\ \A m \in Issues \ {n} : issue'[m] = issue[m]
    BY <1>0, <2>1 DEF Issue
  <2>3. Abandoned' = Abandoned /\ Closed' = Closed
    BY <2>1, <2>2
  <2>4. Said' = Said \cup {<<n, tip[d]>>}
    BY <2>1, <2>2 DEF Said
  <2>5. /\ tip[d] \in Seq(Change) /\ remote \in Seq(Change) /\ tip[d] # <<>>
        /\ IsPrefix(tip[d], remote) /\ Last(tip[d]).n = n
    BY <1>0, <1>4, TypeParts DEF PostSubmitted, At, DoneRight
  <2>6. /\ Len(tip[d]) \in DOMAIN remote /\ remote[Len(tip[d])].n = n
        /\ tip[d] = SubSeq(remote, 1, Len(tip[d]))
    <3>1. Len(tip[d]) \in 1 .. Len(tip[d]) /\ Last(tip[d]) = tip[d][Len(tip[d])]
      BY <2>5 DEF Last
    <3>2. Len(tip[d]) <= Len(remote) /\ \A i \in 1 .. Len(tip[d]) : tip[d][i] = remote[i]
      BY <2>5, PrefixDef
    <3>3. tip[d] = SubSeq(remote, 1, Len(tip[d]))
      BY <2>5, PrefixIsCut
    <3> QED
      BY <2>5, <3>1, <3>2, <3>3
  <2>7. Life!Announce(n, Len(tip[d]))
    BY <1>0, <2>3, <2>4, <2>6 DEF Life!Announce
  <2> QED
    BY <2>1, <2>6, <2>7 DEF Life!Next
<1>5. CASE CloseIssue(d)
  <2>1. n \in Issues /\ issue[n] \in Issue /\ issue' = [issue EXCEPT ![n] = [issue[n] EXCEPT !.closed = TRUE]]
    BY <1>0, <1>5 DEF CloseIssue, Numbered, At
  <2>2. /\ issue'[n].abandoned = issue[n].abandoned /\ issue'[n].submitted = issue[n].submitted /\ issue'[n].closed
        /\ \A m \in Issues \ {n} : issue'[m] = issue[m]
    BY <1>0, <2>1 DEF Issue
  <2>3. Closed' = Closed \cup {n} /\ Abandoned' = Abandoned
    BY <2>1, <2>2
  <2>4. Said' = Said
    BY <2>1, <2>2 DEF Said
  <2>5. n \in Abandoned \/ \E said \in Said : said[1] = n
    <3>1. issue[n].abandoned \/ issue[n].submitted # {}
      BY <1>0, <1>5 DEF CloseIssue, At, DoneRight
    <3>2. ASSUME issue[n].submitted # {}
          PROVE  \E said \in Said : said[1] = n
      <4>1. PICK rev \in issue[n].submitted : TRUE
        BY <3>2
      <4>2. <<n, rev>> \in Said
        BY <2>1, <4>1 DEF Said
      <4> QED
        BY <4>2
    <3> QED
      BY <2>1, <3>1, <3>2
  <2> QED
    BY <1>0, <2>1, <2>3, <2>4, <2>5 DEF Life!Next, Life!Close
<1> QED
  BY <1>1, <1>2, <1>3, <1>4, <1>5

\* A form that is posted leaves the issue as it is or opens it.
LEMMA FormKeepsPromises ==
  ASSUME IInv, NEW d \in Clones, FlushCL(d)
  PROVE  [Life!Next]_(Life!vars)
<1> DEFINE Abandoned == {m \in Issues : issue[m].abandoned}
           Closed == {m \in Issues : issue[m].closed}
<1>1. /\ TypeOK /\ job[d].n \in Issues /\ remote' = remote /\ issue \in [Issues -> Issue]
  BY NumberedRight DEF IInv, TypeOK, FlushCL, Numbered, repos
<1>2. /\ \A n \in Issues : /\ issue'[n].abandoned = issue[n].abandoned
                           /\ issue'[n].submitted = issue[n].submitted
                           /\ n # job[d].n => issue'[n] = issue[n]
      /\ issue' = issue \/ issue'[job[d].n].closed = FALSE
  BY <1>1, FormPosted
<1>3. Said' = Said /\ Abandoned' = Abandoned
  BY <1>2 DEF Said
<1>4. CASE issue' = issue
  BY <1>1, <1>3, <1>4 DEF Life!vars
<1>5. CASE issue'[job[d].n].closed = FALSE
  <2>1. PICK n \in Issues : n = job[d].n
    BY <1>1
  <2>2. Closed' = Closed \ {n}
    BY <1>2, <1>5, <2>1
  <2>3. Life!Reopen(n)
    BY <1>1, <1>3, <2>2 DEF Life!Reopen
  <2> QED
    BY <2>3 DEF Life!Next
<1> QED
  BY <1>2, <1>4, <1>5

\* However the commands interleave and wherever they end, what is published,
\* announced, abandoned and closed is as ReviewLife promises.
THEOREM PromisesAreKept == Spec => KeepsPromises
<1>1. Init => Life!Init
  BY DEF Init, Life!Init, Said, Unborn
<1>2. ASSUME IInv, [Next]_vars
      PROVE  [Life!Next]_(Life!vars)
  <2>1. CASE UNCHANGED <<issue, remote>>
    BY <2>1 DEF Life!vars, Said
  <2>2. ASSUME NEW d \in Clones, Push(d) \/ PushFails(d)
        PROVE  [Life!Next]_(Life!vars)
    <3>1. /\ issue' = issue
          /\ remote' = remote \/ (remote' = tip[d] /\ IsPrefix(remote, tip[d]))
          /\ tip[d] \in Seq(Change)
      BY <1>2, <2>2, TypeParts DEF IInv, Push, PushFails, MayPush
    <3>2. /\ Said' = Said
          /\ {n \in Issues : issue[n].abandoned}' = {n \in Issues : issue[n].abandoned}
          /\ {n \in Issues : issue[n].closed}' = {n \in Issues : issue[n].closed}
      BY <3>1 DEF Said
    <3>3. CASE remote' = tip[d] /\ IsPrefix(remote, tip[d])
      <4>1. Life!Publish
        BY <3>1, <3>2, <3>3 DEF Life!Publish, Life!IsPrefix, IsPrefix
      <4> QED
        BY <4>1 DEF Life!Next
    <3> QED
      BY <2>1, <3>1, <3>3
  <2>3. ASSUME NEW d \in Clones, Command(d) \/ Refused(d) \/ Stop(d) \/ Kill(d) \/ Modify(d)
        PROVE  UNCHANGED <<issue, remote>>
    BY <2>3 DEF Command, ChangeNew, MailCmd, SubmitCmd, Undo, SyncCmd, ChangeEdit, ChangeDelete,
                File, FileDelete, UploadCmd, Clpatch, Refused, Stop, Kill, Modify, repos
  <2>4. ASSUME NEW d \in Clones, DeleteCL(d) \/ FlushDirty(d)
        PROVE  UNCHANGED <<issue, remote>>
    BY <2>4 DEF DeleteCL, FlushDirty, repos
  <2>5. ASSUME NEW d \in Clones, Commit(d) \/ Pull(d) \/ Update(d) \/ (\E m \in Issues : Scan(d, m)) \/ Prune(d)
        PROVE  UNCHANGED <<issue, remote>>
    BY <2>5 DEF Commit, Pull, Update, Scan, Prune, repos
  <2>6. UNCHANGED vars => UNCHANGED <<issue, remote>>
    BY DEF vars, repos
  <2>7. ASSUME NEW d \in Clones, FlushCL(d)
        PROVE  [Life!Next]_(Life!vars)
    BY <1>2, <2>7, FormKeepsPromises
  <2> QED
    BY <1>2, <2>1, <2>2, <2>3, <2>4, <2>5, <2>6, <2>7, CallsKeepPromises DEF Next, Step
<1>3. IInv /\ [Next]_vars => [Life!Next]_(Life!vars)
  BY <1>2
<1> QED
  BY <1>1, <1>3, Invariance, PTL DEF Spec, KeepsPromises, Life!Spec
=============================================================================
