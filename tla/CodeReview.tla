----------------------------- MODULE CodeReview -----------------------------
(***************************************************************************)
(* The code review extension of Mercurial that comes with go-uuid          *)
(* (lib/codereview/codereview.py): the commands that carry a change list   *)
(* (CL) from a developer's clone over the review server, Rietveld, into    *)
(* the central repository.                                                 *)
(*                                                                         *)
(* A command is a sequence of calls to three stores that share no          *)
(* transaction: the issues of the server, the repositories, and the files  *)
(* .hg/codereview/cl.N of the clone.  It is one step per call here; other  *)
(* developers' commands go on in between, and it may end after any step,   *)
(* by an error, an early return or the end of the process.                 *)
(*                                                                         *)
(* A developer has one clone and runs one command at a time.  Of           *)
(* Mercurial's working directory the model keeps the set of modified       *)
(* files, of a patch the files it touches, of a description the issues     *)
(* whose URLs it has on lines of their own.  A revision is the sequence of *)
(* changes that ends with it, as its hash depends on its ancestors.        *)
(***************************************************************************)
EXTENDS Integers, Sequences, FiniteSets, SequencesExt

CONSTANTS
  Clones,       \* the developers, each with a clone
  Files,        \* the files of the repository
  Issues,       \* the numbers the server gives to issues
  Nobody,       \* no developer
  New,          \* the name of a CL that has no issue yet
  NoCL,         \* no file cl.N
  MaxRevs,      \* bound: revisions in a repository
  Uses,         \* bound: by clone, the commands its developer uses
  Counted,      \* bound: the commands that MaxCommands limits
  MaxCommands,  \* bound: how many of them are begun
  MaxFails      \* bound: how often a command is cut short

\* What cl.N keeps, as DiskText writes it.
CL == [files: SUBSET Files, copied: Clones \cup {Nobody}, mailed: BOOLEAN]

\* user is the author, by the developer who committed (the Committer: line)
Change == [n: Issues, quotes: SUBSET Issues, files: SUBSET Files, user: Clones, by: Clones]

Labels == {"idle", "create", "recreate", "patch", "save", "resave", "mail", "commit", "push",
           "announce", "abandon", "close", "delete", "pull", "update", "scan", "flush"}
Commands == {"new", "edit", "upload", "mail", "submit", "abandon", "forget", "file",
             "sync", "clpatch", "undo"}

ASSUME NameAssumption ==
  Nobody \notin Clones /\ New \notin Issues /\ NoCL \notin CL
ASSUME BoundAssumption ==
  /\ MaxRevs \in Nat /\ MaxCommands \in Nat /\ MaxFails \in Nat
  /\ Uses \in [Clones -> SUBSET Commands] /\ Counted \subseteq Commands

VARIABLES
  issue,    \* server: the issues by number
  remote,   \* the history of the central repository
  tip,      \* by clone: the history of the working directory's parent
  known,    \* by clone: how much of remote has been pulled
  stray,    \* by clone: is there a head that was committed and left behind
  mod,      \* by clone: the modified files of the working directory
  cls,      \* by clone and issue: the file cl.N
  job,      \* by clone: the command that runs, where it is, its CL in memory
  killed,   \* history: clones whose process died between commit and push
  left      \* bound: what is left of MaxCommands and MaxFails

vars == <<issue, remote, tip, known, stray, mod, cls, job, killed, left>>
repos == <<remote, tip, known, stray>>
clone == <<mod, cls>>

Unborn == [owner |-> Nobody, closed |-> FALSE, abandoned |-> FALSE, mailed |-> FALSE,
           patch |-> {}, quotes |-> {}, submitted |-> {}]
(* A definition whose name ends in an underscore and a word is a faulty    *)
(* variant of the one it precedes: what TLC substitutes to see that a      *)
(* property notices the fault.  Nothing uses it.                           *)

Blank_EmptyAuthor == [files |-> {}, copied |-> "", mailed |-> FALSE]
Blank == [files |-> {}, copied |-> Nobody, mailed |-> FALSE]
Clean == [n \in Issues |-> NoCL]
Idle == [at |-> "idle", cmd |-> "none", n |-> New, cl |-> Blank, quotes |-> {}, dirty |-> Clean]

Local(d) == {n \in Issues : cls[d][n] # NoCL}
Born(n) == issue[n].owner # Nobody
LoadCL(d, n) == IF n \in Local(d) THEN cls[d][n] ELSE Blank

\* The files other CLs have; what a new CL may start with (ChangedFiles); and
\* what the file list the editor returns is checked down to: of the files of
\* the repository none is omitted, also those that are unmodified and those
\* another CL has.
Taken(d) == UNION {cls[d][n].files : n \in Local(d)}
DefaultFiles(d) == mod[d] \ Taken(d)
EditCL == SUBSET Files

\* The revisions of a clone: those pulled, and those below its working directory.
Log(d) == {SubSeq(tip[d], 1, i) : i \in 1 .. Len(tip[d])}
            \cup {SubSeq(remote, 1, i) : i \in 1 .. known[d]}

At(d, at) == job[d].at = at
Goto(d, at) == job' = [job EXCEPT ![d].at = at]
Fail == left.fails > 0 /\ left' = [left EXCEPT !.fails = @ - 1]
Finish(d) == job' = [job EXCEPT ![d] = Idle]

-----------------------------------------------------------------------------
(* The commands: what they read and refuse before their first call.        *)

Begin(d, cmd, at, n, cl) ==
  job' = [job EXCEPT ![d] = [Idle EXCEPT !.cmd = cmd, !.at = at, !.n = n, !.cl = cl]]

BeginNew(d, cmd, files, quotes) ==
  job' = [job EXCEPT ![d] = [Idle EXCEPT !.cmd = cmd, !.at = "create", !.quotes = quotes,
                                         !.cl = [Blank EXCEPT !.files = files]]]

\* hg change FILE ...: a description may quote the URL of another issue.
ChangeNew(d) ==
  /\ \E files \in EditCL, q \in {n \in Issues : Born(n)} \cup {New} :
       BeginNew(d, "new", files, {q} \ {New})
  /\ UNCHANGED <<issue, repos, clone, killed>>

\* hg change N.  (A description that is edited keeps its URLs.)
ChangeEdit(d, n) ==
  /\ n \in Local(d)
  /\ \E files \in EditCL : Begin(d, "edit", "save", n, [cls[d][n] EXCEPT !.files = files])
  /\ UNCHANGED <<issue, repos, clone, killed>>

\* hg change -d N and -D N
ChangeDelete(d, n) ==
  /\ n \in Local(d)
  /\ \/ cls[d][n].copied = Nobody /\ Begin(d, "abandon", "abandon", n, cls[d][n])
     \/ Begin(d, "forget", "delete", n, cls[d][n])
  /\ UNCHANGED <<issue, repos, clone, killed>>

\* hg file N FILE ...: the modified files move to CL n from the CLs that have
\* them (from one of them, where several have the same file).
Refile(d, n, files, taken) ==
  [Idle EXCEPT !.cmd = "file", !.at = "flush",
     !.dirty = [m \in Issues |->
       IF m = n THEN [cls[d][m] EXCEPT !.files = @ \cup files]
       ELSE IF m \in Local(d) /\ (\E f \in files : taken[f] = m) THEN [cls[d][m] EXCEPT !.files = @ \ files]
       ELSE NoCL]]

File(d, n) ==
  /\ n \in Local(d)
  /\ \E files \in SUBSET (mod[d] \ cls[d][n].files) \ {{}} :
       \E taken \in [files -> Local(d) \cup {New}] :
         /\ \A f \in files : IF f \in Taken(d) THEN taken[f] \in Local(d) /\ f \in cls[d][taken[f]].files
                                               ELSE taken[f] = New
         /\ job' = [job EXCEPT ![d] = Refile(d, n, files, taken)]
  /\ UNCHANGED <<issue, repos, clone, killed>>

\* hg file -d N FILE ...
FileDelete(d, n) ==
  /\ n \in Local(d)
  /\ \E files \in SUBSET (mod[d] \cap cls[d][n].files) \ {{}} :
       Begin(d, "file", "save", n, [cls[d][n] EXCEPT !.files = @ \ files])
  /\ UNCHANGED <<issue, repos, clone, killed>>

UploadCmd(d, n) ==
  /\ n \in Local(d)
  /\ Begin(d, "upload", "patch", n, cls[d][n])
  /\ UNCHANGED <<issue, repos, clone, killed>>

\* mail and submit FILE ...: a new CL, of files of which some have changed.
CommandLineNew(d, cmd) ==
  /\ DefaultFiles(d) # {}
  /\ \E files \in EditCL : BeginNew(d, cmd, files, {})

\* hg mail N does not ask whether the CL lives here: one that does not has no files.
MailCmd(d) ==
  /\ \/ \E n \in Issues : Born(n) /\ Begin(d, "mail", "patch", n, LoadCL(d, n))
     \/ CommandLineNew(d, "mail")
  /\ UNCHANGED <<issue, repos, clone, killed>>

UpToDate(d) == known[d] = Len(remote)
\* The CL of somebody else is not uploaded: its issue is not ours.
SubmitCmd(d) ==
  /\ Len(tip[d]) < MaxRevs
  /\ UpToDate(d)
  /\ \/ \E n \in Local(d) :
          Begin(d, "submit", IF cls[d][n].copied = Nobody THEN "patch" ELSE "save", n, cls[d][n])
     \/ CommandLineNew(d, "submit")
  /\ UNCHANGED <<issue, repos, clone, killed>>

\* hg sync, and hg sync --local
SyncCmd(d, at) ==
  /\ at \in {"pull", "update"}
  /\ Begin(d, "sync", at, New, Blank)
  /\ UNCHANGED <<issue, repos, clone, killed>>

\* hg clpatch N: hgpatch touches no file that is modified already.  The CL is
\* the one on disk if there is one, its files those of the patch.
Downloaded_Mailed(d, n) ==
  LET cl == LoadCL(d, n)
  IN IF issue[n].owner = d THEN [cl EXCEPT !.files = issue[n].patch, !.mailed = TRUE]
     ELSE [cl EXCEPT !.files = issue[n].patch, !.copied = issue[n].owner]
Downloaded(d, n) ==
  LET cl == LoadCL(d, n)
  IN IF issue[n].owner = d THEN [cl EXCEPT !.files = issue[n].patch, !.mailed = issue[n].mailed]
     ELSE [cl EXCEPT !.files = issue[n].patch, !.copied = issue[n].owner]

Clpatch(d, n) ==
  /\ Born(n)
  /\ issue[n].patch # {}
  /\ issue[n].patch \cap mod[d] = {}
  /\ mod' = [mod EXCEPT ![d] = @ \cup issue[n].patch]
  /\ Begin(d, "clpatch", "save", n, Downloaded(d, n))
  /\ UNCHANGED <<issue, repos, cls, killed>>

\* hg undo N: a new CL that reverses a change of the clone and quotes its
\* whole description.
Undo(d) ==
  /\ \E rev \in Log(d) :
       LET c == rev[Len(rev)] IN
         /\ c.files \cap mod[d] = {}
         /\ mod' = [mod EXCEPT ![d] = @ \cup c.files]
         /\ BeginNew(d, "undo", c.files, c.quotes \cup {c.n})
  /\ UNCHANGED <<issue, repos, cls, killed>>

-----------------------------------------------------------------------------
(* The calls to the review server *)

\* "No valid patches found": a CL with files, of which none differs, ends the command.
Sends(d) == At(d, "patch") \/ job[d].cmd \in {"mail", "submit"}
NoDiff(d) == Sends(d) /\ job[d].cl.files # {} /\ job[d].cl.files \cap mod[d] = {}

\* Posting without an issue number.  Only mail and submit send a patch along.
NewIssue(d) == [Unborn EXCEPT !.owner = d, !.quotes = job[d].quotes,
                  !.patch = IF Sends(d) THEN job[d].cl.files \cap mod[d] ELSE {}]

\* The answer has the number.
CreateIssue(d) ==
  /\ job[d].at \in {"create", "recreate"}
  /\ ~ NoDiff(d)
  /\ \E n \in Issues :
       /\ ~ Born(n)
       /\ issue' = [issue EXCEPT ![n] = NewIssue(d)]
       /\ job' = [job EXCEPT ![d] = [@ EXCEPT !.n = n, !.at = "save"]]
  /\ UNCHANGED <<repos, clone, killed, left>>

\* MySend posts once more if the answer is HTTP 500, though the issue may be there.
CreateUnheard(d) ==
  /\ At(d, "create")
  /\ ~ NoDiff(d)
  /\ \E n \in Issues :
       /\ ~ Born(n)
       /\ issue' = [issue EXCEPT ![n] = NewIssue(d)]
  /\ Goto(d, "recreate")
  /\ UNCHANGED <<repos, clone, killed>>
  /\ Fail

\* The server takes a patch set from the owner only.
UploadPatch(d) ==
  /\ At(d, "patch")
  /\ ~ NoDiff(d)
  /\ LET cl == job[d].cl  n == job[d].n IN
       /\ issue[n].owner = d
       /\ issue' = [issue EXCEPT ![n].patch = cl.files \cap mod[d]]
  /\ Goto(d, IF job[d].cmd = "new" THEN "resave" ELSE "save")
  /\ UNCHANGED <<repos, clone, killed, left>>

PostMessage(n, read) == issue' = [issue EXCEPT ![n] = read]

\* CL.Mail posts the message and marks the CL on disk afterwards.
PostMail(d) ==
  /\ At(d, "mail")
  /\ PostMessage(job[d].n, [issue[job[d].n] EXCEPT !.mailed = TRUE])
  /\ job' = [job EXCEPT ![d] = [@ EXCEPT !.at = "resave", !.cl.mailed = TRUE]]
  /\ UNCHANGED <<repos, clone, killed, left>>

PostAbandoned(d) ==
  /\ At(d, "abandon")
  /\ PostMessage(job[d].n, [issue[job[d].n] EXCEPT !.abandoned = TRUE])
  /\ Goto(d, "close")
  /\ UNCHANGED <<repos, clone, killed, left>>

PostSubmitted(d) ==
  /\ At(d, "announce")
  /\ PostMessage(job[d].n, [issue[job[d].n] EXCEPT !.submitted = @ \cup {tip[d]}])
  /\ Goto(d, IF job[d].cl.copied = Nobody THEN "close" ELSE "delete")
  /\ UNCHANGED <<repos, clone, killed, left>>

\* EditDesc(closed=True); the form is the owner's.
CloseIssue(d) ==
  /\ At(d, "close")
  /\ issue[job[d].n].owner = d
  /\ issue' = [issue EXCEPT ![job[d].n].closed = TRUE]
  /\ Goto(d, "delete")
  /\ UNCHANGED <<repos, clone, killed, left>>

-----------------------------------------------------------------------------
(* The files cl.N *)

\* CL.Flush: what comes after it depends on where it is called.
AfterFlush(j) ==
  CASE j.cmd = "new" /\ j.at = "save" -> "patch"
    [] j.cmd = "mail" /\ j.at = "save" /\ j.cl.files # {} -> "mail"
    [] j.cmd = "submit" /\ j.at = "save" /\ ~ j.cl.mailed /\ j.cl.copied = Nobody -> "mail"
    [] j.cmd = "submit" /\ (j.at = "resave" \/ j.cl.mailed \/ j.cl.copied # Nobody) -> "commit"
    [] OTHER -> "idle"

\* A CL of one's own that was loaded from the server, or has just been uploaded,
\* is posted, too: EditDesc sends the edit form back as it got it, with the
\* values of check boxes but not whether they are checked, so that an issue
\* that is closed may be open then.  (Nobody but the owner posts the form, so
\* that and the file are one step; the command may be cut short after it.)
Posts(j) == j.cmd # "file" /\ j.cl.copied = Nobody

FlushCL(d) ==
  /\ job[d].at \in {"save", "resave"}
  /\ cls' = [cls EXCEPT ![d][job[d].n] = job[d].cl]
  /\ \/ issue' = issue
     \/ Posts(job[d]) /\ issue' = [issue EXCEPT ![job[d].n].closed = FALSE]
  /\ IF AfterFlush(job[d]) = "idle" THEN Finish(d) ELSE Goto(d, AfterFlush(job[d]))
  /\ UNCHANGED <<repos, mod, killed, left>>

DeleteCL(d) ==
  /\ At(d, "delete")
  /\ cls' = [cls EXCEPT ![d][job[d].n] = NoCL]
  /\ IF job[d].cmd = "sync" THEN Begin(d, "sync", "scan", New, Blank) ELSE Finish(d)
  /\ UNCHANGED <<issue, repos, mod, killed, left>>

\* The CLs a command has changed are written one by one, in the order of a dict.
FlushDirty(d) ==
  /\ At(d, "flush")
  /\ \/ \E n \in Issues :
          /\ job[d].dirty[n] # NoCL
          /\ cls' = [cls EXCEPT ![d][n] = job[d].dirty[n]]
          /\ job' = [job EXCEPT ![d].dirty[n] = NoCL]
     \/ job[d].dirty = Clean /\ Finish(d) /\ cls' = cls
  /\ UNCHANGED <<issue, repos, mod, killed, left>>

-----------------------------------------------------------------------------
(* The repositories *)

\* The changeset has the author of the CL, and the URL of its issue last.
Author_Committer(d, cl) == d
Author(d, cl) == IF cl.copied = Nobody THEN d ELSE cl.copied

Commit(d) ==
  /\ At(d, "commit")
  /\ LET cl == job[d].cl  n == job[d].n  files == cl.files \cap mod[d] IN
       /\ files # {}
       /\ tip' = [tip EXCEPT ![d] = Append(@, [n |-> n, quotes |-> issue[n].quotes, files |-> files,
                                               user |-> Author(d, cl), by |-> d])]
       /\ mod' = [mod EXCEPT ![d] = @ \ files]
  /\ Goto(d, "push")
  /\ UNCHANGED <<issue, remote, known, stray, cls, killed, left>>

\* The central repository takes no new head.
MayPush_Forced(d) == ~ stray[d]
MayPush(d) == IsPrefix(remote, tip[d]) /\ ~ stray[d]

Push(d) ==
  /\ At(d, "push")
  /\ MayPush(d)
  /\ remote' = tip[d]
  /\ known' = [known EXCEPT ![d] = Len(tip[d])]
  /\ Goto(d, "announce")
  /\ UNCHANGED <<issue, tip, stray, clone, killed, left>>

\* real_rollback takes back the commit and leaves the working directory.
Rollback_FilesOnly(d) ==
  /\ tip' = tip
  /\ mod' = [mod EXCEPT ![d] = @ \cup Last(tip[d]).files]
Rollback(d) ==
  /\ tip' = [tip EXCEPT ![d] = Front(@)]
  /\ mod' = [mod EXCEPT ![d] = @ \cup Last(tip[d]).files]

\* "push to remote; if it fails for any reason, roll back": also if the
\* changeset has arrived and only the answer has not.
PushFails(d) ==
  /\ At(d, "push")
  /\ Rollback(d)
  /\ remote' \in {remote} \cup (IF MayPush(d) THEN {tip[d]} ELSE {})
  /\ Finish(d)
  /\ UNCHANGED <<issue, known, stray, cls, killed, left>>

Pull(d) ==
  /\ At(d, "pull")
  /\ known' = [known EXCEPT ![d] = Len(remote)]
  /\ Goto(d, "update")
  /\ UNCHANGED <<issue, remote, tip, stray, clone, killed, left>>

\* hg update: modified files are merged, which may leave nothing of the
\* modification; a working directory on another head is left only if clean,
\* and not if the commit it is on is the newest of the clone.
Pulled(d) == SubSeq(remote, 1, known[d])
Diverged(d) == ~ IsPrefix(tip[d], Pulled(d)) /\ ~ IsPrefix(Pulled(d), tip[d])
Update(d) ==
  LET pulled == Pulled(d)
      touched == UNION {pulled[i].files : i \in (Len(tip[d]) + 1) .. Len(pulled)}
  IN /\ At(d, "update")
     /\ \/ /\ IsPrefix(pulled, tip[d]) \/ Diverged(d)
           /\ UNCHANGED <<tip, stray, mod>>
        \/ /\ IsPrefix(tip[d], pulled) /\ tip[d] # pulled
           /\ tip' = [tip EXCEPT ![d] = pulled]
           /\ \E same \in SUBSET (mod[d] \cap touched) : mod' = [mod EXCEPT ![d] = @ \ same]
           /\ stray' = stray
        \/ /\ Diverged(d)
           /\ mod[d] = {}
           /\ tip' = [tip EXCEPT ![d] = pulled]
           /\ stray' = [stray EXCEPT ![d] = TRUE]
           /\ mod' = mod
     /\ Goto(d, "scan")
     /\ UNCHANGED <<issue, remote, known, cls, killed, left>>

\* sync_changes: "Look through recent change log descriptions to find
\* potential references [...]  Double-check them by looking at the Rietveld log."
IsRietveldSubmitted_Unchecked(n, rev) == TRUE
IsRietveldSubmitted(n, rev) == rev \in issue[n].submitted
Mentioned(n, rev) == n \in rev[Len(rev)].quotes \cup {rev[Len(rev)].n}

ToClose_Own(d) ==
  {n \in Local(d) : /\ cls[d][n].copied = Nobody
                    /\ \E rev \in Log(d) : Mentioned(n, rev) /\ IsRietveldSubmitted(n, rev)}
ToClose(d) == {n \in Local(d) : \E rev \in Log(d) : Mentioned(n, rev) /\ IsRietveldSubmitted(n, rev)}

Scan(d, n) ==
  /\ At(d, "scan")
  /\ n \in ToClose(d)
  /\ Begin(d, "sync", IF cls[d][n].copied = Nobody THEN "close" ELSE "delete", n, cls[d][n])
  /\ UNCHANGED <<issue, repos, clone, killed, left>>

\* "Remove files that are not modified from the CLs in which they appear."
\* A CL whose messages cannot be loaded is passed over, so this may come early.
Prune(d) ==
  /\ At(d, "scan")
  /\ job' = [job EXCEPT ![d] = [Idle EXCEPT !.cmd = "sync", !.at = "flush",
       !.dirty = [n \in Issues |->
          IF n \in Local(d) /\ ~ cls[d][n].files \subseteq mod[d]
          THEN [cls[d][n] EXCEPT !.files = @ \cap mod[d]] ELSE NoCL]]]
  /\ IF ToClose(d) = {} THEN left' = left ELSE Fail
  /\ UNCHANGED <<issue, repos, clone, killed>>

-----------------------------------------------------------------------------
(* Ends of a command, and the developer *)

\* What the code or the server refuses: a patch set for the issue of somebody
\* else or without a difference, a commit without one, leaving a head with
\* modified files.  (An issue cannot be created when Issues is used up.)
Refused(d) ==
  /\ \/ At(d, "patch") /\ issue[job[d].n].owner # d
     \/ job[d].at \in {"create", "recreate", "patch"} /\ NoDiff(d)
     \/ At(d, "commit") /\ job[d].cl.files \cap mod[d] = {}
     \/ At(d, "update") /\ Diverged(d) /\ mod[d] # {}
     \/ job[d].at \in {"create", "recreate"} /\ \A n \in Issues : Born(n)
  /\ Finish(d)
  /\ UNCHANGED <<issue, repos, clone, killed, left>>

\* An RPC that fails, a refusal, an early return, ^C: whatever was done stays done.
Stop(d) ==
  /\ job[d].at \notin {"idle", "push"}
  /\ Finish(d)
  /\ UNCHANGED <<issue, repos, clone, killed>>
  /\ Fail

\* The process dies between the commit and the push, and nothing is rolled back.
Kill(d) ==
  /\ At(d, "push")
  /\ Finish(d)
  /\ killed' = killed \cup {d}
  /\ UNCHANGED <<issue, repos, clone>>
  /\ Fail

Modify(d) ==
  /\ At(d, "idle")
  /\ \E f \in Files : mod' = [mod EXCEPT ![d] = (@ \cup {f}) \ (@ \cap {f})]
  /\ UNCHANGED <<issue, repos, cls, job, killed, left>>

Init ==
  /\ issue = [n \in Issues |-> Unborn]
  /\ remote = <<>>
  /\ tip = [d \in Clones |-> <<>>]
  /\ known = [d \in Clones |-> 0]
  /\ stray = [d \in Clones |-> FALSE]
  /\ mod = [d \in Clones |-> {}]
  /\ cls = [d \in Clones |-> Clean]
  /\ job = [d \in Clones |-> Idle]
  /\ killed = {}
  /\ left = [commands |-> MaxCommands, fails |-> MaxFails]

Command(d) ==
  /\ At(d, "idle")
  /\ \/ ChangeNew(d) \/ MailCmd(d) \/ SubmitCmd(d) \/ Undo(d)
     \/ \E at \in {"pull", "update"} : SyncCmd(d, at)
     \/ \E n \in Issues : \/ ChangeEdit(d, n) \/ ChangeDelete(d, n) \/ File(d, n) \/ FileDelete(d, n)
                          \/ UploadCmd(d, n) \/ Clpatch(d, n)
  /\ job'[d].cmd \in Uses[d]
  /\ IF job'[d].cmd \notin Counted THEN left' = left
     ELSE left.commands > 0 /\ left' = [left EXCEPT !.commands = @ - 1]

Step(d) ==
  \/ CreateIssue(d) \/ CreateUnheard(d) \/ UploadPatch(d) \/ PostMail(d)
  \/ PostAbandoned(d) \/ PostSubmitted(d) \/ CloseIssue(d)
  \/ FlushCL(d) \/ DeleteCL(d) \/ FlushDirty(d)
  \/ Commit(d) \/ Push(d) \/ PushFails(d) \/ Pull(d) \/ Update(d)
  \/ \E n \in Issues : Scan(d, n)
  \/ Prune(d)

Next == \E d \in Clones : Command(d) \/ Step(d) \/ Refused(d) \/ Stop(d) \/ Kill(d) \/ Modify(d)

Spec == Init /\ [][Next]_vars

\* Developers sync again and again, and a command that runs goes on.  (That a
\* call is answered in the end is in the bound on failures.)
Syncs(d) == Command(d) /\ job'[d].cmd = "sync" /\ job'[d].at = "pull"
SpecFair ==
  /\ Spec
  /\ \A d \in Clones : SF_vars(Syncs(d)) /\ WF_vars(Step(d) \/ Refused(d))
-----------------------------------------------------------------------------
(* Properties *)

Issue == [owner: Clones \cup {Nobody}, closed: BOOLEAN, abandoned: BOOLEAN, mailed: BOOLEAN,
          patch: SUBSET Files, quotes: SUBSET Issues, submitted: SUBSET Seq(Change)]

Job == [at: Labels, cmd: Commands \cup {"none"}, n: Issues \cup {New}, cl: CL,
        quotes: SUBSET Issues, dirty: [Issues -> CL \cup {NoCL}]]

\* Types of the issues, repositories, CLs and running commands.
TypeOK ==
  /\ issue \in [Issues -> Issue]
  /\ remote \in Seq(Change)
  /\ tip \in [Clones -> Seq(Change)]
  /\ known \in [Clones -> 0 .. Len(remote)]
  /\ stray \in [Clones -> BOOLEAN]
  /\ mod \in [Clones -> SUBSET Files]
  /\ cls \in [Clones -> [Issues -> CL \cup {NoCL}]]
  /\ job \in [Clones -> Job]
  /\ killed \subseteq Clones
  /\ left \in [commands: 0 .. MaxCommands, fails: 0 .. MaxFails]

\* A changeset in the central repository has the author of its issue, whoever
\* imported and submitted it ("will keep the original author's name").
AuthorKept == \A i \in DOMAIN remote : remote[i].user = issue[remote[i].n].owner

\* What a developer submits of their own has been mailed for review, however
\* many commands were cut short before ("in case this is TBR").
OwnWasMailed ==
  \A i \in DOMAIN remote : remote[i].user = remote[i].by => issue[remote[i].n].mailed

\* No commit stays behind unpublished in a clone, whatever becomes of the
\* push, unless the process was killed ("if it fails for any reason, roll back").
RolledBack == \A d \in Clones : At(d, "idle") /\ d \notin killed => IsPrefix(tip[d], remote)

\* A CL leaves a clone because its developer deletes it, or because a change
\* that was made from it is in the central repository.
Published(n) == \E i \in DOMAIN remote : remote[i].n = n
LeavesForReason ==
  [][\A d \in Clones, n \in Issues :
       n \in Local(d) /\ n \notin Local(d)' => Published(n) \/ job[d].cmd \in {"abandon", "forget"}]_vars

Said == UNION {{<<n, rev>> : rev \in issue[n].submitted} : n \in Issues}
Life == INSTANCE ReviewLife WITH
          history <- remote, announced <- Said,
          abandoned <- {n \in Issues : issue[n].abandoned},
          closed <- {n \in Issues : issue[n].closed}

\* However commands of several developers interleave and wherever they end,
\* the central history is only continued, an issue is said to be submitted as
\* a revision that was made from it and is in that history, and is closed only
\* when that has been said or it is abandoned (a closed one may open again).
KeepsPromises == Life!Spec

\* Once its change is announced, a CL goes from the clones that have it as
\* their developers sync again and again, except while a clone is stuck with
\* modified files on a head of its own (left by a process that was killed).
Announced(n) == \E i \in DOMAIN remote : SubSeq(remote, 1, i) \in issue[n].submitted
SubmittedCLsClose ==
  \A d \in Clones, n \in Issues : Announced(n) /\ n \in Local(d) ~> n \notin Local(d) \/ Diverged(d)
=============================================================================
