# MFAYubiCrypt, verified

MFAYubiCrypt encrypts a file under a key that no single person has. A server
keeps, for each member of a quorum, a random key encrypted under the answer the
member's YubiKey gives to a challenge; the file's key is the hash of all of
them. To decrypt, every member has to answer a challenge. This directory holds
TLA+ models of the programs in `src/`, TLC configurations that check them on
small instances, and theorems that TLAPS proves for all instances. It models one more
program of the tree, the code review extension of Mercurial that came with the
Go package the server's test uses. Every definition is translated from the
source; `PROJECT.json` maps each one to its lines.

## 1. The system

| component | state it keeps | operations | talks to |
|---|---|---|---|
| Server (`MFAYubiCryptServer`, Nancy/C#) | MySQL tables `users`, `encrypt_keys`; redis keys `ChallengeEntity`, `response_*`, `request_*` | create user, setup, decrypt, poll challenge, respond, get key | both clients over HTTP; MySQL through one shared connection; redis through pooled clients |
| Disk client (`MFAYubiCryptHarddrive`, C#) | the file on disk, a list of (file, encryption id) in memory | encrypt a file, decrypt a file | server: setup, decrypt, get key |
| Member's client (`MFAYubiCryptClient`, C#) | none that outlives a run | register, fetch a challenge, have it answered, post the answer | server; a child process |
| YkLibTest (C++) | a `CYkLib` | send one HMAC challenge and wait | its standard output; the library |
| YubiKey library `CYkLib` (C++) | handle, port list, last command, expected sequence number | open, close, enumerate, status, four commands, wait, abort | the YubiKey, by HID feature reports |
| AsyncSample (MFC/C++) | `m_pending`, a `CYkLib` | button, 250 ms timer, message boxes | the library |
| servertest (Go), EncryptionTests | none | scripts against a server, one round trip | server, `Cryptography` |
| Code review extension (`codereview.py`, Python) | files `.hg/codereview/cl.N` of a clone; the process's login | change, file, upload, mail, submit, sync, clpatch, undo, abandon | review server (Rietveld) over HTTP, Mercurial's repositories |

A request travels like this. The disk client posts to `/api/setup`; the server
draws a key per user and stores its row; the reply's `ShaKeys` encrypts the
file. To decrypt, the disk client posts to `/api/decrypt/{id}`; the server
stores one challenge per row and then the request. Each member's client polls
`/api/challenge/{user}`, runs YkLibTest on what it gets and posts the answer.
The disk client polls `/api/decrypt/{request}` until the key comes.

The code review extension is not part of MFAYubiCrypt. go-uuid is carried in the
tree under `servertest`, and with it the program by which its developers have
changes reviewed and submitted. It is the largest program of the tree and the
one with the most moving parts. A developer names a change list (CL), which
creates an issue on the review server and a file `cl.N` in the clone; uploads the
patch; mails reviewers; and submits: uploads once more, commits, pushes, posts
"Submitted as", closes the issue and deletes the file. Other developers take the CL
into clones of their own with clpatch, may submit it for its author, and learn by
sync which CLs are done. Contents and CLs are moved by threads that share one
connection and one password prompt.

What is hard about it all:

- handlers run concurrently and touch shared stores in several separate calls,
  without transactions: respond is read, delete, store; setup and decrypt are
  loops of inserts; get-key is a loop of reads;
- any of those calls may throw, and what was stored before stays stored;
- the key is a hash over an ordered list whose order is made in three places;
- answers are not verified when they come in, and one that comes in is final
  once every responder that raced the one who stored it is done;
- a poll reads in two steps and returns any pending challenge of the member;
- the disk client overwrites its only copy of a file in place and keeps the ids
  in memory;
- a YubiKey goes on working when the program that asked it has timed out, been
  aborted or been closed, and may be unplugged at any moment;
- a message box runs the timer in the middle of a button's handler;
- sequence numbers are bytes and tick counts are 32 bits;
- a command of the extension is a sequence of calls to three stores (issues,
  repositories, files of the clone) without a transaction; it may end between
  any two, its push may arrive without its answer, and others push meanwhile;
- its threads may each fail, be denied and prompt, and only those that succeed
  give back the slot they hold;
- a patch is moved over changes made since by arithmetic on line numbers.

What makes each component correct:

- server: a key leaves only with every member's right answer; it is the right
  key if the answers were right; a client is never told of something that is
  only half stored; what it has been told never changes, an answer only while
  responders race; no member's turn gets lost while nothing fails; a request that is answered is served;
- disk client: the text of a file survives, and the id needed to decrypt it is
  at hand;
- library: what a wait reports is what the key did with the command the caller
  sent, waits end and end in time;
- member's client: what is posted is the answer to the challenge it is posted
  for; a run ends;
- dialog: what is shown as pending is under way and ends;
- code review: what is in the central repository has its author's name and was
  mailed for review; nothing committed stays behind; no CL is lost before it is
  published; issues are announced and closed only for what is published, and
  CLs go everywhere in the end; threads end; hunks are put where their lines are.

`PROJECT.json` lists under `hazards` the lines at which this can go wrong and
the properties that watch them.

## 2. The modules

| module | what it is |
|---|---|
| `QuorumServer` | the server's handlers over MySQL and redis |
| `QuorumAccess` | abstract specification: a key is granted when the whole quorum has consented |
| `QuorumServerInv` | the inductive invariant of the server |
| `QuorumServerProofs` | theorems about `QuorumServer` |
| `QuorumSystem` | the server composed with the members' polling and the disk client's asking |
| `QuorumSystemProofs` | theorems about requests, the refinement of `QuorumAccess` and the composition |
| `HardDrive`, `HardDriveProofs` | the disk client with its inductive invariant; its theorems |
| `YkLib` | the YubiKey library over an external key |
| `YkLibProofs` | theorems about `YkLib` |
| `UserClient` | the member's client and YkLibTest, over `YkLib` |
| `AsyncSample` | the sample dialog, over `YkLib` |
| `KeyUsers`, `KeyUsersProofs` | composes the two over one YubiKey; inductive invariant and theorems |
| `CodeReview` | the commands of the code review extension |
| `ReviewLife` | abstract specification: what they promise of history and issues |
| `CodeReviewProofs` | inductive invariant of `CodeReview` and theorems about it |
| `ReviewCalls`, `ReviewCallsProofs` | the extension's threads and their requests; inductive invariant and theorems |
| `PatchPort`, `PatchPortProofs` | moving a patch to another revision; its inductive invariant and theorems |
| `MC*` | instances for TLC |

In every module a definition whose name ends in an underscore and a word (such
as `Delete_Forgotten`) is a faulty variant of the one it precedes. Nothing uses
it: it is what a property is tried on, to see that the property would notice.

### QuorumServer

A worker is a host thread that runs one HTTP request at a time; `job[w]` holds
the local variables it has between two accesses to a store. Each access is an
action, so handlers interleave wherever the code lets them:

| handler | actions | code |
|---|---|---|
| POST /api/users | `CreateUser` | `YubiCryptService.cs`, `UserBL`, `MysqlDataStore.CreateUser` |
| POST /api/setup | `Setup`, `InsertRow`*, `SetupReply` | `EncryptionBL.Setup`, `CreateNewEncryptions` |
| POST /api/decrypt/{id} | `DecryptBegin`, `CreateChallenge`*, `StoreRequest` | `EncryptionBL.Decrypt` |
| POST /api/challenge/{id} | `RespondBegin`, `DeleteChallenge`, `StoreResponse` | `ChallengeBL.RespondToChallenge` |
| GET /api/decrypt/{id} | `GetKeyBegin`, `CollectResponse`*, `ReleaseKey` or `UnlockRefused` | `EncryptionBL.GetDecryptionKey` |

`RequestFails` ends a handler between any two accesses and leaves the stores as
they are: an exception, a lost store connection or a crash of the server, whose
state is all in the stores. Users are numbered by the table's auto-increment.
The history variables `quorum`, `issued` and `answered` record what was asked
for, stored and answered and are read by properties only.

Cryptography is symbolic: an HMAC is the pair of challenge and secret, a key the
row it was drawn for, the hash of joined keys their sequence. Decryption with a
wrong answer gives `Garbage`, or is refused because of its padding. That
abstracts collisions away, that of the ten hex digits `GenerateChallenge` keeps
of its hash included.

### QuorumSystem

Adds the poll of `GetChallengeForUserId` in its two reads (the ids, then the
entities, some of which may be gone), the member's client with a YubiKey that
may fail, and the disk client's three requests. `IdsLeft` is a bound: a request
begins only when identifiers are left for all its challenges; a setup names the first
users, at most `MaxNames`.

### HardDrive

One program at a console. A step runs from one wait (key press, server, disk)
to the next; opening the `StreamWriter` truncates the file and disposing it
writes, so `EncryptFile`/`WriteEncrypted` and `ReceiveKey`/`WriteDecrypted` are
separate and `Ends` can come between them. A content is a body under a stack of
keys. `harmed` and `forgotten` are history: files that were cut short by an end
of the program, encrypted while encrypted or given a wrong key, and encryptions
of programs that have ended.

### YkLib, UserClient, AsyncSample

In `YkLib` a call that exchanges one feature report is one action; a wait and an
abort, during which the key goes on, are one action per report. The key is
external and modelled from what the library expects: it takes or refuses a
write, answers a question at once, after a touch, or never, repeats slices of a
response, drops its command when unplugged or aborted, and ignores a frame while
it is busy. Arguments the library refuses by their length are left out.
`AnyCall` is any use of the class, `OrderlyCall` that of a caller with at most
one command under way, who may enumerate with a key open as the dialog does.
`begun` is history: the command the caller is waiting for.

`UserClient` restarts the member's program again and again over one key. Each
run starts YkLibTest with a fresh `CYkLib` and an arbitrary `m_seq` (the
constructor does not set it). `Quit` ends Main at any step: nothing in `YubiKey.cs`
ends the process it has started, so a YkLibTest at work goes on alone
(`prog.alone`) to its own end, with nobody to post what it finds; `Killed` ends that
process at any step. The next program begins when both are gone. Of the server
there is what this member sees: `Issue` adds a challenge as `Decrypt` stores it,
`Withdraw` takes one away that another client of the member has answered.
`AsyncSample` runs the handlers of one message loop; a handler with
several reports holds the loop, a message box does not.

### KeyUsers

Runs the member's client and the dialog on one computer, one after the other and
again and again. `OpenDialog` and `CloseDialog` give the next program a fresh
`CYkLib` and leave the key as the last program left it: at work, waiting for a
touch, or showing a response nobody has fetched. The actions and properties are
those of the two modules.

### CodeReview

| state | in the code |
|---|---|
| `issue` | Rietveld's issues: owner, closed, the messages ("Submitted as", "Abandoned", the mail), the last patch set, the description |
| `remote`, `tip`, `known`, `stray` | the central repository; of a clone, the working directory's parent, how much it has pulled, and whether a head of its own has been left |
| `mod` | modified files, as `hg status` lists them |
| `cls` | the files `cl.N` of a clone (`CL.DiskText`, `LoadCL`) |
| `job` | the command that runs: the call it makes next and the `CL` object it holds |

A command begins with what it reads and refuses (`ChangeNew`, `ChangeEdit`,
`ChangeDelete`, `File`, `FileDelete`, `UploadCmd`, `MailCmd`, `SubmitCmd`,
`SyncCmd`, `Clpatch`, `Undo`) and goes on one call at a time:

| part of the code | actions |
|---|---|
| `CL.Upload`, and `MySend`'s second try | `CreateIssue`, `CreateUnheard`, `UploadPatch` |
| `CL.Mail`, `PostMessage`, `EditDesc` | `PostMail`, `PostAbandoned`, `PostSubmitted`, `CloseIssue` |
| `CL.Flush`, `CL.Delete` | `FlushCL`, `FlushDirty`, `DeleteCL` |
| `submit`: `repo.commit`, `repo.push`, `real_rollback` | `Commit`, `Push`, `PushFails` |
| `sync`, `sync_changes` | `Pull`, `Update`, `Scan`, `Prune` |

So submit is: patch, save, (mail, save,) commit, push, announce, close, delete.
`Stop` ends a command at any call, `Kill` the process between commit and push,
where nothing rolls back; a push that fails may have published or not. `FlushCL`
includes the edit form that `CL.Flush` posts of one's own CL, by which a closed issue
may open again. A default `hg update` of a clone with a head of its own may stay
where it is. `Refused`
is what code or server refuse. One clone stands for one developer, who runs one
command at a time. Of a patch the model keeps its files, of a description the
issues quoted in it; a revision is the sequence of changes that ends with it.
`killed` is history.

`ReviewLife` knows a history, which issues were announced with which revision,
which abandoned and which closed (and that a closed one may open again).
`CodeReview` implements it by reading these off
`remote` and `issue`.

### ReviewCalls

The main thread is in `LoadAllCL` (start a thread and join it, start the rest,
join them) or in `UploadBaseFiles` with its semaphore (`Acquire`, `Reap`,
`StartUpload`). A thread makes one request: `Call` decides whether to authenticate
first, then the request is `Answered`, `Denied` or `Failed`; `Authenticate` is the
prompt; what ends with HTTP 500, in the request or while authenticating, `MySend`
repeats once (`Retried`); `Report`, `Release` and `LoadEnds` are the end of `run()`. `Expire` lets the
server forget the session at any time. A thread that an exception ends is
"dead"; `sys.exit` in a thread is such an end.

### PatchPort

`portPatch` and `lineDelta`, one comparison of a hunk with a change per step
(`Break`, `Conflict`, `Pass`). The input is what `hg diff` and a patch can be:
changes in order with equal gaps between them, hunks of old and of new files.
`d`, `deltas` and `i` are the code's locals, and `deltas` is left over from the file
before where the code leaves it so. `Belongs` is the reference: the place that is
as far from the changes above and below as it was.

## 3. What TLC checks

| run | module, instance | result |
|---|---|---|
| `server` | two members, two encryptions, two requests, three challenges, two workers, failures | nine properties hold, 1,490,932 states |
| `server_registration` | empty users table, a good and a too short secret, shared names, registration while the server runs | `HonestKeyCorrect`, `NamedUsersEnrolled` hold, 29,221 states |
| `quorum_system` | two members, two requests, two challenges, two workers | `NoAnswerLost`, `RequestIsServed` hold, 95,426 states |
| `disk_client` | a text and a binary file, three encryptions, one wrong key | three invariants hold, 2,951 states |
| `disk_client_binary` | the same | `CanBeDecrypted` is violated |
| `yklib` | one key, two challenges, orderly caller | six properties hold, 100,974 states |
| `key_users` | a new and an old key, three challenges, client and dialog | four properties hold, 479,616 states |
| `code_review` | two developers, one file, two issues, four commands, one cut short | six properties hold, 2,328,427 states |
| `code_review_closes` | two developers, one issue, three commands and any number of syncs, one cut short | `SubmittedCLsClose` holds, 256,260 states |
| `parallel_calls` | three threads, two slots | five properties hold, 565,467 states |
| `patch_port` | two hunks, up to two changes of one file and one of another | two invariants hold, 1,027,136 states |
| `patch_port_conflict` | the same | `RewrittenRefused` is violated |

The server's properties:

- `ReleasedWithConsent`: a released key needed the right answer of every member,
  to that request.
- `HonestKeyCorrect`: right answers give the right key and nothing else.
- `RequestCoversQuorum`: a stored request asks every row once, in row order, and
  shares no challenge with another.
- `SetupComplete`, `ToldIsFinal`: a told EncryptionId has all its rows, and
  no user, row, request or issued challenge that was stored for others changes.
- `SettledIsFinal`: a stored response stays, and stays one for its row; its answer
  changes only while a responder that found the challenge pending, too, is
  still on its way to store (`ChallengeBL.cs:42-47`). After that it is `Settled` for
  ever, a wrong one as well.
- `AnsweredNotPending`: an answered challenge is not handed out again.
- `NamedUsersEnrolled`: the quorum is as many different users as were named, each
  called by one of the names; and there is one for every name, unless users
  share one of them. Names are not unique in `db.sql`, and `server_registration`
  has users that share them.
- `GrantsOnlyByQuorum`: the handlers implement `QuorumAccess`. The mapping: an
  encryption's members are its `ShaKeys`, a request is asked when it is stored,
  consented to when a right answer is stored, granted when its key leaves.
- `NoAnswerLost`: a challenge of a stored request is pending, answered or in
  the hands of a responder about to store.
- `RequestIsServed`: a stored request is given its key.

Disk client: `TextKept` and `IdAtHand`, for files that were not harmed and, for
the id, programs that have not ended. Library: `ReplyIsAnswer`, `WriteConfirmed`,
`WriteErrorIsTrue` (a reported result is what the key did; a kill that a key without
a configuration refused is reported as completed, `YkLib.cpp:733-736`), `WaitBounded`,
`CallsReturn`. Dialog, after any use of the key by the client:
`PendingIsUnderWay`, `PendingEnds`. Member's client, after any use by the dialog:
`PostedIsAnswer`, `RunEnds`.

Code review:

- `AuthorKept`: whoever submits a change, it is recorded under its author's name.
- `OwnWasMailed`: what developers submit of their own has been mailed, also if an
  earlier command ended between the message and the file that remembers it.
- `RolledBack`: no commit stays behind a failed push.
- `LeavesForReason`: a CL leaves a clone when its developer deletes it or when a
  change made from it is published.
- `KeepsPromises`: the refinement of `ReviewLife`.
- `SubmittedCLsClose`: an announced CL goes from every clone that has it.
- `SlotsAccounted`, `NothingLeftRunning`, `OnePrompt`, `Returns`: slots are free, in
  use or lost with a dead thread; a call that returns has run every task; loading
  does not prompt in parallel; and the main thread returns, unless as many
  uploads have died as there are slots.
- `UntouchedPlaced`, `OnlyLongerMissed`: a hunk whose lines were not touched is put
  where they are; a change that touches a hunk is missed only if it is longer.

### What the violations show

- A file that is not UTF-8 is damaged when it is encrypted; the trial
  decryption, said to check this, compares nothing (`disk_client_binary`).
- `lineDelta` compares with the length of the hunk where that of the change is
  meant: a hunk inside a longer change is moved as if its lines were still
  there, though it is said to be refused (`patch_port_conflict`).
  `OnlyLongerMissed` says how far this goes.

`PROJECT.json` has them with their lines under `findings`. Other things met while
modelling, which no run is about:

- A wrong answer is stored for good; the request can never be served and the
  disk client goes on saying that the quorum has not responded
  (`EncryptionBL.cs:92`, `MFAYubiCryptHarddrive/Program.cs:115`).
- `writeConfigBegin` moves the expected sequence number when it is refused
  (`YkLib.cpp:537`), so that a write under way would be reported as failed; an
  orderly caller does not do this.
- A wait begun shortly before `GetTickCount` wraps does not end in time
  (`YkLib.cpp:714`); the ticks of the runs and `NoWrap` of the theorem leave that
  out.
- `enumPorts` uses the handle of an open key as its scratch handle and loses it
  (`YkLib.cpp:251`). The dialog calls it so once per request
  (`AsyncSampleDlg.cpp:258`): `openKey`, which is to "Make sure previous is closed
  first" (`YkLib.cpp:369`), then closes nothing. In the models the case occurs; it
  does no harm to the other properties.
- After as many failed uploads as there are slots (`codereview.py:3052`) the
  command waits in `acquire` for ever: the exception `Returns` makes.
- An issue whose creation is tried twice (`codereview.py:2129`) leaves an open
  issue that belongs to no CL.

### Bounds

Two members make a quorum in which one can be missing, two workers make every
pair of handlers interleave, two requests make answers of one available to the
other. Three challenges serve one request for two members and one for one
member, or one finished and one unfinished request. `RowIds` and the users table
are bounded by `MaxNames` and `MaxUsers`. The library's sequence numbers take
three values, so that they wrap, and a kill's zero is met by a wrapped one; a
response has two slices, so that one can be missing or repeated; it is given up
after three or four reads; the read counter has six values; a tick counter of
eight values with waits of at most two and gaps of at most two cannot confuse
two waits. Three encryptions let a file be encrypted, decrypted and encrypted
again with a stale pair in front and one behind. Identifiers, workers and
encryptions are interchangeable, hence the symmetry sets; the runs with liveness
properties use none.

In `key_users` the library's counters are smaller still (one sequence number,
ticks of two): what is in question there is what passes from one program to the
other.

In `code_review`, four commands of two developers are enough for a CL that is
created, mailed, taken elsewhere by clpatch and submitted there, for a submit, a
sync, an undo and its submit, and for two submits that race; `MaxFails` cuts one
command short at any step. Two revisions (`MaxRevs`) let one push overtake
another. With one file all CLs are about that file; CLs with several and with
different files are not a case of these runs but are of the theorems. `Uses` and
`Counted` say which developer uses which commands and which of them `MaxCommands`
limits: in `code_review` all, in `code_review_closes` mail, submit, clpatch, but
not sync, which must go on for ever.

`parallel_calls` has one task more than slots, so that the main thread has to
wait for one, and gives up after one denial and two passwords where the code has
three of each. `patch_port` has hunks at lines up to 8 and changes and hunks of
length up to 4: every order of a hunk's ends and a change's ends, each with and
without a gap, with one more change before or behind; the second hunk is of the
same file, another, or a new one.

Deadlock is checked except in the server's runs, where all identifiers may be
used up, and in `parallel_calls` and `patch_port`, whose programs end.

### Fairness

- `QuorumSystem`: weak fairness of a handler that runs (the host does not stop a
  thread). Strong fairness of posting an answer and of polling for the key: the
  host serves each caller sooner or later though other requests take the
  workers. Weak fairness of a member's polling and strong fairness of a
  YubiKey's success: the user runs the program again and again. Nothing is
  assumed of the order in which redis lists ids.
- `YkLib`: weak fairness of the library's own steps only.
- `KeyUsers`, for both programs: a timer fires, a handler or program that runs goes
  on, one that goes on alone included, and a key that works on a challenge gets on with it (it waits 15 seconds for
  a touch). `Quit`, `Killed`, closing the dialog, plugging and unplugging are never forced.
- `CodeReview` (`SpecFair`): strong fairness of `hg sync`, which developers run again
  and again, as submit demands it; weak fairness of the steps of a command, which
  are calls that return or fail.
- `ReviewCalls`: weak fairness of the main thread and of every other. That includes
  that a request is answered or fails and that the user answers a prompt, rightly
  or not. Nothing is assumed of the session.

## 4. What is proved

All theorems hold for every value of the constants. The assumptions are the
modules' `ASSUME`s, which TLC evaluates in the runs: good secrets are secrets,
the initial users table is a sequence of users, the bounds are numbers, the
symbolic values for noise are distinct from real ones.

### QuorumServerProofs

`Invariance` proves `Spec => []IInv`. `TypeOK` and the safety properties are not
inductive alone, because handlers carry copies of what they read: `IInv`
(`QuorumServerInv`) relates the locals of each job to the stores. The rows a setup
is inserting are those already stored plus the rest; the challenges a decrypt
has issued are those recorded for rows in order; what a responder holds was issued;
what a poll has collected was answered. Identifiers in use are in `drawn` and
belong to one job, which keeps concurrent handlers apart. From it follow
`TypeCorrect`, `SetupIsComplete`, `ToldStays` (the action property `ToldIsFinal`),
`KeyNeedsEveryone` (`ReleasedWithConsent`) and `RightAnswersGiveTheKey`
(`HonestKeyCorrect`). Per action there is one lemma, per conjunct it can disturb
one step.

### QuorumSystemProofs

First of the server alone, on top of `Invariance`. `AccessInv` (`QuorumServerInv`) says
what `IInv` leaves open about challenges: one that a row asks for is asked by
no other, be the request stored or still being made (`AskedOnce`), and an answer
is stored, or in the hands of a handler about to store it, only when its challenge
is gone (`StoredGone`). From it follow `RequestsCoverQuorum` and
`AnsweredIsNotPending`, and `SettledAnswersStay` (`SettledIsFinal`): a responder that
begins finds the challenge pending, so none begins once an answer is stored, and
the step that stores one leaves the challenge deleted.

`NamedAreEnrolled` (`NamedUsersEnrolled`) needs no assumption on names. The server
compares how many users it found with how many names it was given; `NamesRight`
carries that comparison from `Setup` to `SetupReply` while users go on registering,
and a count of users and names gives each name its user where none is shared.

`ServerImplementsAccess` is the refinement of `QuorumAccess`, for a server whose handlers
interleave and fail anywhere: `SetupReply` sets up, `StoreRequest` asks (with the
consents that came before it), `StoreResponse` of a right answer consents,
`ReleaseKey` grants, every other step stutters. That a grant was allowed
needs `IInv`, since the answers a poll has collected are locals; that an answer is
a consent to one request of one member needs `AskedOnce`.

Then of the composition: `SystemImplementsServer` (`SpecSystem => Spec`), by which all
theorems above hold in `QuorumSystem`, and `NoAnswerIsLost`. `NothingLost` strengthens
`NoAnswerLost` from the challenges of stored requests to all that were issued, because
a `Decrypt` issues them before it stores its request.

### HardDriveProofs

`Invariance`, `TypeCorrect`, `TextIsKept`, `IdIsAtHand`. `TextKept` needs
`OneLayer`: a file that was not harmed has at most one layer, and the key of that
layer is where `LastIdOf` will look, or lost with every id of the file. Without it
a decryption could use a stale pair. `LocalsRight` says the same of the file in
hand while it is truncated.

### YkLibProofs

For any caller, also one that begins a command while another is under way:
`Invariance`, `TypeCorrect` and `RepliesAreAnswers`. `ReplyIsAnswer` speaks of the step
in which a wait returns, when the key is idle again and shows nothing of the
command; `CommandRight` carries it there, from the key to the local `call.of` and
only as long as the caller has not given the command up.

For an orderly caller (`SpecOrderly`): `OrderlyInvariance`, `WriteErrorsAreTrue`,
`WritesAreConfirmed`, of configurations and kills. `WriteRight` is the strengthening: while a
write is under way `m_seq` is the number the key will count to if it takes it, so
that the number the key shows when it is idle tells the two outcomes apart.
`WritesAreConfirmed` needs sequence numbers of more than one value (`SeqMod > 1`;
the code's have 256).

`WaitsAreBounded` assumes `NoWrap`, that the tick counter does not wrap during a
wait; without it the statement is false. `ClockRight`, that the tick counter
and the ticks waited advance together, carries it.

### KeyUsersProofs

`UsersInvariance`, and from it `PostsAreAnswers`, `PendingStaysUnderWay` and
`UsersTypeCorrect`. Each program only makes calls of the library, begins or ends, so
`YkLib`'s `IInv` holds throughout. `UsersInv` adds what a program knows at each of its
steps: the call it is in (`CallFits`), that the command under way is the one it
sent (`ClientWaits`, `DialogWaits`), and that what it found is the answer to what it
asked for (`Found`). `PollFacts` carries the answer over: a wait that returns OK returns
the answer to `begun`, and one that is to be taken up again (`PROCESSING`, `TIMER_WAIT`)
leaves `begun` alone. The dialog is an `INSTANCE`, with definitions of its own of
the library it uses; the lemmas `Same*` identify the two. Assumed of the constants:
the challenges sent are challenges, 0 (the dialog's) and `ChalWait` are among the
waits, and no challenge of the server has the id that stands for the test.

### CodeReviewProofs

`Invariance` proves `Spec => []IInv` for any developers, files and issues; from it
follow `TypeCorrect`, `AuthorIsKept`, `OwnIsMailed`, `CommitsAreRolledBack`,
`CLsLeaveForReason` and `PromisesAreKept`. The properties are not inductive alone,
because a command carries a copy of a CL between the server, the disk and the
repository. `CLRight` says of such a copy that it names the owner of its issue
as the author and is marked as mailed only if the issue has been; `HeldRight` says
it of what a command holds at each label. `DoneRight` says what a command has done
by the time it is where it is: what is about to be closed or deleted was
published, announced or abandoned. `HistoryRight` and `IssuesRight` are the same
facts about what has been published. `NotAhead`: a clone whose process was not
killed is ahead of the central history only by the commit it is about to push.
Issues and the central history only grow, so lemmas on growth carry most of it
over a step.

`PromisesAreKept` is the refinement: every step is a `Publish`, `Announce`, `Abandon`,
`Close` or `Reopen` of `ReviewLife`, or a stutter.

### PatchPortProofs

`Invariance`, `UntouchedArePlaced` and `OnlyLongerAreMissed`, for patches and diffs of
any number and size of hunks and changes. `LoopRight` is the loop invariant of
`lineDelta`: of the changes passed the last gives `d`, none of them conflicts by the
code's measure, and where the loop breaks off the next change begins behind the
hunk. The lemma `DeltaPlaces` makes `Belongs` of it, by the equal gaps of a diff,
and `MissedAreLonger` the second property.

### ReviewCallsProofs

`CallsInvariance` for any number of tasks, slots, denials and prompts; from it
`CallsTypeCorrect`, `SlotsAddUp`, `ReturnsWithAll` and `PromptsOneAtATime`. `CInv` says of each
task where its thread is by the main thread's lists: it has been started when it
is out of `todo`, it may still run only while it is in `active` or being joined, its
result is stored when it gives its slot back. `SlotsAccounted` needs the first of these
to be inductive: a thread that starts must not be counted already. `FirstRight` is
what joining the first thread is for: until it has ended no other runs, and when it
has loaded its CL the server has the cookie, so that none of the others prompts
unless the session is forgotten.
`Thread(t)` has many steps but one shape (`Advances`): it changes one thread's
counters and adds at most that thread to a list; the invariant is shown once for
that shape. Cardinalities come from `FiniteSetTheorems`.

### Only model-checked

Liveness (`RequestIsServed`, `CallsReturn`, `PendingEnds`, `RunEnds`,
`SubmittedCLsClose`, `Returns`) is out of the proof system's reach. Every invariant,
action property and refinement of the passing runs is a theorem. The recursion of
the code over lists is in the models one action per element, so that nothing
rests on induction over data.

## 5. Not modelled

- The states of the one `MySqlConnection` all handlers share (`Bootstrapper.cs:27-28`):
  a second reader on it throws, and the check in `NewCommand` races with the open.
  Only the effect on a handler, that it fails at an access, is in `QuorumServer`.
- The host, routing and dependency injection; AES, HMAC and SHA256 themselves.
- The registration branch of the member's client, which sends a secret of 20
  characters where `HMACSHA1` wants 40; `server_registration` covers what the
  server does with such a user.
- Two programs that talk to the same YubiKey at the same time, be one a YkLibTest
  whose Main has ended; `KeyUsers` runs them one after the other.
- Of the code review extension: texts of descriptions and reviewers; later
  changes of a description; branches and release-apply (whose `hg.clean`, lines
  1248-1255, discards work); gofmt; `--no_incoming` and `--ignore_hgpatch_failure`;
  hgpatch itself; commands that change nothing; the status thread; two shells in
  one clone; the remove before the rename on Windows (lines 288-290); the second
  flush at the end of undo; the parsers of JSON, forms and multipart bodies. In
  `PatchPort`, changes that create or empty a file.
- servertest, EncryptionTests, the paper and the other vendored packages:
  scripts, a round trip, a text and third-party code.

## 6. Plan

Done: server core with its proofs, the composed system, the disk client with its
proofs, the library with its proofs, member's client and dialog over one key, the
commands of the code review extension with their abstract specification and
proofs, its threads, the porting of patches with its proofs. To do, in this order:

1. `SharedConnection`: the MySQL connection's states (closed, open, being opened,
   with a reader) under concurrent handlers; which exceptions a handler can meet
   and whether a reader that throws leaves the connection usable; composed with
   the accesses of `QuorumServer` by a refinement that maps a failing access to
   `RequestFails`.
2. Registration end to end: the reply `CreateUser` reads back by name, and the
   client's secret.
3. Two callers of one YubiKey with their reports interleaved.
4. Branches and release-apply in `CodeReview`.
5. Proofs: of the composition of `KeyUsers` with `QuorumSystem`, that the answer a member
   posts is the one the server's `RightAnswer` expects.
6. servertest's scenario as a run of `QuorumServer`.
