--------------------------- MODULE DocumentStore ---------------------------
(***************************************************************************)
(* Document uploads: rows in SQLite and files below Data/Projects          *)
(* (features/documents.py, features/business_attachments.py and the        *)
(* publication in features/files.py), with a backup that copies both.      *)
(*                                                                         *)
(* An upload is staged in Data/Temp, published as a hard link while        *)
(* SQLite's write lock is held, and recorded by the commit.  The file      *)
(* system knows nothing of the transaction: what a failed or a dead        *)
(* request published stays until somebody removes it.                      *)
(***************************************************************************)
EXTENDS Integers, Sequences, FiniteSets

CONSTANTS
  Requests,      \* requests, each sent once; a retry is another request
  Kinds,         \* the requests of this instance, out of AllKinds
  Keys,          \* Idempotency-Key values
  Contents,      \* what may be uploaded
  Titles,        \* document titles
  MaxDocs,       \* bound: documents
  MaxVersions,   \* bound: versions of one document
  MaxEarly,      \* bound: publications that fail
  MaxLate,       \* bound: transactions that fail with files published
  MaxCrashes,    \* bound: deaths of the program
  Backups        \* whether a backup is taken

ASSUME BoundsAssumption ==
  /\ {MaxDocs, MaxEarly, MaxLate, MaxCrashes} \subseteq Nat
  /\ MaxVersions \in Nat \ {0}
  /\ Backups \in BOOLEAN

\* "create": POST documents; "batch": a business form with two attachments;
\* "version": POST versions; "update": PUT document; "archive": POST archive.
AllKinds == {"create", "batch", "version", "update", "archive"}
ASSUME KindsAssumption == Kinds \subseteq AllKinds

Nobody == "nobody"
ASSUME RequestsAssumption == Nobody \notin Requests

VARIABLES
  docs,      \* tables documents and document_versions
  replies,   \* table idempotency_requests
  tree,      \* Data/Projects: the staged upload each path is a link to
  temp,      \* Data/Temp: the staged uploads
  lock,      \* the request that holds SQLite's write lock
  up,        \* the program runs
  req,       \* what each request asks for
  st,        \* where each request is
  pending,   \* tables as the open transaction sees them
  published, \* the paths each request has published and not taken back
  answer,    \* what each request was told
  backup,    \* the backup in progress and what it has copied
  faults     \* history: how often each kind of mishap occurred

tables == <<docs, replies>>
store == <<tree, temp>>
requests == <<req, st, pending, published, answer>>
vars == <<tables, store, lock, up, requests, backup, faults>>

NoFile == <<>>
NewKinds == {"create", "batch"}
DocIds == 1..MaxDocs
VersionIds == 1..MaxVersions
Paths == [doc : DocIds, ver : VersionIds, title : Titles \X (1..2)]
Uploads == Requests \X (1..2)        \* the staged files, by inode
Row == [path : Paths, content : Contents]

NoAnswer == [status |-> "none", doc |-> 0, ver |-> 0]
NoReply == [payload |-> <<>>, answer |-> NoAnswer]
NoBackup == [state |-> "idle", docs |-> <<>>, todo |-> {}, copied |-> {}]

Content(u) == req[u[1]].content

\* _document_scope: method and path, hence the operation and the document.
Scope(r) == <<req[r].kind, req[r].doc>>
Keyed(r) == req[r].kind # "update"
StorageKey(r) == <<Scope(r), req[r].key>>
StorageKeys == ((NewKinds \X {0}) \cup ({"version", "archive"} \X DocIds)) \X Keys

\* _request_hash: all that was asked, but for the key.
Payload(r) == <<req[r].kind, req[r].title, req[r].content, req[r].rev>>

FileCount(kind) == CASE kind = "batch" -> 2
                     [] kind \in {"create", "version"} -> 1
                     [] OTHER -> 0
Files(r) == FileCount(req[r].kind)

Init ==
  /\ docs = <<>>
  /\ replies = [k \in StorageKeys |-> NoReply]
  /\ tree = [p \in Paths |-> NoFile] /\ temp = {}
  /\ lock = Nobody /\ up = TRUE
  /\ req = [r \in Requests |-> <<>>]
  /\ st = [r \in Requests |-> "new"]
  /\ pending = <<>>
  /\ published = [r \in Requests |-> <<>>]
  /\ answer = [r \in Requests |-> NoAnswer]
  /\ backup = NoBackup
  /\ faults = [early |-> 0, late |-> 0, crash |-> 0]

-----------------------------------------------------------------------------
(* A request: staging, transaction, cleaning up.                           *)

\* What a client may ask; the revision is the one it has just read.
Asked ==
  LET new == [kind : Kinds \cap NewKinds, key : Keys, content : Contents,
              title : Titles, doc : {0}, rev : {0}]
      old(d) == [kind : Kinds \ NewKinds, key : Keys, content : Contents,
                 title : Titles, doc : {d}, rev : {docs[d].rev}]
  IN new \cup UNION {old(d) : d \in DOMAIN docs}

\* stage_version, stage_stream: before the transaction, outside the lock.
Stage(r) ==
  /\ up /\ st[r] = "new"
  /\ \E q \in Asked :
       /\ req' = [req EXCEPT ![r] = q]
       /\ temp' = temp \cup {<<r, i>> : i \in 1..FileCount(q.kind)}
  /\ st' = [st EXCEPT ![r] = "staged"]
  /\ UNCHANGED <<tables, tree, lock, up, pending, published, answer, backup, faults>>

\* A client that got no answer asks the same again, with the same key.
Retry(r) ==
  /\ up /\ st[r] = "new"
  /\ \E q \in Requests :
       /\ st[q] # "new"
       /\ Keyed(q)
       /\ req' = [req EXCEPT ![r] = req[q]]
       /\ temp' = temp \cup {<<r, i>> : i \in 1..Files(q)}
  /\ st' = [st EXCEPT ![r] = "staged"]
  /\ UNCHANGED <<tables, tree, lock, up, pending, published, answer, backup, faults>>

\* Mutation: the stored answers are not consulted.
KnownNever(r) == FALSE

Known(r) == st[r] = "staged" /\ Keyed(r) /\ replies[StorageKey(r)] # NoReply
TitleTaken(t) == \E d \in DOMAIN docs : docs[d].title = t

\* A transaction that reads, changes nothing and releases the lock.
Answered(r, a) ==
  /\ up /\ st[r] = "staged" /\ lock = Nobody
  /\ answer' = [answer EXCEPT ![r] = a]
  /\ st' = [st EXCEPT ![r] = "closing"]
  /\ UNCHANGED <<tables, store, lock, up, req, pending, published, backup, faults>>

\* restore_idempotent_response: the first answer again, or a conflict.
Replay(r) ==
  /\ Known(r)
  /\ Answered(r, IF replies[StorageKey(r)].payload = Payload(r)
                 THEN replies[StorageKey(r)].answer
                 ELSE [NoAnswer EXCEPT !.status = "key_reused"])

Title(r, i) == <<req[r].title, i>>

\* Mutation: the revision the client saw is not compared.
AcceptableAnyRevision(r) ==
  IF req[r].kind \in NewKinds
  THEN \A i \in 1..Files(r) : ~TitleTaken(Title(r, i))
  ELSE ~docs[req[r].doc].archived

\* _require_editable_document and _require_revision; a title already taken.
Acceptable(r) ==
  CASE req[r].kind \in NewKinds ->
         \A i \in 1..Files(r) : ~TitleTaken(Title(r, i))
    [] OTHER ->
         /\ ~docs[req[r].doc].archived
         /\ docs[req[r].doc].rev = req[r].rev
         /\ req[r].kind = "update" =>
              \A d \in DOMAIN docs \ {req[r].doc} : docs[d].title # Title(r, 1)

Refuse(r) ==
  /\ st[r] = "staged"
  /\ ~Known(r) /\ ~Acceptable(r)
  /\ Answered(r, [NoAnswer EXCEPT !.status = "conflict"])

\* BEGIN IMMEDIATE, and the checks that precede the first file.
Begin(r) ==
  /\ up /\ st[r] = "staged" /\ lock = Nobody
  /\ ~Known(r) /\ Acceptable(r)
  /\ Len(docs) + (IF req[r].kind \in NewKinds THEN Files(r) ELSE 0) <= MaxDocs
  /\ req[r].kind = "version" => Len(docs[req[r].doc].rows) < MaxVersions
  /\ lock' = r
  /\ pending' = docs
  /\ st' = [st EXCEPT ![r] = "open"]
  /\ UNCHANGED <<tables, store, up, req, published, answer, backup, faults>>

\* The document, version and path of the request's next file.
NextPath(r) ==
  IF req[r].kind = "version"
  THEN [doc |-> req[r].doc, ver |-> Len(pending[req[r].doc].rows) + 1,
        title |-> pending[req[r].doc].title]
  ELSE [doc |-> Len(pending) + 1, ver |-> 1, title |-> Title(r, Len(published[r]) + 1)]

\* The rows of the request's file, published at path p.
WithFile(r, p) ==
  LET row == [path |-> p, content |-> req[r].content] IN
  IF req[r].kind = "version"
  THEN [pending EXCEPT ![p.doc].rows = Append(@, row), ![p.doc].rev = @ + 1]
  ELSE Append(pending, [title |-> p.title, rev |-> 1, archived |-> FALSE, rows |-> <<row>>])

Referenced(tab, d) ==
  IF d \in DOMAIN tab THEN {tab[d].rows[v].path : v \in DOMAIN tab[d].rows} ELSE {}

\* Mutation: like for a new document, no path counts as referenced.
ReconciledAll(d) == [p \in Paths |-> IF p.doc = d THEN NoFile ELSE tree[p]]

\* reconcile_document_versions: what no row refers to leaves the directory.
Reconciled(d) ==
  [p \in Paths |-> IF p.doc = d /\ p \notin Referenced(pending, d) THEN NoFile ELSE tree[p]]

\* publish_staged_version: the link must be new; then the staged name goes.
Publish(r) ==
  /\ up /\ lock = r /\ st[r] = "open" /\ Len(published[r]) < Files(r)
  /\ LET p == NextPath(r)
         u == <<r, Len(published[r]) + 1>>
     IN /\ Reconciled(p.doc)[p] = NoFile
        /\ tree' = [Reconciled(p.doc) EXCEPT ![p] = u]
        /\ temp' = temp \ {u}
        /\ pending' = WithFile(r, p)
  /\ published' = [published EXCEPT ![r] = Append(@, NextPath(r))]
  /\ UNCHANGED <<tables, lock, up, req, st, answer, backup, faults>>

\* Mutation: what was published before the failure is not taken back.
RollBackOnly(r) ==
  /\ lock' = Nobody
  /\ answer' = [answer EXCEPT ![r] = [NoAnswer EXCEPT !.status = "failed"]]
  /\ st' = [st EXCEPT ![r] = "closing"]
  /\ pending' = <<>>

\* Rolling back releases the lock; only then are published files removed.
RollBack(r) ==
  /\ lock' = Nobody
  /\ answer' = [answer EXCEPT ![r] = [NoAnswer EXCEPT !.status = "failed"]]
  /\ st' = [st EXCEPT ![r] = "removing"]
  /\ pending' = <<>>

\* The publication itself fails and takes back its own links, or cannot.
PublishFails(r) ==
  /\ up /\ lock = r /\ st[r] = "open" /\ Len(published[r]) < Files(r)
  /\ faults.early < MaxEarly
  /\ published[r] # <<>> => faults.late < MaxLate
  /\ faults' = [faults EXCEPT !.early = @ + 1,
                              !.late = IF published[r] = <<>> THEN @ ELSE @ + 1]
  /\ LET p == NextPath(r)
         u == <<r, Len(published[r]) + 1>>
     IN /\ tree' \in {tree, Reconciled(p.doc), [Reconciled(p.doc) EXCEPT ![p] = u]}
        /\ temp' \in {temp, temp \ {u}}
  /\ RollBack(r)
  /\ UNCHANGED <<tables, up, req, published, backup>>

\* A statement or the commit fails after files were published.
TransactionFails(r) ==
  /\ up /\ lock = r /\ st[r] = "open" /\ published[r] # <<>>
  /\ faults.late < MaxLate
  /\ faults' = [faults EXCEPT !.late = @ + 1]
  /\ RollBack(r)
  /\ UNCHANGED <<tables, store, up, req, published, backup>>

\* What the tables hold after the request's own statements.
Outcome(r) ==
  LET d == req[r].doc IN
  CASE req[r].kind = "update" ->
         [pending EXCEPT ![d].title = Title(r, 1), ![d].rev = @ + 1]
    [] req[r].kind = "archive" ->
         [pending EXCEPT ![d].archived = TRUE, ![d].rev = @ + 1]
    [] OTHER -> pending

Response(r) ==
  LET d == IF req[r].doc = 0 THEN Len(pending) ELSE req[r].doc IN
  [status |-> "ok", doc |-> d, ver |-> Len(pending[d].rows)]

\* save_idempotent_response in the same transaction, then COMMIT.
Commit(r) ==
  /\ up /\ lock = r /\ st[r] = "open" /\ Len(published[r]) = Files(r)
  /\ docs' = Outcome(r)
  /\ replies' = IF Keyed(r)
                THEN [replies EXCEPT ![StorageKey(r)] =
                        [payload |-> Payload(r), answer |-> Response(r)]]
                ELSE replies
  /\ answer' = [answer EXCEPT ![r] = Response(r)]
  /\ lock' = Nobody /\ pending' = <<>>
  /\ st' = [st EXCEPT ![r] = "closing"]
  /\ UNCHANGED <<store, up, req, published, backup, faults>>

\* The write lock is not released within busy_timeout.
Busy(r) ==
  /\ up /\ st[r] = "staged" /\ lock # Nobody
  /\ answer' = [answer EXCEPT ![r] = [NoAnswer EXCEPT !.status = "failed"]]
  /\ st' = [st EXCEPT ![r] = "closing"]
  /\ UNCHANGED <<tables, store, lock, up, req, pending, published, backup, faults>>

Last(r) == published[r][Len(published[r])]
Forget(r) == [published EXCEPT ![r] = SubSeq(@, 1, Len(@) - 1)]

\* delete_stored_version looks at size and hash, not at the inode.
Own(r) == tree[Last(r)] # NoFile /\ Content(tree[Last(r)]) = req[r].content

CheckOwn(r) ==
  /\ up /\ st[r] = "removing" /\ published[r] # <<>>
  /\ IF Own(r)
     THEN st' = [st EXCEPT ![r] = "unlinking"] /\ UNCHANGED published
     ELSE published' = Forget(r) /\ UNCHANGED st
  /\ UNCHANGED <<tables, store, lock, up, req, pending, answer, backup, faults>>

Unlink(r) ==
  /\ up /\ st[r] = "unlinking"
  /\ tree' = [tree EXCEPT ![Last(r)] = NoFile]
  /\ published' = Forget(r)
  /\ st' = [st EXCEPT ![r] = "removing"]
  /\ UNCHANGED <<tables, temp, lock, up, req, pending, answer, backup, faults>>

\* Mutation: the staged files are forgotten.
CloseOnly(r) ==
  /\ up
  /\ \/ st[r] = "closing"
     \/ st[r] = "removing" /\ published[r] = <<>>
  /\ st' = [st EXCEPT ![r] = "done"]
  /\ UNCHANGED <<tables, store, lock, up, req, pending, published, answer, backup, faults>>

\* discard_staged_version, whatever the outcome; then the answer is sent.
Close(r) ==
  /\ up
  /\ \/ st[r] = "closing"
     \/ st[r] = "removing" /\ published[r] = <<>>
  /\ temp' = {u \in temp : u[1] # r}
  /\ st' = [st EXCEPT ![r] = "done"]
  /\ UNCHANGED <<tables, tree, lock, up, req, pending, published, answer, backup, faults>>

-----------------------------------------------------------------------------
(* The program dies and starts again.                                      *)

\* SQLite rolls back; the file system keeps what was linked and staged.
Crash ==
  /\ up /\ faults.crash < MaxCrashes
  /\ faults' = [faults EXCEPT !.crash = @ + 1]
  /\ up' = FALSE /\ lock' = Nobody /\ pending' = <<>>
  /\ st' = [r \in Requests |-> IF st[r] \in {"new", "done"} THEN st[r] ELSE "dead"]
  /\ answer' = [r \in Requests |-> IF st[r] = "done" THEN answer[r] ELSE NoAnswer]
  /\ backup' = IF backup.state = "done" THEN backup ELSE NoBackup
  /\ UNCHANGED <<tables, store, req, published>>

\* Mutation: nobody cleans Data/Temp.
RestartOnly ==
  /\ ~up
  /\ up' = TRUE
  /\ UNCHANGED <<tables, store, lock, requests, backup, faults>>

\* cleanup_stale_staged_versions, before the program accepts requests.
Restart ==
  /\ ~up
  /\ up' = TRUE
  /\ temp' = {}
  /\ UNCHANGED <<tables, tree, lock, requests, backup, faults>>

-----------------------------------------------------------------------------
(* A backup: the database first, then the files, while requests go on.     *)

BackUpDatabase ==
  /\ Backups /\ up /\ backup.state = "idle"
  /\ backup' = [state |-> "copying", docs |-> docs,
                todo |-> UNION {Referenced(docs, d) : d \in DOMAIN docs}, copied |-> {}]
  /\ UNCHANGED <<tables, store, lock, up, requests, faults>>

\* _copy_projects walks the directories; what is there now is copied.
CopyFile ==
  /\ up /\ backup.state = "copying"
  /\ \E p \in backup.todo :
       backup' = [backup EXCEPT
         !.todo = @ \ {p},
         !.copied = IF tree[p] = NoFile THEN @ ELSE @ \cup {<<p, Content(tree[p])>>}]
  /\ UNCHANGED <<tables, store, lock, up, requests, faults>>

\* A source that changes while it is read, or any other failure.
BackupFails ==
  /\ up /\ backup.state = "copying"
  /\ backup' = NoBackup
  /\ UNCHANGED <<tables, store, lock, up, requests, faults>>

\* Mutation: the database is copied after the files.
PublishBackupLateSnapshot ==
  /\ up /\ backup.state = "copying" /\ backup.todo = {}
  /\ backup' = [backup EXCEPT !.state = "done", !.docs = docs]
  /\ UNCHANGED <<tables, store, lock, up, requests, faults>>

PublishBackup ==
  /\ up /\ backup.state = "copying" /\ backup.todo = {}
  /\ backup' = [backup EXCEPT !.state = "done"]
  /\ UNCHANGED <<tables, store, lock, up, requests, faults>>

Next ==
  \/ \E r \in Requests :
       \/ Stage(r) \/ Retry(r) \/ Replay(r) \/ Refuse(r) \/ Busy(r)
       \/ Begin(r) \/ Publish(r) \/ PublishFails(r) \/ TransactionFails(r)
       \/ Commit(r) \/ CheckOwn(r) \/ Unlink(r) \/ Close(r)
  \/ Crash \/ Restart
  \/ BackUpDatabase \/ CopyFile \/ BackupFails \/ PublishBackup

Spec == Init /\ [][Next]_vars

-----------------------------------------------------------------------------
(* Properties.                                                             *)

Statuses == {"none", "ok", "conflict", "key_reused", "failed"}
Steps == {"new", "staged", "open", "removing", "unlinking", "closing", "done", "dead"}

\* Every variable has its type.
TypeOK ==
  /\ docs \in Seq([title : Titles \X (1..2), rev : Nat, archived : BOOLEAN, rows : Seq(Row)])
  /\ DOMAIN replies = StorageKeys
  /\ tree \in [Paths -> Uploads \cup {NoFile}]
  /\ temp \subseteq Uploads
  /\ lock \in Requests \cup {Nobody} /\ up \in BOOLEAN
  /\ DOMAIN req = Requests
  /\ st \in [Requests -> Steps]
  /\ published \in [Requests -> Seq(Paths)]
  /\ \A r \in Requests : answer[r].status \in Statuses
  /\ backup.state \in {"idle", "copying", "done"}

\* What document_versions records is on disk with the content it records:
\* reconciliation, the removal after a failure, crashes and the reuse of
\* document ids never touch the file of a committed version.
Intact(tab, file(_)) ==
  \A d \in DOMAIN tab : \A v \in DOMAIN tab[d].rows :
    LET row == tab[d].rows[v] IN file(row.path) = {row.content}
OnDisk(p) == IF tree[p] = NoFile THEN {} ELSE {Content(tree[p])}
CommittedFilesIntact == Intact(docs, OnDisk)

\* A published backup holds the file of every version its database knows,
\* although uploads, removals and failures went on while it was copied.
Copied(p) == {pair[2] : pair \in {c \in backup.copied : c[1] = p}}
BackupComplete == backup.state = "done" => Intact(backup.docs, Copied)

\* Who repeats a request that was carried out is told what the first was told,
\* never that it is refused, whatever became of the document, the program and
\* the first answer in the meantime.
RetryIsAnswered ==
  [][\A r \in Requests :
       /\ answer'[r] # answer[r] /\ answer'[r].status \in {"ok", "conflict", "key_reused"}
       /\ Keyed(r) /\ replies[StorageKey(r)].payload = Payload(r)
       => answer'[r] = replies[StorageKey(r)].answer]_vars

\* A document changes only on behalf of a request that had seen its latest
\* revision: no edit, version or archiving overwrites another unseen.
NoLostUpdate ==
  [][\A d \in DOMAIN docs :
       docs'[d] # docs[d] =>
         \E r \in Requests : lock = r /\ req[r].doc = d /\ req[r].rev = docs[d].rev]_vars

\* Once the program is up, every staged file belongs to a request in progress.
StagedFilesAreLive ==
  up => \A u \in temp : st[u[1]] \notin {"new", "done", "dead"}

\* What requests that failed leave in Data/Projects is at most the links that a failing
\* publication could not take back, one each: the files a batch published before that, or
\* before its transaction failed, are gone when the client is told, whatever other uploads
\* did to the directory between the rollback and the removal.
LeftBehind ==
  {p \in Paths : tree[p] # NoFile /\ LET r == tree[p][1] IN
                                    st[r] = "done" /\ answer[r].status = "failed"}
FailedLeaveNothing == Cardinality(LeftBehind) <= faults.early

\* The store implements the archive the uploader sees: what can be
\* downloaded is a history that only grows.
Download(p) == IF tree[p] = NoFile THEN NoFile ELSE Content(tree[p])
History == INSTANCE VersionHistory WITH
  MaxBatch <- 2,
  history <- [d \in DOMAIN docs |-> [v \in DOMAIN docs[d].rows |-> Download(docs[d].rows[v].path)]]
Refines == History!HSpec
=============================================================================
