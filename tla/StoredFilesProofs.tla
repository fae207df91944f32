-------------------------- MODULE StoredFilesProofs --------------------------
(***************************************************************************)
(* Proofs about uploaded files: how calls of store_version choose version  *)
(* numbers (FileVersions), and how requests publish files and record them  *)
(* (DocumentStore), for any number of calls, requests and documents.       *)
(*                                                                         *)
(* FileVersions: UniqueVersions alone is not inductive.  That a call may   *)
(* link its target rests on the second listing it made (Seen, Free), which *)
(* rests on nobody else holding its number meanwhile (Held, OneEach).      *)
(*                                                                         *)
(* DocumentStore has two layers.  SInv holds whatever fails: who holds the *)
(* write lock has checked the revision and the stored answers, and nobody  *)
(* else changes them; with LInv, it takes back what it published.  FInv,   *)
(* that rows have their files, holds as long as no transaction has failed  *)
(* with files published (NoneLate).                                        *)
(***************************************************************************)
EXTENDS FileVersions, DocumentStore, SequenceTheorems, FiniteSetTheorems, TLAPS

After == {"linked", "done", "failed", "deleted"}

\* A call between its reservation and its end still has the reservation.
Held == \A c \in Calls : Holds(c) => Entry(c) \in reserved

\* A number is reserved for one file only.
OneEach == \A r, q \in reserved : r.ver = q.ver => r = q

\* A file is its call's last number, and published by a call that linked.
OwnTarget ==
  \A t \in targets : \A c \in Calls :
    t.by = c => t.ver = ver[c] /\ pc[c] \in After

\* Every file with the number a call holds is in its second listing,
Seen ==
  \A c \in Calls : pc[c] = "relist" =>
    \A t \in targets : t.ver = ver[c] => t \in seen[c]

\* so that a call which goes on to link has the number to itself.
Free ==
  \A c \in Calls : pc[c] = "link" => \A t \in targets : t.ver # ver[c]

\* What a call found was published before, and cannot come back later.
Past ==
  \A c, d \in Calls : \A t \in before[c] : t.by = d => pc[d] \in After

\* A first listing holds what the call found and is still there,
Found ==
  \A c \in Calls : pc[c] = "list" => before[c] \cap targets \subseteq seen[c]

\* and the number chosen is above all of it, and only grows.
Newer ==
  \A c \in Calls :
    pc[c] \in {"reserve", "reserved", "relist", "link", "linked", "done"} =>
      \A t \in before[c] \cap targets : t.ver < ver[c]

Numbering == Held /\ OneEach /\ OwnTarget /\ Seen /\ Free /\ UniqueVersions
Order == Past /\ Found /\ Newer
IInv == NumberingTypeOK /\ Numbering /\ Order

-----------------------------------------------------------------------------
(* A listing yields a natural number, whatever it holds.                   *)
LEMMA CandidatesAreNumbers == ASSUME NumberingTypeOK PROVE Candidates \subseteq Nat
<1> SUFFICES ASSUME NEW h \in Candidates PROVE h \in Nat
  OBVIOUS
<1>1. CASE h = 0
  BY <1>1
<1>2. CASE \E t \in targets : h = t.ver
  BY <1>2 DEF NumberingTypeOK, Target, Versions
<1>3. CASE \E c \in Calls : \E t \in seen[c] : h = t.ver
  <2>1. PICK c \in Calls : \E t \in seen[c] : h = t.ver
    BY <1>3
  <2>2. PICK t \in seen[c] : h = t.ver
    BY <2>1
  <2>3. t \in Target
    BY DEF NumberingTypeOK
  <2> QED
    BY <2>2, <2>3 DEF Target, Versions
<1> QED
  BY <1>1, <1>2, <1>3 DEF Candidates

(* Two calls that hold a reservation hold different numbers.               *)
LEMMA HoldersDiffer ==
  ASSUME NumberingTypeOK, Held, OneEach, NEW c \in Calls, NEW d \in Calls,
         Holds(c), Holds(d), ver[c] = ver[d]
  PROVE  c = d
<1>1. Entry(c) \in reserved /\ Entry(d) \in reserved
  BY DEF Held
<1>2. Entry(c).ver = ver[c] /\ Entry(d).ver = ver[d] /\ Entry(c).by = c /\ Entry(d).by = d
  BY DEF Entry
<1> QED
  BY <1>1, <1>2 DEF OneEach

(* The initial names have their types and different numbers.               *)
LEMMA InitIInv == NumberingInit => IInv
<1> SUFFICES ASSUME NumberingInit PROVE IInv
  OBVIOUS
<1>1. PICK old \in SUBSET Old : targets = {[ver |-> v, by |-> Earlier] : v \in old}
  BY DEF NumberingInit
<1>2. PICK left \in SUBSET Residue : reserved = {[ver |-> v, by |-> Earlier] : v \in left}
  BY DEF NumberingInit
<1>3. old \subseteq Versions /\ left \subseteq Versions
  BY VersionsAssumption DEF Versions
<1>4. NumberingTypeOK
  BY <1>1, <1>2, <1>3 DEF NumberingInit, NumberingTypeOK, Target, Owners, Places, Versions
<1>5. \A t \in targets \cup reserved : t.by \notin Calls
  BY <1>1, <1>2, CallsAssumption
<1>6. OneEach /\ UniqueVersions
  BY <1>1, <1>2 DEF OneEach, UniqueVersions
<1>7. Held /\ Seen /\ Free
  BY DEF NumberingInit, Held, Holds, Seen, Free
<1>8. OwnTarget
  BY <1>5 DEF OwnTarget
<1>9. Order
  BY DEF NumberingInit, Order, Past, Found, Newer
<1> QED
  BY <1>4, <1>6, <1>7, <1>8, <1>9 DEF IInv, Numbering

-----------------------------------------------------------------------------
(* Every step keeps the types.                                             *)
LEMMA TypeStep == ASSUME NumberingTypeOK, [NumberingNext]_numberingVars PROVE NumberingTypeOK'
<1> USE DEF NumberingTypeOK, Places
<1> SUFFICES ASSUME NEW c \in Calls, Start(c) \/ Step(c) \/ Fail(c) \/ Delete(c)
             PROVE  NumberingTypeOK'
  BY DEF NumberingNext, numberingVars
<1>e. Entry(c) \in Target
  BY DEF Entry, Target, Owners
<1>n. Candidates \subseteq Nat
  BY CandidatesAreNumbers
<1>1. CASE Start(c)
  BY <1>1 DEF Start, Goto
<1>2. CASE List(c)
  <2>1. PICK h \in Candidates : ver' = [ver EXCEPT ![c] = h + 1]
    BY <1>2 DEF List
  <2>2. h + 1 \in Versions
    BY <1>n, <2>1 DEF Versions
  <2> QED
    BY <1>2, <2>1, <2>2 DEF List, Goto
<1>3. CASE Reserve(c)
  BY <1>3, <1>e DEF Reserve, Goto
<1>4. CASE ReserveTaken(c)
  BY <1>4 DEF ReserveTaken, Versions
<1>5. CASE BeginRelist(c)
  BY <1>5 DEF BeginRelist, Goto
<1>6. CASE Relist(c)
  <2>1. CASE Outrun(c)
    <3>1. PICK h \in Candidates :
            /\ reserved' = reserved \ {Entry(c)}
            /\ ver' = [ver EXCEPT ![c] = h + 1]
            /\ Goto(c, "reserve")
      BY <2>1 DEF Outrun
    <3>2. h + 1 \in Versions
      BY <1>n, <3>1 DEF Versions
    <3> QED
      BY <1>6, <3>1, <3>2 DEF Relist, Goto
  <2>2. CASE Current(c)
    BY <1>6, <2>2 DEF Relist, Current, Goto
  <2> QED
    BY <1>6, <2>1, <2>2 DEF Relist
<1>7. CASE Link(c)
  BY <1>7, <1>e DEF Link, Goto
<1>8. CASE Complete(c)
  BY <1>8 DEF Complete, Goto
<1>9. CASE Fail(c)
  <2>1. targets' \subseteq targets /\ reserved' \subseteq reserved
    BY <1>9 DEF Fail
  <2> QED
    BY <1>9, <2>1 DEF Fail, Goto
<1>10. CASE Delete(c)
  <2>1. targets' \subseteq targets
    BY <1>10 DEF Delete
  <2> QED
    BY <1>10, <2>1 DEF Delete, Goto
<1> QED
  BY <1>1, <1>2, <1>3, <1>4, <1>5, <1>6, <1>7, <1>8, <1>9, <1>10 DEF Step
-----------------------------------------------------------------------------
(* A call whose first listing, or second, is above its number has nothing  *)
(* published yet, and no other call's reservation is touched by its own.   *)
LEMMA NumberingStep == ASSUME IInv, [NumberingNext]_numberingVars PROVE Numbering'
<1> USE DEF IInv, NumberingTypeOK
<1>t. NumberingTypeOK'
  BY TypeStep
<1> SUFFICES ASSUME NEW c \in Calls, Start(c) \/ Step(c) \/ Fail(c) \/ Delete(c)
             PROVE  Numbering'
  BY DEF NumberingNext, numberingVars, Numbering, Held, Holds, Entry, OneEach, OwnTarget, Seen, Free, UniqueVersions
<1>e. \A d \in Calls : Entry(d).ver = ver[d] /\ Entry(d).by = d
  BY DEF Entry
<1>f. c # Earlier
  BY CallsAssumption
<1>1. CASE Start(c)
  BY <1>1 DEF Start, Goto, Numbering, Held, Holds, Entry, OneEach, OwnTarget, After, Seen, Free, UniqueVersions
<1>2. CASE List(c)
  BY <1>2 DEF List, Goto, Numbering, Held, Holds, Entry, OneEach, OwnTarget, After, Seen, Free, UniqueVersions
<1>3. CASE Reserve(c)
  <2>1. OneEach'
    BY <1>3, <1>e DEF Reserve, Taken, Numbering, OneEach
  <2> QED
    BY <1>3, <2>1 DEF Reserve, Goto, Numbering, Held, Holds, Entry, OwnTarget, After, Seen, Free, UniqueVersions
<1>4. CASE ReserveTaken(c)
  BY <1>4 DEF ReserveTaken, Numbering, Held, Holds, Entry, OneEach, OwnTarget, After, Seen, Free, UniqueVersions
<1>5. CASE BeginRelist(c)
  BY <1>5 DEF BeginRelist, Goto, Numbering, Held, Holds, Entry, OneEach, OwnTarget, After, Seen, Free, UniqueVersions
<1>6. CASE Relist(c)
  <2>1. CASE Outrun(c)
    BY <1>6, <1>e, <2>1 DEF Relist, Outrun, Goto, Numbering, Held, Holds, Entry, OneEach, OwnTarget, After, Seen, Free, UniqueVersions
  <2>2. CASE Current(c)
    <3>1. PICK h \in Candidates : Highest(c, h) /\ h + 1 <= ver[c]
      BY <2>2 DEF Current
    <3>2. h \in Nat
      BY CandidatesAreNumbers
    <3>3. ASSUME NEW t \in targets, t.ver = ver[c] PROVE FALSE
      <4>1. t \in seen[c]
        BY <1>6, <3>3 DEF Relist, Numbering, Seen
      <4>2. t.ver <= h
        BY <3>1, <4>1 DEF Highest
      <4> QED
        BY <3>1, <3>2, <3>3, <4>2 DEF Versions
    <3> QED
      BY <1>6, <2>2, <3>3 DEF Relist, Current, Goto, Numbering, Held, Holds, Entry, OneEach, OwnTarget, After, Seen, Free, UniqueVersions
  <2> QED
    BY <1>6, <2>1, <2>2 DEF Relist
<1>7. CASE Link(c)
  <2>1. \A d \in Calls : Holds(d) /\ ver[d] = ver[c] => d = c
    BY <1>7, HoldersDiffer DEF Link, Holds, Numbering
  <2>2. \A t \in targets : t.ver # ver[c] /\ t.by # c
    BY <1>7 DEF Link, Numbering, Free, OwnTarget, After
  <2>3. UniqueVersions'
    BY <1>7, <1>e, <2>2 DEF Link, Numbering, UniqueVersions
  <2>4. OwnTarget'
    BY <1>7, <1>e, <2>2 DEF Link, Goto, Numbering, OwnTarget, After
  <2>5. Seen' /\ Free'
    BY <1>7, <1>e, <2>1 DEF Link, Goto, Numbering, Seen, Free, Holds
  <2> QED
    BY <1>7, <2>3, <2>4, <2>5 DEF Link, Goto, Numbering, Held, Holds, Entry, OneEach
<1>8. CASE Complete(c)
  BY <1>8, <1>e DEF Complete, Goto, Numbering, Held, Holds, Entry, OneEach, OwnTarget, After, Seen, Free, UniqueVersions
<1>9. CASE Fail(c)
  <2>1. targets' \subseteq targets
    BY <1>9 DEF Fail
  <2>2. reserved' \subseteq reserved /\ \A r \in reserved : r.by # c => r \in reserved'
    BY <1>9, <1>e DEF Fail
  <2>3. Held'
    BY <1>9, <1>e, <2>2 DEF Fail, Goto, Numbering, Held, Holds, Entry
  <2>4. OwnTarget'
    <3> SUFFICES ASSUME NEW t \in targets', NEW d \in Calls, t.by = d
                 PROVE  t.ver = ver'[d] /\ pc'[d] \in After
      BY DEF OwnTarget
    <3>1. t.ver = ver[d] /\ pc[d] \in After
      BY <2>1 DEF Numbering, OwnTarget
    <3> QED
      BY <1>9, <3>1 DEF Fail, Goto, After
  <2>5. Seen' /\ Free'
    BY <1>9, <2>1 DEF Fail, Goto, Numbering, Seen, Free
  <2> QED
    BY <2>1, <2>2, <2>3, <2>4, <2>5 DEF Numbering, OneEach, UniqueVersions
<1>10. CASE Delete(c)
  <2>1. targets' \subseteq targets
    BY <1>10 DEF Delete
  <2> QED
    BY <1>10, <2>1 DEF Delete, Goto, Numbering, Held, Holds, Entry, OneEach, OwnTarget, After, Seen, Free, UniqueVersions
<1> QED
  BY <1>1, <1>2, <1>3, <1>4, <1>5, <1>6, <1>7, <1>8, <1>9, <1>10 DEF Step

(* What a call found stays below its number.                               *)
LEMMA OrderStep == ASSUME IInv, [NumberingNext]_numberingVars PROVE Order'
<1> USE DEF IInv, NumberingTypeOK
<1>t. NumberingTypeOK'
  BY TypeStep
<1> SUFFICES ASSUME NEW c \in Calls, Start(c) \/ Step(c) \/ Fail(c) \/ Delete(c)
             PROVE  Order'
  BY DEF NumberingNext, numberingVars, Order, Past, Found, Newer
<1>n. Candidates \subseteq Nat
  BY CandidatesAreNumbers
<1>1. CASE Start(c)
  <2>1. Past'
    <3> SUFFICES ASSUME NEW a \in Calls, NEW d \in Calls, NEW t \in before'[a], t.by = d
                 PROVE  pc'[d] \in After
      BY DEF Past
    <3>1. pc[d] \in After
      BY <1>1 DEF Start, Numbering, OwnTarget, Order, Past
    <3> QED
      BY <1>1, <3>1 DEF Start, Goto, After
  <2>2. Found' /\ Newer'
    BY <1>1 DEF Start, Goto, Order, Found, Newer
  <2> QED
    BY <2>1, <2>2 DEF Order
<1>2. CASE List(c)
  <2>1. PICK h \in Candidates : Highest(c, h) /\ ver' = [ver EXCEPT ![c] = h + 1]
    BY <1>2 DEF List
  <2>2. \A t \in before[c] \cap targets : t.ver <= h
    BY <1>2, <2>1 DEF List, Order, Found, Highest
  <2>3. h \in Nat /\ \A t \in targets : t.ver \in Nat
    BY <1>n DEF Target, Versions
  <2>4. Newer'
    BY <1>2, <2>1, <2>2, <2>3 DEF List, Goto, Order, Newer
  <2> QED
    BY <1>2, <2>4 DEF List, Goto, Order, Past, After, Found
<1>3. CASE Reserve(c)
  BY <1>3 DEF Reserve, Goto, Order, Past, After, Found, Newer
<1>4. CASE ReserveTaken(c)
  <2>1. \A t \in targets : t.ver \in Nat /\ ver[c] \in Nat
    BY DEF Target, Versions
  <2> QED
    BY <1>4, <2>1 DEF ReserveTaken, Order, Past, After, Found, Newer
<1>5. CASE BeginRelist(c)
  BY <1>5 DEF BeginRelist, Goto, Order, Past, After, Found, Newer
<1>6. CASE Relist(c)
  <2>1. CASE Outrun(c)
    <3>1. PICK h \in Candidates : h + 1 > ver[c] /\ ver' = [ver EXCEPT ![c] = h + 1]
                                  /\ Goto(c, "reserve")
      BY <2>1 DEF Outrun
    <3>2. h \in Nat /\ ver[c] \in Nat /\ \A t \in targets : t.ver \in Nat
      BY <1>n DEF Target, Versions
    <3>3. Newer'
      BY <1>6, <3>1, <3>2 DEF Relist, Goto, Order, Newer
    <3> QED
      BY <1>6, <3>1, <3>3 DEF Relist, Goto, Order, Past, After, Found
  <2>2. CASE Current(c)
    BY <1>6, <2>2 DEF Relist, Current, Goto, Order, Past, After, Found, Newer
  <2> QED
    BY <1>6, <2>1, <2>2 DEF Relist
<1>7. CASE Link(c)
  <2>1. \A a \in Calls : Entry(c) \notin before[a]
    BY <1>7 DEF Link, Entry, Order, Past, After
  <2> QED
    BY <1>7, <2>1 DEF Link, Goto, Order, Past, After, Found, Newer
<1>8. CASE Complete(c)
  BY <1>8 DEF Complete, Goto, Order, Past, After, Found, Newer
<1>9. CASE Fail(c)
  <2>1. targets' \subseteq targets
    BY <1>9 DEF Fail
  <2> QED
    BY <1>9, <2>1 DEF Fail, Goto, Order, Past, After, Found, Newer
<1>10. CASE Delete(c)
  <2>1. targets' \subseteq targets
    BY <1>10 DEF Delete
  <2> QED
    BY <1>10, <2>1 DEF Delete, Goto, Order, Past, After, Found, Newer
<1> QED
  BY <1>1, <1>2, <1>3, <1>4, <1>5, <1>6, <1>7, <1>8, <1>9, <1>10 DEF Step

(* The invariant holds of every behaviour of the specification.            *)
LEMMA Invariant == NumberingSpec => []IInv
<1>1. IInv /\ [NumberingNext]_numberingVars => IInv'
  BY TypeStep, NumberingStep, OrderStep DEF IInv
<1> QED
  BY InitIInv, <1>1, PTL DEF NumberingSpec

(* Every variable of the numbering protocol keeps its type.                *)
THEOREM TypeCorrect == NumberingSpec => []NumberingTypeOK
<1>1. IInv => NumberingTypeOK
  BY DEF IInv
<1> QED
  BY Invariant, <1>1, PTL

(* store_version never gives two files of a directory the same version     *)
(* number, for any number of concurrent calls, with any failures,          *)
(* deletions and reservations left behind.                                 *)
THEOREM NumbersUnique == NumberingSpec => []UniqueVersions
<1>1. IInv => UniqueVersions
  BY DEF IInv, Numbering
<1> QED
  BY Invariant, <1>1, PTL

(* What store_version returns is newer than every version that was there   *)
(* when the call began.                                                    *)
THEOREM NumbersGrow == NumberingSpec => []NewerThanBefore
<1>1. IInv => NewerThanBefore
  BY DEF IInv, Order, Newer, NewerThanBefore
<1> QED
  BY Invariant, <1>1, PTL

-----------------------------------------------------------------------------
(* DocumentStore: what holds whatever fails.                               *)

\* What the tables and a request hold, in full.
Document == [title : Titles \X (1..2), rev : Nat, archived : BOOLEAN, rows : Seq(Row)]
Request == [kind : Kinds, key : Keys, content : Contents, title : Titles, doc : Nat, rev : Nat]
Answer == [status : Statuses, doc : Nat, ver : Nat]
Reply == [payload : {<<>>} \cup (Kinds \X Titles \X Contents \X Nat), answer : Answer]

Backup == [state : {"idle", "copying", "done"}, docs : Seq(Document),
           todo : SUBSET Paths, copied : SUBSET (Paths \X Contents)]

Columns ==
  /\ TypeOK
  /\ req \in [Requests -> {<<>>} \cup Request]
  /\ replies \in [StorageKeys -> Reply]
  /\ answer \in [Requests -> Answer]
  /\ faults \in [early : Nat, late : Nat, crash : Nat]
  /\ Len(docs) <= MaxDocs
  /\ lock # Nobody => pending \in Seq(Document)
  /\ backup \in Backup

\* A request that was sent asks for something new, or of a document that is there.
Asks ==
  \A r \in Requests : st[r] # "new" =>
    /\ req[r] \in Request
    /\ IF req[r].kind \in NewKinds THEN req[r].doc = 0 ELSE req[r].doc \in DOMAIN docs

\* The request with an open transaction, and no other, has the write lock.
Locking == \A r \in Requests : st[r] = "open" <=> lock = r

\* Nothing is published before the transaction,
Unpublished == \A r \in Requests : st[r] \in {"new", "staged"} => published[r] = <<>>

\* and what is on disk was staged by a request that was sent.
Linked == \A p \in Paths : tree[p] # NoFile => st[tree[p][1]] # "new"

\* What the open transaction has added to the tables, by the kind of its request.
Drafted(r) ==
  IF req[r].kind \in NewKinds
  THEN /\ Len(docs) + Files(r) <= MaxDocs
       /\ Len(pending) = Len(docs) + Len(published[r])
       /\ \A d \in DOMAIN docs : pending[d] = docs[d]
       /\ \A d \in DOMAIN pending \ DOMAIN docs :
            Len(pending[d].rows) = 1 /\ pending[d].rows[1].content = req[r].content
  ELSE /\ docs[req[r].doc].rev = req[r].rev
       /\ req[r].kind = "version" => Len(docs[req[r].doc].rows) < MaxVersions
       /\ published[r] # <<>> =>
            \E row \in Row :
              /\ row.content = req[r].content
              /\ pending = [docs EXCEPT ![req[r].doc].rows = Append(@, row),
                                        ![req[r].doc].rev = @ + 1]

Transaction ==
  \A r \in Requests : st[r] = "open" =>
    /\ Len(published[r]) <= Files(r)
    /\ published[r] = <<>> => pending = docs
    /\ Keyed(r) => replies[StorageKey(r)] = NoReply
    /\ Drafted(r)

\* A row's path names its document and version, so that no two rows share one.
Placed(tab) ==
  \A d \in DOMAIN tab : \A v \in DOMAIN tab[d].rows :
    tab[d].rows[v].path.doc = d /\ tab[d].rows[v].path.ver = v

RowsPlaced == Placed(docs) /\ (lock # Nobody => Placed(pending))

SInv == Columns /\ Asks /\ Locking /\ Unpublished /\ Linked /\ Transaction /\ RowsPlaced

-----------------------------------------------------------------------------
\* What a client may ask is a request, of the revision that is current.
LEMMA AskedIsRequest ==
  ASSUME docs \in Seq(Document), NEW q \in Asked
  PROVE  /\ q \in Request
         /\ IF q.kind \in NewKinds THEN q.doc = 0 ELSE q.doc \in DOMAIN docs
<1>1. CASE q \in [kind : Kinds \cap NewKinds, key : Keys, content : Contents,
                  title : Titles, doc : {0}, rev : {0}]
  BY <1>1 DEF Request
<1>2. CASE \E d \in DOMAIN docs :
             q \in [kind : Kinds \ NewKinds, key : Keys, content : Contents,
                    title : Titles, doc : {d}, rev : {docs[d].rev}]
  <2>1. PICK d \in DOMAIN docs :
             q \in [kind : Kinds \ NewKinds, key : Keys, content : Contents,
                    title : Titles, doc : {d}, rev : {docs[d].rev}]
    BY <1>2
  <2>2. docs[d] \in Document /\ d \in Nat
    BY <2>1
  <2> HIDE DEF Document
  <2>4. docs[d].rev \in Nat
    BY <2>2 DEF Document
  <2>3. QED
    BY <2>1, <2>2, <2>4 DEF Request
<1>3. QED
  BY <1>1, <1>2 DEF Asked

\* A request has no file, one or two.
LEMMA FewFiles ==
  ASSUME NEW k \in AllKinds
  PROVE  /\ FileCount(k) \in 0..2
         /\ k \in NewKinds => FileCount(k) \in 1..2
         /\ k = "version" => FileCount(k) = 1
         /\ k \in {"update", "archive"} => FileCount(k) = 0
BY DEF AllKinds, FileCount, NewKinds

\* The key under which its answer is stored, and what is compared.
LEMMA KeysStored ==
  ASSUME Columns, Asks, NEW r \in Requests, st[r] # "new"
  PROVE  /\ Keyed(r) => StorageKey(r) \in StorageKeys
         /\ Payload(r) \in Kinds \X Titles \X Contents \X Nat
         /\ Payload(r) # <<>>
<1>1. req[r] \in Request /\ req[r].kind \in AllKinds /\ docs \in Seq(Document)
  BY KindsAssumption DEF Asks, Columns, TypeOK, Request, Document
<1>2. Payload(r) \in Kinds \X Titles \X Contents \X Nat /\ Payload(r) # <<>>
  BY <1>1 DEF Payload, Request
<1>3. ASSUME Keyed(r)
      PROVE  StorageKey(r) \in StorageKeys
  <2>1. CASE req[r].kind \in NewKinds
    <3>1. Scope(r) \in NewKinds \X {0} /\ req[r].key \in Keys
      BY <1>1, <2>1 DEF Asks, Scope, Request
    <3>2. QED
      BY <3>1 DEF StorageKey, StorageKeys
  <2>2. CASE req[r].kind \notin NewKinds
    <3>1. req[r].kind \in {"version", "archive"}
      BY <1>1, <1>3, <2>2 DEF AllKinds, NewKinds, Keyed
    <3>2. req[r].doc \in 1..Len(docs) /\ Len(docs) \in Nat /\ Len(docs) <= MaxDocs /\ MaxDocs \in Nat
      BY <1>1, <2>2, BoundsAssumption DEF Asks, Columns
    <3>3. Scope(r) \in {"version", "archive"} \X DocIds /\ req[r].key \in Keys
      BY <1>1, <3>1, <3>2 DEF Scope, DocIds, Request
    <3>4. QED
      BY <3>3 DEF StorageKey, StorageKeys
  <2>3. QED
    BY <2>1, <2>2
<1>4. QED
  BY <1>2, <1>3

-----------------------------------------------------------------------------
(* Publishing.                                                             *)

\* The next file of a transaction gets a path that no row has, and the tables
\* with it are well-formed.
LEMMA NextFile ==
  ASSUME SInv, NEW r \in Requests, st[r] = "open", Len(published[r]) < Files(r)
  PROVE  LET p == NextPath(r)  tab == WithFile(r, p) IN
         /\ p \in Paths
         /\ \A d \in DOMAIN pending : p \notin Referenced(pending, d)
         /\ tab \in Seq(Document)
         /\ Placed(tab)
         /\ \A d \in DOMAIN tab : \A v \in DOMAIN tab[d].rows :
              \/ tab[d].rows[v].path = p /\ tab[d].rows[v].content = req[r].content
              \/ /\ d \in DOMAIN pending /\ v \in DOMAIN pending[d].rows
                 /\ tab[d].rows[v] = pending[d].rows[v]
<1> DEFINE p == NextPath(r)
           tab == WithFile(r, p)
           row == [path |-> p, content |-> req[r].content]
<1>1. /\ req[r] \in Request /\ req[r].kind \in AllKinds
      /\ docs \in Seq(Document) /\ pending \in Seq(Document)
      /\ Len(docs) <= MaxDocs /\ MaxDocs \in Nat /\ MaxVersions \in Nat
      /\ published[r] \in Seq(Paths) /\ Placed(pending)
  BY KindsAssumption, BoundsAssumption, RequestsAssumption
     DEF SInv, Columns, TypeOK, Asks, Locking, RowsPlaced, Request, Document
<1>2. /\ published[r] = <<>> => pending = docs
      /\ Drafted(r)
  BY DEF SInv, Transaction
<1>3. Len(published[r]) \in Nat /\ Files(r) \in 0..2
  BY <1>1, FewFiles DEF Files
<1>4. CASE req[r].kind = "version"
  <2> DEFINE d == req[r].doc
  <2>1. Len(published[r]) = 0 /\ published[r] = <<>> /\ pending = docs
    BY <1>1, <1>2, <1>3, <1>4, FewFiles DEF Files
  <2>2. d \in DOMAIN docs /\ Len(docs[d].rows) < MaxVersions /\ docs[d] \in Document
    BY <1>1, <1>2, <1>4 DEF SInv, Asks, Drafted, NewKinds
  <2>3. docs[d].rows \in Seq(Row) /\ Len(docs[d].rows) \in Nat /\ docs[d].title \in Titles \X (1..2)
        /\ docs[d].rev \in Nat
    BY <2>2 DEF Document
  <2>4. p = [doc |-> d, ver |-> Len(docs[d].rows) + 1, title |-> docs[d].title]
    BY <1>4, <2>1 DEF NextPath
  <2>5. d \in DocIds /\ Len(docs[d].rows) + 1 \in VersionIds
    BY <1>1, <2>2, <2>3 DEF DocIds, VersionIds
  <2>6. p \in Paths
    BY <2>3, <2>4, <2>5 DEF Paths
  <2>7. row \in Row
    BY <1>1, <2>6 DEF Row, Request
  <2>8. tab = [docs EXCEPT ![d].rows = Append(@, row), ![d].rev = @ + 1]
    BY <1>4, <2>1, <2>4 DEF WithFile
  <2>9. Append(docs[d].rows, row) \in Seq(Row) /\ Len(Append(docs[d].rows, row)) = Len(docs[d].rows) + 1
        /\ \A v \in 1..Len(docs[d].rows) : Append(docs[d].rows, row)[v] = docs[d].rows[v]
        /\ Append(docs[d].rows, row)[Len(docs[d].rows) + 1] = row
    BY <2>3, <2>7
  <2>10. DOMAIN tab = DOMAIN docs /\ (\A e \in DOMAIN docs \ {d} : tab[e] = docs[e])
         /\ tab[d] = [title |-> docs[d].title, rev |-> docs[d].rev + 1,
                      archived |-> docs[d].archived, rows |-> Append(docs[d].rows, row)]
    BY <2>2, <2>8 DEF Document
  <2>11. tab[d] \in Document /\ tab[d].rows = Append(docs[d].rows, row)
    <3> HIDE DEF row, d, tab
    <3>1. docs[d].archived \in BOOLEAN /\ docs[d].rev + 1 \in Nat
      BY <2>2, <2>3 DEF Document
    <3>2. QED
      BY <2>3, <2>9, <2>10, <3>1 DEF Document
  <2>12. tab \in Seq(Document)
    <3>1. tab \in [1..Len(docs) -> Document]
      BY <1>1, <2>2, <2>8, <2>10, <2>11
    <3>2. QED
      BY <1>1, <3>1
  <2>13. \A e \in DOMAIN tab : \A v \in DOMAIN tab[e].rows :
           \/ e = d /\ v = Len(docs[d].rows) + 1 /\ tab[e].rows[v] = row
           \/ /\ e \in DOMAIN docs /\ v \in DOMAIN docs[e].rows
              /\ tab[e].rows[v] = docs[e].rows[v]
    <3> SUFFICES ASSUME NEW e \in DOMAIN tab, NEW v \in DOMAIN tab[e].rows
                 PROVE  \/ e = d /\ v = Len(docs[d].rows) + 1 /\ tab[e].rows[v] = row
                        \/ /\ e \in DOMAIN docs /\ v \in DOMAIN docs[e].rows
                           /\ tab[e].rows[v] = docs[e].rows[v]
      OBVIOUS
    <3>1. CASE e # d
      BY <2>10, <3>1
    <3>2. CASE e = d
      <4>1. v \in 1..(Len(docs[d].rows) + 1)
        BY <2>9, <2>11, <3>2
      <4>2. tab[e].rows[v] = Append(docs[d].rows, row)[v]
        BY <2>11, <3>2
      <4>3. CASE v = Len(docs[d].rows) + 1
        BY <2>9, <3>2, <4>2, <4>3
      <4>4. CASE v \in 1..Len(docs[d].rows)
        BY <2>2, <2>3, <2>9, <3>2, <4>2, <4>4
      <4>5. QED
        BY <2>3, <4>1, <4>3, <4>4
    <3>3. QED
      BY <3>1, <3>2
  <2>14. Placed(tab)
    BY <1>1, <2>1, <2>4, <2>13 DEF Placed
  <2>15. \A e \in DOMAIN pending : p \notin Referenced(pending, e)
    <3> SUFFICES ASSUME NEW e \in DOMAIN docs, NEW v \in DOMAIN docs[e].rows, docs[e].rows[v].path = p
                 PROVE  FALSE
      BY <2>1 DEF Referenced
    <3>1. e = d /\ v = Len(docs[d].rows) + 1
      BY <1>1, <2>1, <2>4 DEF Placed
    <3>2. QED
      BY <2>3, <3>1
  <2>16. QED
    BY <2>1, <2>6, <2>12, <2>13, <2>14, <2>15
<1>5. CASE req[r].kind # "version"
  <2>1. req[r].kind \in NewKinds
    BY <1>1, <1>3, <1>5, FewFiles DEF AllKinds, NewKinds, Files
  <2>2. Len(docs) + Files(r) <= MaxDocs /\ Len(pending) = Len(docs) + Len(published[r])
    BY <1>2, <2>1 DEF Drafted
  <2>3. Len(docs) \in Nat /\ Len(pending) \in Nat /\ Len(published[r]) + 1 \in 1..2
        /\ Len(pending) + 1 \in DocIds
    BY <1>1, <1>3, <2>2 DEF DocIds
  <2>4. 1 \in VersionIds
    BY BoundsAssumption DEF VersionIds
  <2>5. p = [doc |-> Len(pending) + 1, ver |-> 1, title |-> Title(r, Len(published[r]) + 1)]
    BY <1>5 DEF NextPath
  <2>6. Title(r, Len(published[r]) + 1) \in Titles \X (1..2)
    BY <1>1, <2>3 DEF Title, Request
  <2>7. p \in Paths /\ p.title \in Titles \X (1..2) /\ p.doc = Len(pending) + 1 /\ p.ver = 1
    BY <2>3, <2>4, <2>5, <2>6 DEF Paths
  <2>8. row \in Row
    BY <1>1, <2>7 DEF Row, Request
  <2> DEFINE new == [title |-> p.title, rev |-> 1, archived |-> FALSE, rows |-> <<row>>]
  <2>9. new \in Document
    <3> HIDE DEF row, p
    <3>1. QED
      BY <2>7, <2>8 DEF Document
  <2>10. tab = Append(pending, new)
    BY <1>5 DEF WithFile
  <2>11. /\ tab \in Seq(Document) /\ Len(tab) = Len(pending) + 1
         /\ \A e \in 1..Len(pending) : tab[e] = pending[e]
         /\ tab[Len(pending) + 1] = new
    <3> HIDE DEF new, tab
    <3>1. QED
      BY <1>1, <2>9, <2>10
  <2>12. \A e \in DOMAIN tab : \A v \in DOMAIN tab[e].rows :
           \/ e = Len(pending) + 1 /\ v = 1 /\ tab[e].rows[v] = row
           \/ /\ e \in DOMAIN pending /\ v \in DOMAIN pending[e].rows
              /\ tab[e].rows[v] = pending[e].rows[v]
    <3> SUFFICES ASSUME NEW e \in DOMAIN tab, NEW v \in DOMAIN tab[e].rows
                 PROVE  \/ e = Len(pending) + 1 /\ v = 1 /\ tab[e].rows[v] = row
                        \/ /\ e \in DOMAIN pending /\ v \in DOMAIN pending[e].rows
                           /\ tab[e].rows[v] = pending[e].rows[v]
      OBVIOUS
    <3> HIDE DEF tab, row
    <3>1. CASE e = Len(pending) + 1
      BY <2>11, <3>1
    <3>2. CASE e \in 1..Len(pending)
      BY <1>1, <2>11, <3>2
    <3>3. QED
      BY <1>1, <2>11, <3>1, <3>2
  <2>13. Placed(tab)
    <3> HIDE DEF tab, p
    <3>1. QED
      BY <1>1, <2>7, <2>12 DEF Placed
  <2>14. \A e \in DOMAIN pending : p \notin Referenced(pending, e)
    <3> SUFFICES ASSUME NEW e \in DOMAIN pending, NEW v \in DOMAIN pending[e].rows, pending[e].rows[v].path = p
                 PROVE  FALSE
      BY DEF Referenced
    <3>1. e = Len(pending) + 1
      BY <1>1, <2>7 DEF Placed
    <3>2. QED
      BY <1>1, <2>3, <3>1
  <2>15. QED
    BY <2>7, <2>11, <2>12, <2>13, <2>14
<1>6. QED
  BY <1>4, <1>5

-----------------------------------------------------------------------------
(* Steps that leave the tables and the requests alone.                     *)

\* Such a step keeps the invariant if it begins no transaction.
LEMMA QuietKeeps ==
  ASSUME SInv, Columns', Locking', Linked', UNCHANGED <<docs, replies>>,
         lock' \in {lock, Nobody}, lock' # Nobody => pending' = pending,
         \A q \in Requests :
           /\ st[q] # "new" => st'[q] # "new" /\ req'[q] = req[q]
           /\ st[q] = "new" /\ st'[q] # "new" =>
                req'[q] \in {a \in Request : IF a.kind \in NewKinds THEN a.doc = 0 ELSE a.doc \in DOMAIN docs}
           /\ st'[q] \in {"new", "staged"} => st[q] \in {"new", "staged"}
           /\ st'[q] \in {"new", "staged", "open"} => published'[q] = published[q]
  PROVE  SInv'
<1>1. \A q \in Requests : st'[q] = "open" => st[q] = "open" /\ pending' = pending
  BY RequestsAssumption DEF SInv, Locking
<1>2. Asks'
  BY DEF SInv, Asks
<1>3. Unpublished'
  BY DEF SInv, Unpublished
<1>4. Transaction'
  <2> SUFFICES ASSUME NEW q \in Requests, st'[q] = "open"
               PROVE  (/\ Len(published[q]) <= Files(q)
                       /\ published[q] = <<>> => pending = docs
                       /\ Keyed(q) => replies[StorageKey(q)] = NoReply
                       /\ Drafted(q))'
    BY DEF Transaction
  <2>1. st[q] = "open" /\ pending' = pending /\ published'[q] = published[q] /\ req'[q] = req[q]
    BY <1>1
  <2>2. /\ Len(published[q]) <= Files(q)
        /\ published[q] = <<>> => pending = docs
        /\ Keyed(q) => replies[StorageKey(q)] = NoReply
        /\ Drafted(q)
    BY <2>1 DEF SInv, Transaction
  <2>3. Files(q)' = Files(q) /\ Keyed(q)' = Keyed(q) /\ StorageKey(q)' = StorageKey(q)
    BY <2>1 DEF Files, Keyed, StorageKey, Scope
  <2>4. Drafted(q)' = Drafted(q)
    BY <2>1, <2>3 DEF Drafted
  <2>5. QED
    BY <2>1, <2>2, <2>3, <2>4
<1>5. RowsPlaced'
  BY DEF SInv, RowsPlaced, Placed
<1>6. QED
  BY <1>2, <1>3, <1>4, <1>5 DEF SInv

\* A request that is answered without a transaction of its own.
LEMMA AnsweredKeeps ==
  ASSUME SInv, NEW r \in Requests, NEW a \in Answer,
         st[r] = "staged", answer' = [answer EXCEPT ![r] = a],
         st' = [st EXCEPT ![r] = "closing"],
         UNCHANGED <<tables, store, lock, up, req, pending, published, backup, faults>>
  PROVE  SInv'
<1> USE DEF tables, store
<1>1. Columns'
  <2>1. st' \in [Requests -> Steps] /\ answer' \in [Requests -> Answer]
    BY DEF SInv, Columns, TypeOK, Steps
  <2>2. \A q \in Requests : answer'[q].status \in Statuses
    BY <2>1 DEF Answer
  <2>3. QED
    BY <2>1, <2>2 DEF SInv, Columns, TypeOK, StorageKeys
<1>2. \A q \in Requests : st'[q] = IF q = r THEN "closing" ELSE st[q]
  BY DEF SInv, Columns, TypeOK
<1>3. Locking'
  BY <1>2 DEF SInv, Locking
<1>4. Linked'
  BY <1>2 DEF SInv, Linked, Columns, TypeOK, Uploads
<1>5. QED
  BY <1>1, <1>2, <1>3, <1>4, QuietKeeps

\* The first answer again, a refusal, or none because the lock was busy.
LEMMA ReplayKeeps == ASSUME SInv, NEW r \in Requests, Replay(r) PROVE SInv'
<1>1. Keyed(r) /\ st[r] = "staged"
  BY DEF Replay, Known
<1>2. replies[StorageKey(r)] \in Reply
  BY <1>1, KeysStored DEF SInv, Columns
<1>3. replies[StorageKey(r)].answer \in Answer /\ [NoAnswer EXCEPT !.status = "key_reused"] \in Answer
  BY <1>2 DEF Reply, NoAnswer, Answer, Statuses
<1>4. PICK a \in Answer : Answered(r, a)
  BY <1>3 DEF Replay
<1>5. QED
  BY <1>1, <1>4, AnsweredKeeps DEF Answered

LEMMA RefuseKeeps == ASSUME SInv, NEW r \in Requests, Refuse(r) PROVE SInv'
<1>1. [NoAnswer EXCEPT !.status = "conflict"] \in Answer
  BY DEF NoAnswer, Answer, Statuses
<1>2. QED
  BY <1>1, AnsweredKeeps DEF Refuse, Answered

LEMMA BusyKeeps == ASSUME SInv, NEW r \in Requests, Busy(r) PROVE SInv'
<1>1. [NoAnswer EXCEPT !.status = "failed"] \in Answer
  BY DEF NoAnswer, Answer, Statuses
<1>2. QED
  BY <1>1, AnsweredKeeps DEF Busy

\* A transaction is rolled back: what it published may stay for now.
LEMMA RollBackKeeps ==
  ASSUME SInv, NEW r \in Requests, lock = r, st[r] = "open", RollBack(r),
         tree' \in [Paths -> Uploads \cup {NoFile}], temp' \subseteq temp,
         \A p \in Paths : tree'[p] # NoFile => tree'[p] = tree[p] \/ tree'[p][1] = r,
         faults' \in [early : Nat, late : Nat, crash : Nat],
         UNCHANGED <<tables, up, req, published, backup>>
  PROVE  SInv'
<1> USE DEF tables
<1>1. [NoAnswer EXCEPT !.status = "failed"] \in Answer
  BY DEF NoAnswer, Answer, Statuses
<1>2. Columns'
  <2>1. st' \in [Requests -> Steps] /\ answer' \in [Requests -> Answer]
    BY <1>1 DEF SInv, Columns, TypeOK, Steps, RollBack
  <2>2. \A q \in Requests : answer'[q].status \in Statuses
    BY <2>1 DEF Answer
  <2>3. temp' \subseteq Uploads
    BY DEF SInv, Columns, TypeOK
  <2>4. QED
    BY <2>1, <2>2, <2>3 DEF SInv, Columns, TypeOK, StorageKeys, RollBack
<1>3. \A q \in Requests : st'[q] = IF q = r THEN "removing" ELSE st[q]
  BY DEF SInv, Columns, TypeOK, RollBack
<1>4. lock' = Nobody
  BY DEF RollBack
<1>5. Locking'
  BY <1>3, <1>4, RequestsAssumption DEF SInv, Locking
<1>6. Linked'
  BY <1>3 DEF SInv, Linked, Columns, TypeOK, Uploads
<1>7. QED
  BY <1>2, <1>3, <1>4, <1>5, <1>6, QuietKeeps

LEMMA TransactionFailsKeeps == ASSUME SInv, NEW r \in Requests, TransactionFails(r) PROVE SInv'
<1>1. faults' \in [early : Nat, late : Nat, crash : Nat]
  BY DEF SInv, Columns, TransactionFails
<1>2. tree' \in [Paths -> Uploads \cup {NoFile}] /\ temp' \subseteq temp
  BY DEF SInv, Columns, TypeOK, TransactionFails, store
<1>3. QED
  BY <1>1, <1>2, RollBackKeeps DEF TransactionFails, store

\* What reconciliation leaves in the directories was there.
LEMMA ReconciledIsOld ==
  ASSUME SInv, NEW d
  PROVE  /\ Reconciled(d) \in [Paths -> Uploads \cup {NoFile}]
         /\ \A p \in Paths : Reconciled(d)[p] # NoFile => Reconciled(d)[p] = tree[p]
BY DEF SInv, Columns, TypeOK, Reconciled

LEMMA PublishFailsKeeps == ASSUME SInv, NEW r \in Requests, PublishFails(r) PROVE SInv'
<1> DEFINE p == NextPath(r)
           u == <<r, Len(published[r]) + 1>>
<1>1. faults' \in [early : Nat, late : Nat, crash : Nat]
  <2>1. faults \in [early : Nat, late : Nat, crash : Nat]
    BY DEF SInv, Columns
  <2>2. \E n \in {faults.late, faults.late + 1} : faults' = [faults EXCEPT !.early = @ + 1, !.late = n]
    BY DEF PublishFails
  <2>3. faults.early + 1 \in Nat /\ faults.late \in Nat /\ faults.late + 1 \in Nat /\ faults.crash \in Nat
    BY <2>1
  <2>4. PICK n \in {faults.late, faults.late + 1} :
          faults' = [early |-> faults.early + 1, late |-> n, crash |-> faults.crash]
    BY <2>1, <2>2
  <2>5. QED
    BY <2>3, <2>4
<1>2. st[r] = "open" /\ lock = r /\ Len(published[r]) < Files(r)
  BY DEF PublishFails
<1>3. u \in Uploads /\ u[1] = r
  <2>1. published[r] \in Seq(Paths) /\ req[r].kind \in AllKinds
    BY <1>2, KindsAssumption DEF SInv, Columns, TypeOK, Asks, Request
  <2>2. Len(published[r]) + 1 \in 1..2
    BY <1>2, <2>1, FewFiles DEF Files
  <2>3. QED
    BY <2>2 DEF Uploads
<1>4. tree' \in {tree, Reconciled(p.doc), [Reconciled(p.doc) EXCEPT ![p] = u]} /\ temp' \in {temp, temp \ {u}}
  BY DEF PublishFails
<1> HIDE DEF u, p
<1>5. tree' \in [Paths -> Uploads \cup {NoFile}]
  BY <1>3, <1>4, ReconciledIsOld DEF SInv, Columns, TypeOK
<1>6. \A q \in Paths : tree'[q] # NoFile => tree'[q] = tree[q] \/ tree'[q][1] = r
  BY <1>3, <1>4, ReconciledIsOld
<1>7. temp' \subseteq temp
  BY <1>4
<1>8. QED
  BY <1>1, <1>2, <1>5, <1>6, <1>7, RollBackKeeps DEF PublishFails

\* Removing what a failed transaction published, a link at a time.
LEMMA CheckOwnKeeps == ASSUME SInv, NEW r \in Requests, CheckOwn(r) PROVE SInv'
<1> USE DEF tables, store
<1>1. st[r] = "removing" /\ published[r] # <<>> /\ published[r] \in Seq(Paths)
  BY DEF CheckOwn, SInv, Columns, TypeOK
<1>2. SubSeq(published[r], 1, Len(published[r]) - 1) \in Seq(Paths)
  BY <1>1
<1>3. \/ st' = [st EXCEPT ![r] = "unlinking"] /\ published' = published
      \/ st' = st /\ published' = [published EXCEPT ![r] = SubSeq(@, 1, Len(@) - 1)]
  BY DEF CheckOwn, Forget
<1>4. \A q \in Requests : q # r => st'[q] = st[q] /\ published'[q] = published[q]
  BY <1>3 DEF SInv, Columns, TypeOK
<1>5. st'[r] \in {"removing", "unlinking"}
  BY <1>1, <1>3 DEF SInv, Columns, TypeOK
<1>6. Columns'
  <2>1. st' \in [Requests -> Steps] /\ published' \in [Requests -> Seq(Paths)]
    BY <1>2, <1>3 DEF SInv, Columns, TypeOK, Steps
  <2>2. QED
    BY <2>1 DEF SInv, Columns, TypeOK, StorageKeys, CheckOwn
<1>7. Locking'
  BY <1>1, <1>4, <1>5 DEF SInv, Locking, CheckOwn
<1>8. Linked'
  BY <1>4, <1>5 DEF SInv, Linked, CheckOwn, Columns, TypeOK, Uploads
<1>9. QED
  BY <1>1, <1>4, <1>5, <1>6, <1>7, <1>8, QuietKeeps DEF CheckOwn

LEMMA UnlinkKeeps == ASSUME SInv, NEW r \in Requests, Unlink(r) PROVE SInv'
<1> USE DEF tables, store
<1>1. st[r] = "unlinking" /\ published[r] \in Seq(Paths)
  BY DEF Unlink, SInv, Columns, TypeOK
<1>2. SubSeq(published[r], 1, Len(published[r]) - 1) \in Seq(Paths)
  <2>1. CASE published[r] = <<>>
    BY <2>1
  <2>2. CASE published[r] # <<>>
    BY <1>1, <2>2
  <2>3. QED
    BY <2>1, <2>2
<1>3. /\ st' = [st EXCEPT ![r] = "removing"]
      /\ published' = [published EXCEPT ![r] = SubSeq(@, 1, Len(@) - 1)]
      /\ tree' = [tree EXCEPT ![Last(r)] = NoFile]
  BY DEF Unlink, Forget
<1>4. \A q \in Requests : st'[q] = IF q = r THEN "removing" ELSE st[q]
  BY <1>3 DEF SInv, Columns, TypeOK
<1>5. \A q \in Requests : q # r => published'[q] = published[q]
  BY <1>3 DEF SInv, Columns, TypeOK
<1>6. Columns'
  <2>1. st' \in [Requests -> Steps] /\ published' \in [Requests -> Seq(Paths)]
    BY <1>2, <1>3 DEF SInv, Columns, TypeOK, Steps
  <2>2. tree' \in [Paths -> Uploads \cup {NoFile}]
    BY <1>3 DEF SInv, Columns, TypeOK
  <2>3. QED
    BY <2>1, <2>2 DEF SInv, Columns, TypeOK, StorageKeys, Unlink
<1>7. Locking'
  BY <1>1, <1>4 DEF SInv, Locking, Unlink
<1>8. \A p \in Paths : tree'[p] # NoFile => tree'[p] = tree[p]
  BY <1>3 DEF SInv, Columns, TypeOK
<1>9. Linked'
  BY <1>4, <1>8 DEF SInv, Linked, Columns, TypeOK, Uploads
<1>10. QED
  BY <1>1, <1>4, <1>5, <1>6, <1>7, <1>9, QuietKeeps DEF Unlink

LEMMA CloseKeeps == ASSUME SInv, NEW r \in Requests, Close(r) PROVE SInv'
<1> USE DEF tables, store
<1>1. st[r] \in {"closing", "removing"} /\ st' = [st EXCEPT ![r] = "done"]
  BY DEF Close
<1>2. \A q \in Requests : st'[q] = IF q = r THEN "done" ELSE st[q]
  BY <1>1 DEF SInv, Columns, TypeOK
<1>3. Columns'
  <2>1. st' \in [Requests -> Steps] /\ temp' \subseteq Uploads
    BY <1>1 DEF SInv, Columns, TypeOK, Steps, Close
  <2>2. QED
    BY <2>1 DEF SInv, Columns, TypeOK, StorageKeys, Close
<1>4. Locking'
  BY <1>1, <1>2 DEF SInv, Locking, Close
<1>5. Linked'
  BY <1>2 DEF SInv, Linked, Close, Columns, TypeOK, Uploads
<1>6. QED
  BY <1>1, <1>2, <1>3, <1>4, <1>5, QuietKeeps DEF Close

\* The program dies with its requests, and comes up again.
LEMMA CrashKeeps == ASSUME SInv, Crash PROVE SInv'
<1> USE DEF tables, store
<1>1. \A q \in Requests : st'[q] = IF st[q] \in {"new", "done"} THEN st[q] ELSE "dead"
  BY DEF Crash
<1>2. lock' = Nobody
  BY DEF Crash
<1>3. Columns'
  <2>1. st' \in [Requests -> Steps]
    BY DEF SInv, Columns, TypeOK, Steps, Crash
  <2>2. NoAnswer \in Answer
    BY DEF NoAnswer, Answer, Statuses
  <2>3. answer' \in [Requests -> Answer]
    BY <2>2 DEF SInv, Columns, Crash
  <2>4. \A q \in Requests : answer'[q].status \in Statuses
    BY <2>3 DEF Answer
  <2>5. faults' \in [early : Nat, late : Nat, crash : Nat]
    BY DEF SInv, Columns, Crash
  <2>6. backup' \in Backup
    BY DEF SInv, Columns, Crash, NoBackup, Backup
  <2>7. up' = FALSE
    BY DEF Crash
  <2>8. backup'.state \in {"idle", "copying", "done"}
    BY <2>6 DEF Backup
  <2>9. QED
    BY <1>2, <2>1, <2>3, <2>4, <2>5, <2>6, <2>7, <2>8 DEF SInv, Columns, TypeOK, StorageKeys, Crash
<1>4. Locking'
  BY <1>1, <1>2, RequestsAssumption DEF Locking
<1>5. Linked'
  BY <1>1 DEF SInv, Linked, Crash, Columns, TypeOK, Uploads
<1>6. QED
  BY <1>1, <1>2, <1>3, <1>4, <1>5, QuietKeeps DEF Crash

\* A step that moves nothing a request has: starting up, and the backup.
LEMMA AsideKeeps ==
  ASSUME SInv, UNCHANGED <<tables, tree, lock, req, st, pending, published, answer, faults>>,
         up' \in BOOLEAN, temp' \subseteq temp, backup' \in Backup
  PROVE  SInv'
<1> USE DEF tables
<1>1. Columns'
  <2>1. temp' \subseteq Uploads
    BY DEF SInv, Columns, TypeOK
  <2>2. backup'.state \in {"idle", "copying", "done"}
    BY DEF Backup
  <2>3. QED
    BY <2>1, <2>2 DEF SInv, Columns, TypeOK, StorageKeys
<1>2. Locking' /\ Linked'
  BY DEF SInv, Locking, Linked
<1>3. QED
  BY <1>1, <1>2, QuietKeeps

LEMMA RestartKeeps == ASSUME SInv, Restart PROVE SInv'
<1>1. backup' \in Backup
  BY DEF SInv, Columns, Restart
<1>2. QED
  BY <1>1, AsideKeeps DEF Restart, requests

LEMMA BackupKeeps ==
  ASSUME SInv, BackUpDatabase \/ CopyFile \/ BackupFails \/ PublishBackup
  PROVE  SInv'
<1>1. backup' \in Backup
  <2>1. CASE BackUpDatabase
    <3>1. docs \in Seq(Document)
      BY DEF SInv, Columns, TypeOK, Document
    <3>2. \A d \in DOMAIN docs : Referenced(docs, d) \subseteq Paths
      <4> SUFFICES ASSUME NEW d \in DOMAIN docs, NEW v \in DOMAIN docs[d].rows
                   PROVE  docs[d].rows[v].path \in Paths
        BY DEF Referenced
      <4>1. docs[d] \in Document
        BY <3>1
      <4>2. docs[d].rows[v] \in Row
        BY <4>1 DEF Document
      <4>3. QED
        BY <4>2 DEF Row
    <3>3. QED
      BY <2>1, <3>1, <3>2 DEF BackUpDatabase, Backup
  <2>2. CASE CopyFile
    <3>1. PICK p \in backup.todo :
            backup' = [backup EXCEPT
              !.todo = @ \ {p},
              !.copied = IF tree[p] = NoFile THEN @ ELSE @ \cup {<<p, Content(tree[p])>>}]
      BY <2>2 DEF CopyFile
    <3>2. p \in Paths /\ backup \in Backup
      BY DEF SInv, Columns, Backup
    <3>3. tree[p] # NoFile => Content(tree[p]) \in Contents
      BY <3>2 DEF SInv, Columns, TypeOK, Linked, Asks, Uploads, Content, Request
    <3> DEFINE got == IF tree[p] = NoFile THEN backup.copied
                      ELSE backup.copied \cup {<<p, Content(tree[p])>>}
    <3>4. got \subseteq Paths \X Contents
      BY <3>2, <3>3 DEF Backup
    <3>5. backup' = [state |-> backup.state, docs |-> backup.docs,
                     todo |-> backup.todo \ {p}, copied |-> got]
      BY <3>1, <3>2 DEF Backup
    <3> HIDE DEF got
    <3>6. QED
      BY <3>2, <3>4, <3>5 DEF Backup
  <2>3. CASE BackupFails
    BY <2>3 DEF BackupFails, NoBackup, Backup
  <2>4. CASE PublishBackup
    BY <2>4 DEF PublishBackup, SInv, Columns, Backup
  <2>5. QED
    BY <2>1, <2>2, <2>3, <2>4
<1>2. UNCHANGED <<tables, store, lock, up, requests, faults>>
  BY DEF BackUpDatabase, CopyFile, BackupFails, PublishBackup
<1>3. up' \in BOOLEAN /\ temp' \subseteq temp
  BY <1>2 DEF SInv, Columns, TypeOK, store
<1>4. QED
  BY <1>1, <1>2, <1>3, AsideKeeps DEF store, requests

-----------------------------------------------------------------------------
(* A request is sent, begins its transaction, publishes and commits.       *)

LEMMA SentKeeps ==
  ASSUME SInv, NEW r \in Requests, st[r] = "new", NEW q \in Request,
         IF q.kind \in NewKinds THEN q.doc = 0 ELSE q.doc \in DOMAIN docs,
         req' = [req EXCEPT ![r] = q], st' = [st EXCEPT ![r] = "staged"],
         temp' = temp \cup {<<r, i>> : i \in 1..FileCount(q.kind)},
         UNCHANGED <<tables, tree, lock, up, pending, published, answer, backup, faults>>
  PROVE  SInv'
<1> USE DEF tables
<1>1. \A p \in Requests : st'[p] = (IF p = r THEN "staged" ELSE st[p]) /\ req'[p] = (IF p = r THEN q ELSE req[p])
  BY DEF SInv, Columns, TypeOK
<1>2. Columns'
  <2>1. q.kind \in AllKinds
    BY KindsAssumption DEF Request
  <2>2. temp' \subseteq Uploads
    <3>1. FileCount(q.kind) \in 0..2
      BY <2>1, FewFiles
    <3>2. \A i \in 1..FileCount(q.kind) : i \in 1..2
      BY <3>1
    <3>3. temp \subseteq Uploads
      BY DEF SInv, Columns, TypeOK
    <3>4. QED
      BY <3>2, <3>3 DEF Uploads
  <2>3. st' \in [Requests -> Steps] /\ req' \in [Requests -> {<<>>} \cup Request]
    BY DEF SInv, Columns, TypeOK, Steps
  <2>4. QED
    BY <2>2, <2>3 DEF SInv, Columns, TypeOK, StorageKeys
<1>3. Locking'
  BY <1>1 DEF SInv, Locking
<1>4. Linked'
  BY <1>1 DEF SInv, Linked, Columns, TypeOK, Uploads
<1>5. QED
  BY <1>1, <1>2, <1>3, <1>4, QuietKeeps

LEMMA StageKeeps == ASSUME SInv, NEW r \in Requests, Stage(r) PROVE SInv'
<1>1. docs \in Seq(Document)
  BY DEF SInv, Columns, TypeOK, Document
<1>2. PICK q \in Asked : /\ req' = [req EXCEPT ![r] = q]
                         /\ temp' = temp \cup {<<r, i>> : i \in 1..FileCount(q.kind)}
  BY DEF Stage
<1>3. q \in Request /\ IF q.kind \in NewKinds THEN q.doc = 0 ELSE q.doc \in DOMAIN docs
  BY <1>1, AskedIsRequest
<1>4. QED
  BY <1>2, <1>3, SentKeeps DEF Stage

LEMMA RetryKeeps == ASSUME SInv, NEW r \in Requests, Retry(r) PROVE SInv'
<1>1. PICK p \in Requests : /\ st[p] # "new" /\ req' = [req EXCEPT ![r] = req[p]]
                            /\ temp' = temp \cup {<<r, i>> : i \in 1..Files(p)}
  BY DEF Retry
<1>2. req[p] \in Request /\ IF req[p].kind \in NewKinds THEN req[p].doc = 0 ELSE req[p].doc \in DOMAIN docs
  BY <1>1 DEF SInv, Asks
<1>3. QED
  BY <1>1, <1>2, SentKeeps DEF Retry, Files

LEMMA BeginKeeps == ASSUME SInv, NEW r \in Requests, Begin(r) PROVE SInv'
<1> USE DEF tables, store
<1>1. /\ st[r] = "staged" /\ lock = Nobody /\ ~Known(r) /\ Acceptable(r)
      /\ Len(docs) + (IF req[r].kind \in NewKinds THEN Files(r) ELSE 0) <= MaxDocs
      /\ req[r].kind = "version" => Len(docs[req[r].doc].rows) < MaxVersions
      /\ lock' = r /\ pending' = docs /\ st' = [st EXCEPT ![r] = "open"]
      /\ UNCHANGED <<tables, store, up, req, published, answer, backup, faults>>
  BY DEF Begin
<1>2. \A q \in Requests : st'[q] = IF q = r THEN "open" ELSE st[q]
  BY <1>1 DEF SInv, Columns, TypeOK
<1>3. Columns'
  <2>1. st' \in [Requests -> Steps] /\ docs \in Seq(Document)
    BY <1>1 DEF SInv, Columns, TypeOK, Steps, Document
  <2>2. QED
    BY <1>1, <2>1 DEF SInv, Columns, TypeOK, StorageKeys
<1>4. Asks'
  BY <1>1, <1>2 DEF SInv, Asks
<1>5. Locking'
  BY <1>1, <1>2, RequestsAssumption DEF SInv, Locking
<1>6. Unpublished' /\ Linked'
  BY <1>1, <1>2 DEF SInv, Unpublished, Linked, Columns, TypeOK, Uploads
<1>7. published[r] = <<>>
  BY <1>1 DEF SInv, Unpublished
<1>8. Transaction'
  <2> SUFFICES (/\ Len(published[r]) <= Files(r)
                /\ published[r] = <<>> => pending = docs
                /\ Keyed(r) => replies[StorageKey(r)] = NoReply
                /\ Drafted(r))'
    BY <1>1, <1>2, RequestsAssumption DEF Transaction, SInv, Locking
  <2>1. /\ Files(r)' = Files(r) /\ Keyed(r)' = Keyed(r) /\ StorageKey(r)' = StorageKey(r)
        /\ published'[r] = <<>> /\ docs' = docs /\ replies' = replies /\ req' = req
    BY <1>1, <1>7 DEF Files, Keyed, StorageKey, Scope
  <2>2. Files(r) \in Nat /\ docs \in Seq(Document)
    <3>1. req[r].kind \in AllKinds /\ docs \in Seq(Document)
      BY <1>1, KindsAssumption DEF SInv, Columns, TypeOK, Document, Asks, Request
    <3>2. Files(r) \in 0..2
      BY <3>1, FewFiles DEF Files
    <3>3. QED
      BY <3>1, <3>2
  <2>3. Keyed(r) => replies[StorageKey(r)] = NoReply
    BY <1>1 DEF Known
  <2>4. CASE req[r].kind \in NewKinds
    BY <1>1, <2>1, <2>2, <2>3, <2>4 DEF Drafted
  <2>5. CASE req[r].kind \notin NewKinds
    <3>1. docs[req[r].doc].rev = req[r].rev
      BY <1>1, <2>5, KindsAssumption DEF Acceptable
    <3>2. QED
      BY <1>1, <2>1, <2>2, <2>3, <2>5, <3>1 DEF Drafted
  <2>6. QED
    BY <2>4, <2>5
<1>9. RowsPlaced'
  BY <1>1 DEF SInv, RowsPlaced, Placed
<1>10. QED
  BY <1>3, <1>4, <1>5, <1>6, <1>8, <1>9 DEF SInv

LEMMA PublishKeeps == ASSUME SInv, NEW r \in Requests, Publish(r) PROVE SInv'
<1> USE DEF tables
<1> DEFINE p == NextPath(r)
           u == <<r, Len(published[r]) + 1>>
<1>1. /\ lock = r /\ st[r] = "open" /\ Len(published[r]) < Files(r)
      /\ tree' = [Reconciled(p.doc) EXCEPT ![p] = u] /\ temp' = temp \ {u}
      /\ pending' = WithFile(r, p)
      /\ published' = [published EXCEPT ![r] = Append(@, p)]
      /\ UNCHANGED <<tables, lock, up, req, st, answer, backup, faults>>
  BY DEF Publish
<1>2. /\ p \in Paths /\ WithFile(r, p) \in Seq(Document) /\ Placed(WithFile(r, p))
  BY <1>1, NextFile
<1>3. req[r] \in Request /\ req[r].kind \in AllKinds /\ published[r] \in Seq(Paths) /\ Files(r) \in 0..2
      /\ docs \in Seq(Document) /\ pending \in Seq(Document)
  BY <1>1, KindsAssumption, FewFiles, RequestsAssumption
     DEF SInv, Columns, TypeOK, Asks, Request, Files, Document
<1>4. Len(published[r]) \in Nat /\ Len(published[r]) + 1 \in 1..2 /\ u \in Uploads /\ u[1] = r
  BY <1>1, <1>3 DEF Uploads
<1>5. Append(published[r], p) \in Seq(Paths) /\ Len(Append(published[r], p)) = Len(published[r]) + 1
  BY <1>2, <1>3
<1>6. published'[r] = Append(published[r], p) /\ \A q \in Requests \ {r} : published'[q] = published[q]
  BY <1>1 DEF SInv, Columns, TypeOK
<1>7. Columns'
  <2>1. tree' \in [Paths -> Uploads \cup {NoFile}]
    BY <1>1, <1>2, <1>4, ReconciledIsOld
  <2>2. published' \in [Requests -> Seq(Paths)] /\ temp' \subseteq Uploads
    BY <1>1, <1>5 DEF SInv, Columns, TypeOK
  <2>3. QED
    BY <1>1, <1>2, <2>1, <2>2 DEF SInv, Columns, TypeOK, StorageKeys
<1>8. Asks' /\ Locking'
  BY <1>1 DEF SInv, Asks, Locking
<1>9. Unpublished'
  BY <1>1, <1>6 DEF SInv, Unpublished
<1>10. Linked'
  <2>1. \A q \in Paths : tree'[q] # NoFile => tree'[q] = tree[q] \/ tree'[q][1] = r
    <3> HIDE DEF u, p
    <3>1. QED
      BY <1>1, <1>4, ReconciledIsOld
  <2>2. QED
    BY <1>1, <2>1 DEF SInv, Linked
<1>11. Transaction'
  <2> SUFFICES (/\ Len(published[r]) <= Files(r)
                /\ published[r] = <<>> => pending = docs
                /\ Keyed(r) => replies[StorageKey(r)] = NoReply
                /\ Drafted(r))'
    BY <1>1 DEF Transaction, SInv, Locking
  <2>1. /\ Files(r)' = Files(r) /\ Keyed(r)' = Keyed(r) /\ StorageKey(r)' = StorageKey(r)
        /\ docs' = docs /\ replies' = replies /\ req' = req
    BY <1>1 DEF Files, Keyed, StorageKey, Scope
  <2>2. Len(published'[r]) = Len(published[r]) + 1 /\ published'[r] # <<>> /\ Len(published'[r]) <= Files(r)
    BY <1>1, <1>3, <1>4, <1>5, <1>6
  <2>3. Keyed(r) => replies[StorageKey(r)] = NoReply
    BY <1>1 DEF SInv, Transaction
  <2>4. Drafted(r)'
    <3>0. Drafted(r) /\ (published[r] = <<>> => pending = docs)
      BY <1>1 DEF SInv, Transaction
    <3>1. CASE req[r].kind \in NewKinds
      <4> DEFINE new == [title |-> p.title, rev |-> 1, archived |-> FALSE,
                         rows |-> <<[path |-> p, content |-> req[r].content]>>]
      <4>1. pending' = Append(pending, new)
        BY <1>1, <3>1 DEF WithFile, NewKinds
      <4>2. Len(new.rows) = 1 /\ new.rows[1].content = req[r].content
        OBVIOUS
      <4>3. /\ Len(docs) + Files(r) <= MaxDocs
            /\ Len(pending) = Len(docs) + Len(published[r])
            /\ \A d \in DOMAIN docs : pending[d] = docs[d]
            /\ \A d \in DOMAIN pending \ DOMAIN docs :
                  Len(pending[d].rows) = 1 /\ pending[d].rows[1].content = req[r].content
        BY <3>0, <3>1 DEF Drafted
      <4> HIDE DEF new
      <4>4. Len(pending') = Len(pending) + 1 /\ (\A d \in 1..Len(pending) : pending'[d] = pending[d])
            /\ pending'[Len(pending) + 1] = new
        BY <1>3, <4>1
      <4>5. \A d \in DOMAIN docs : pending'[d] = docs[d]
        BY <1>3, <1>4, <4>3, <4>4
      <4>6. ASSUME NEW d \in DOMAIN (pending') \ DOMAIN docs
            PROVE  Len(pending'[d].rows) = 1 /\ pending'[d].rows[1].content = req[r].content
        <5>1. d \in 1..(Len(pending) + 1)
          BY <1>2, <1>1, <4>4
        <5>2. CASE d = Len(pending) + 1
          BY <4>2, <4>4, <5>2
        <5>3. CASE d \in 1..Len(pending)
          BY <1>3, <4>3, <4>4, <5>3
        <5>4. QED
          BY <1>3, <5>1, <5>2, <5>3
      <4>7. Len(pending') = Len(docs) + Len(published'[r])
        BY <1>3, <1>4, <2>2, <4>3, <4>4
      <4>8. QED
        BY <2>1, <3>1, <4>3, <4>5, <4>6, <4>7 DEF Drafted
    <3>2. CASE req[r].kind \notin NewKinds
      <4>1. req[r].kind = "version"
        BY <1>1, <1>3, <1>4, <3>2, FewFiles DEF Files, AllKinds, NewKinds
      <4>2. published[r] = <<>> /\ pending = docs
        BY <1>1, <1>3, <1>4, <3>0, <4>1, FewFiles DEF Files
      <4> DEFINE row == [path |-> p, content |-> req[r].content]
      <4>3. row \in Row /\ row.content = req[r].content
        BY <1>2, <1>3 DEF Row, Request
      <4>4. p.doc = req[r].doc
        BY <4>1 DEF NextPath
      <4>5. pending' = [docs EXCEPT ![req[r].doc].rows = Append(@, row),
                                    ![req[r].doc].rev = @ + 1]
        BY <1>1, <4>1, <4>2, <4>4 DEF WithFile
      <4>6. docs[req[r].doc].rev = req[r].rev /\ Len(docs[req[r].doc].rows) < MaxVersions
        BY <3>0, <3>2, <4>1 DEF Drafted
      <4> HIDE DEF row
      <4>7. QED
        BY <2>1, <3>2, <4>3, <4>5, <4>6 DEF Drafted
    <3>3. QED
      BY <3>1, <3>2
  <2>5. QED
    BY <2>1, <2>2, <2>3, <2>4
<1>12. RowsPlaced'
  <2>1. docs' = docs /\ pending' = WithFile(r, p)
    BY <1>1
  <2>2. Placed(docs)' /\ Placed(pending)'
    BY <1>2, <2>1 DEF SInv, RowsPlaced, Placed
  <2>3. QED
    BY <2>2 DEF RowsPlaced
<1>13. QED
  BY <1>7, <1>8, <1>9, <1>10, <1>11, <1>12 DEF SInv

\* The outcome of a transaction: the tables' columns, the rows kept, and how
\* many documents there are.
LEMMA Ends ==
  ASSUME SInv, NEW r \in Requests, st[r] = "open", Len(published[r]) = Files(r)
  PROVE  /\ Outcome(r) \in Seq(Document) /\ Len(Outcome(r)) = Len(pending)
         /\ Len(docs) <= Len(pending) /\ Len(pending) <= MaxDocs
         /\ \A d \in DOMAIN pending : Outcome(r)[d].rows = pending[d].rows
         /\ \A d \in DOMAIN docs : d # req[r].doc => Outcome(r)[d] = docs[d]
         /\ \A d \in DOMAIN docs : \A v \in DOMAIN docs[d].rows :
              v \in DOMAIN pending[d].rows /\ pending[d].rows[v] = docs[d].rows[v]
         /\ Response(r) \in Answer
<1>1. /\ req[r] \in Request /\ req[r].kind \in AllKinds /\ lock = r /\ r # Nobody
      /\ docs \in Seq(Document) /\ pending \in Seq(Document)
      /\ published[r] \in Seq(Paths) /\ Len(docs) <= MaxDocs /\ MaxDocs \in Nat
      /\ published[r] = <<>> => pending = docs
      /\ Drafted(r)
  BY KindsAssumption, RequestsAssumption, BoundsAssumption
     DEF SInv, Columns, TypeOK, Asks, Locking, Transaction, Request, Document
<1>2. IF req[r].kind \in NewKinds THEN req[r].doc = 0 ELSE req[r].doc \in DOMAIN docs
  BY DEF SInv, Asks
<1> DEFINE d == req[r].doc
<1>3. CASE req[r].kind \in NewKinds
  <2>1. Files(r) \in 1..2
    BY <1>1, <1>3, FewFiles DEF Files
  <2>2. /\ Len(docs) + Files(r) <= MaxDocs /\ Len(pending) = Len(docs) + Files(r)
        /\ \A e \in DOMAIN docs : pending[e] = docs[e]
    BY <1>1, <1>3 DEF Drafted
  <2>3. Outcome(r) = pending
    BY <1>3 DEF Outcome, NewKinds
  <2>4. Len(docs) \in Nat /\ Len(docs) <= Len(pending) /\ Len(pending) <= MaxDocs
        /\ Len(pending) \in DOMAIN pending
    BY <1>1, <2>1, <2>2
  <2>5. Response(r) = [status |-> "ok", doc |-> Len(pending), ver |-> Len(pending[Len(pending)].rows)]
    BY <1>2, <1>3 DEF Response
  <2>6. pending[Len(pending)] \in Document
    BY <1>1, <2>4
  <2>7. Len(pending[Len(pending)].rows) \in Nat
    BY <2>6 DEF Document
  <2>8. Response(r) \in Answer
    BY <2>4, <2>5, <2>7 DEF Answer, Statuses
  <2>9. \A e \in DOMAIN docs : \A v \in DOMAIN docs[e].rows :
          v \in DOMAIN pending[e].rows /\ pending[e].rows[v] = docs[e].rows[v]
    BY <2>2
  <2>10. QED
    BY <1>1, <2>2, <2>3, <2>4, <2>8, <2>9
<1>4. CASE req[r].kind \notin NewKinds
  <2>1. d \in DOMAIN docs /\ docs[d] \in Document /\ d \in 1..Len(docs) /\ d # 0
    BY <1>1, <1>2, <1>4
  <2>2. docs[d].rows \in Seq(Row) /\ docs[d].rev \in Nat /\ docs[d].archived \in BOOLEAN
        /\ docs[d].title \in Titles \X (1..2)
    BY <2>1 DEF Document
  <2>3. /\ DOMAIN pending = DOMAIN docs /\ Len(pending) = Len(docs)
        /\ \A e \in DOMAIN docs : e # d => pending[e] = docs[e]
        /\ \A v \in DOMAIN docs[d].rows :
              v \in DOMAIN pending[d].rows /\ pending[d].rows[v] = docs[d].rows[v]
    <3>1. CASE published[r] = <<>>
      BY <1>1, <3>1
    <3>2. CASE published[r] # <<>>
      <4>1. PICK row \in Row : pending = [docs EXCEPT ![d].rows = Append(@, row), ![d].rev = @ + 1]
        BY <1>1, <1>4, <3>2 DEF Drafted
      <4>2. DOMAIN pending = DOMAIN docs /\ (\A e \in DOMAIN docs : e # d => pending[e] = docs[e])
            /\ pending[d].rows = Append(docs[d].rows, row)
        BY <2>1, <4>1 DEF Document
      <4>3. \A v \in DOMAIN docs[d].rows :
              v \in DOMAIN Append(docs[d].rows, row) /\ Append(docs[d].rows, row)[v] = docs[d].rows[v]
        BY <2>2
      <4>4. QED
        BY <1>1, <4>2, <4>3
    <3>3. QED
      BY <3>1, <3>2
  <2>4. \A e \in DOMAIN docs : \A v \in DOMAIN docs[e].rows :
          v \in DOMAIN pending[e].rows /\ pending[e].rows[v] = docs[e].rows[v]
    BY <2>3
  <2>5. pending[d] \in Document /\ pending[d].rows \in Seq(Row) /\ pending[d].rev \in Nat
        /\ pending[d].archived \in BOOLEAN /\ pending[d].title \in Titles \X (1..2)
    <3>1. pending[d] \in Document
      BY <1>1, <2>1, <2>3
    <3>2. QED
      BY <3>1 DEF Document
  <2>6. Response(r) = [status |-> "ok", doc |-> d, ver |-> Len(pending[d].rows)]
    BY <2>1 DEF Response
  <2>7. Response(r) \in Answer
    BY <1>1, <2>1, <2>5, <2>6 DEF Answer, Statuses, Request
  <2>8. \E new \in Document :
          /\ new.rows = pending[d].rows
          /\ Outcome(r) = pending \/ Outcome(r) = [pending EXCEPT ![d] = new]
    <3>1. CASE req[r].kind = "update"
      <4> DEFINE new == [title |-> Title(r, 1), rev |-> pending[d].rev + 1,
                         archived |-> pending[d].archived, rows |-> pending[d].rows]
      <4>1. Title(r, 1) \in Titles \X (1..2)
        BY <1>1 DEF Title, Request
      <4>2. new \in Document
        BY <2>5, <4>1 DEF Document
      <4>3. Outcome(r) = [pending EXCEPT ![d].title = Title(r, 1), ![d].rev = @ + 1]
        BY <3>1 DEF Outcome
      <4>4. Outcome(r) = [pending EXCEPT ![d] = new]
        BY <2>1, <2>3, <2>5, <4>3 DEF Document
      <4>5. QED
        BY <4>2, <4>4
    <3>2. CASE req[r].kind = "archive"
      <4> DEFINE new == [title |-> pending[d].title, rev |-> pending[d].rev + 1,
                         archived |-> TRUE, rows |-> pending[d].rows]
      <4>1. new \in Document
        BY <2>5 DEF Document
      <4>2. Outcome(r) = [pending EXCEPT ![d].archived = TRUE, ![d].rev = @ + 1]
        BY <3>2 DEF Outcome
      <4>3. Outcome(r) = [pending EXCEPT ![d] = new]
        BY <2>1, <2>3, <2>5, <4>2 DEF Document
      <4>4. QED
        BY <4>1, <4>3
    <3>3. CASE req[r].kind \notin {"update", "archive"}
      <4>1. Outcome(r) = pending
        BY <3>3 DEF Outcome
      <4>2. QED
        BY <2>5, <4>1
    <3>4. QED
      BY <3>1, <3>2, <3>3
  <2>9. PICK new \in Document :
          /\ new.rows = pending[d].rows
          /\ Outcome(r) = pending \/ Outcome(r) = [pending EXCEPT ![d] = new]
    BY <2>8
  <2>10. /\ Outcome(r) \in Seq(Document) /\ Len(Outcome(r)) = Len(pending)
         /\ \A e \in DOMAIN pending : Outcome(r)[e].rows = pending[e].rows
         /\ \A e \in DOMAIN docs : e # d => Outcome(r)[e] = docs[e]
    <3>1. CASE Outcome(r) = pending
      BY <1>1, <2>3, <3>1
    <3>2. CASE Outcome(r) = [pending EXCEPT ![d] = new]
      <4> HIDE DEF d
      <4>1. pending \in [1..Len(pending) -> Document] /\ Len(pending) \in Nat
        BY <1>1
      <4>2. Outcome(r) \in [1..Len(pending) -> Document]
        BY <2>9, <3>2, <4>1
      <4>3. QED
        BY <1>1, <2>1, <2>3, <2>9, <3>2, <4>1, <4>2
    <3>3. QED
      BY <2>9, <3>1, <3>2
  <2>11. QED
    BY <1>1, <2>3, <2>4, <2>7, <2>10
<1>5. QED
  BY <1>3, <1>4

LEMMA CommitKeeps == ASSUME SInv, NEW r \in Requests, Commit(r) PROVE SInv'
<1> USE DEF tables, store
<1>1. /\ lock = r /\ st[r] = "open" /\ Len(published[r]) = Files(r)
      /\ docs' = Outcome(r)
      /\ replies' = IF Keyed(r)
                    THEN [replies EXCEPT ![StorageKey(r)] =
                            [payload |-> Payload(r), answer |-> Response(r)]]
                    ELSE replies
      /\ answer' = [answer EXCEPT ![r] = Response(r)]
      /\ lock' = Nobody /\ st' = [st EXCEPT ![r] = "closing"]
      /\ UNCHANGED <<store, up, req, published, backup, faults>>
  BY DEF Commit
<1>2. \A q \in Requests : st'[q] = IF q = r THEN "closing" ELSE st[q]
  BY <1>1 DEF SInv, Columns, TypeOK
<1>3. /\ Outcome(r) \in Seq(Document) /\ Len(Outcome(r)) = Len(pending)
      /\ Len(docs) <= Len(pending) /\ Len(pending) <= MaxDocs
      /\ \A d \in DOMAIN pending : Outcome(r)[d].rows = pending[d].rows
      /\ Response(r) \in Answer
  BY <1>1, Ends
<1>4. docs \in Seq(Document) /\ pending \in Seq(Document) /\ Placed(pending)
  BY <1>1, RequestsAssumption DEF SInv, Columns, TypeOK, RowsPlaced, Document
<1>5. Columns'
  <2>1. st' \in [Requests -> Steps] /\ answer' \in [Requests -> Answer]
    BY <1>1, <1>3 DEF SInv, Columns, TypeOK, Steps
  <2>2. \A q \in Requests : answer'[q].status \in Statuses
    BY <2>1 DEF Answer
  <2>3. replies' \in [StorageKeys -> Reply]
    <3>1. CASE Keyed(r)
      <4>1. [payload |-> Payload(r), answer |-> Response(r)] \in Reply
        BY <1>1, <1>3, KeysStored DEF SInv, Reply
      <4>2. QED
        BY <1>1, <3>1, <4>1 DEF SInv, Columns
    <3>2. CASE ~Keyed(r)
      BY <1>1, <3>2 DEF SInv, Columns
    <3>3. QED
      BY <3>1, <3>2
  <2>4. Len(docs') <= MaxDocs /\ docs' \in Seq(Document)
    BY <1>1, <1>3
  <2>5. QED
    BY <1>1, <2>1, <2>2, <2>3, <2>4 DEF SInv, Columns, TypeOK, StorageKeys, Document
<1>6. Asks'
  <2>1. DOMAIN docs \subseteq DOMAIN (docs')
    BY <1>1, <1>3, <1>4
  <2>2. QED
    BY <1>1, <1>2, <2>1 DEF SInv, Asks
<1>7. \A q \in Requests : st'[q] # "open"
  BY <1>1, <1>2 DEF SInv, Locking
<1>8. Locking' /\ Transaction'
  BY <1>1, <1>7, RequestsAssumption DEF Locking, Transaction
<1>9. Unpublished' /\ Linked'
  BY <1>1, <1>2 DEF SInv, Unpublished, Linked, Columns, TypeOK, Uploads
<1>10. RowsPlaced'
  <2>1. DOMAIN (docs') = DOMAIN pending
    BY <1>1, <1>3, <1>4
  <2>2. QED
    BY <1>1, <1>3, <1>4, <2>1 DEF RowsPlaced, Placed
<1>11. QED
  BY <1>5, <1>6, <1>8, <1>9, <1>10 DEF SInv

-----------------------------------------------------------------------------
(* What holds whatever fails.                                              *)

\* The initial state, and every step.
LEMMA SInitially == Init => SInv
<1> SUFFICES ASSUME Init PROVE SInv
  OBVIOUS
<1> USE DEF Init
<1>1. NoAnswer \in Answer /\ NoReply \in Reply /\ NoBackup \in Backup
  BY DEF NoAnswer, NoReply, NoBackup, Answer, Reply, Backup, Statuses
<1>2. Len(docs) = 0 /\ MaxDocs \in Nat /\ docs \in Seq(Document) /\ pending \in Seq(Document)
  BY BoundsAssumption
<1>3. TypeOK
  <2>1. \A q \in Requests : answer[q].status \in Statuses
    BY <1>1 DEF Answer
  <2>2. backup.state \in {"idle", "copying", "done"}
    BY <1>1 DEF Backup
  <2>3. published \in [Requests -> Seq(Paths)] /\ st \in [Requests -> Steps]
    BY DEF Steps
  <2>4. QED
    BY <1>2, <2>1, <2>2, <2>3 DEF TypeOK, Document
<1>4. Columns
  BY <1>1, <1>2, <1>3 DEF Columns
<1>5. Asks /\ Locking /\ Unpublished /\ Linked /\ Transaction
  BY RequestsAssumption DEF Asks, Locking, Unpublished, Linked, Transaction
<1>6. RowsPlaced
  BY <1>2 DEF RowsPlaced, Placed
<1>7. QED
  BY <1>4, <1>5, <1>6 DEF SInv

LEMMA SKept == SInv /\ [Next]_vars => SInv'
<1> SUFFICES ASSUME SInv, [Next]_vars PROVE SInv'
  OBVIOUS
<1>1. CASE \E r \in Requests :
             \/ Stage(r) \/ Retry(r) \/ Replay(r) \/ Refuse(r) \/ Busy(r)
             \/ Begin(r) \/ Publish(r) \/ PublishFails(r) \/ TransactionFails(r)
             \/ Commit(r) \/ CheckOwn(r) \/ Unlink(r) \/ Close(r)
  BY <1>1, StageKeeps, RetryKeeps, ReplayKeeps, RefuseKeeps, BusyKeeps, BeginKeeps, PublishKeeps,
     PublishFailsKeeps, TransactionFailsKeeps, CommitKeeps, CheckOwnKeeps, UnlinkKeeps, CloseKeeps
<1>2. CASE Crash \/ Restart
  BY <1>2, CrashKeeps, RestartKeeps
<1>3. CASE BackUpDatabase \/ CopyFile \/ BackupFails \/ PublishBackup
  BY <1>3, BackupKeeps
<1>4. CASE UNCHANGED vars
  <2>1. temp' \subseteq temp /\ up' \in BOOLEAN /\ backup' \in Backup
    BY <1>4 DEF vars, store, SInv, Columns, TypeOK
  <2>2. QED
    BY <1>4, <2>1, AsideKeeps DEF vars, store, requests
<1>5. QED
  BY <1>1, <1>2, <1>3, <1>4 DEF Next

LEMMA SInvariant == Spec => []SInv
<1>1. QED
  BY SInitially, SKept, PTL DEF Spec

\* Tables, files, requests and the backup keep their types: the ids and version
\* numbers that transactions hand out stay within the bounds.
THEOREM StoreTyped == Spec => []TypeOK
<1>1. SInv => TypeOK
  BY DEF SInv, Columns
<1>2. QED
  BY <1>1, SInvariant, PTL

\* No edit, version or archiving overwrites one its author had not seen: who
\* holds the write lock compared the revision after taking it.
THEOREM EditsSeen == Spec => NoLostUpdate
<1>1. ASSUME SInv, [Next]_vars, NEW d \in DOMAIN docs, docs'[d] # docs[d]
      PROVE  \E r \in Requests : lock = r /\ req[r].doc = d /\ req[r].rev = docs[d].rev
  <2>1. PICK r \in Requests : Commit(r)
    BY <1>1 DEF Next, vars, tables, store, Stage, Retry, Replay, Refuse, Busy, Answered, Begin, Publish,
       PublishFails, TransactionFails, CheckOwn, Unlink, Close, Crash, Restart, BackUpDatabase,
       CopyFile, BackupFails, PublishBackup
  <2>2. lock = r /\ st[r] = "open" /\ docs' = Outcome(r) /\ Len(published[r]) = Files(r)
    BY <2>1 DEF Commit
  <2>3. d = req[r].doc
    BY <1>1, <2>2, Ends
  <2>4. req[r].kind \notin NewKinds
    <3>1. docs \in Seq(Document)
      BY <1>1 DEF SInv, Columns, TypeOK, Document
    <3>2. d # 0
      BY <1>1, <3>1
    <3>3. QED
      BY <1>1, <2>2, <2>3, <3>2 DEF SInv, Asks
  <2>5. QED
    BY <1>1, <2>2, <2>3, <2>4 DEF SInv, Transaction, Drafted
<1>2. SInv /\ [Next]_vars =>
        [\A d \in DOMAIN docs : docs'[d] # docs[d] =>
           \E r \in Requests : lock = r /\ req[r].doc = d /\ req[r].rev = docs[d].rev]_vars
  BY <1>1
<1>3. QED
  BY <1>2, SInvariant, PTL DEF Spec, NoLostUpdate

\* Whoever repeats a request that was carried out is told what the first was:
\* the stored answer of a key is written once, and consulted under the lock.
THEOREM RepeatedAnswered == Spec => RetryIsAnswered
<1>1. ASSUME SInv, [Next]_vars, NEW r \in Requests, answer'[r] # answer[r],
             answer'[r].status \in {"ok", "conflict", "key_reused"},
             Keyed(r), replies[StorageKey(r)].payload = Payload(r)
      PROVE  answer'[r] = replies[StorageKey(r)].answer
  <2>1. answer \in [Requests -> Answer]
    BY <1>1 DEF SInv, Columns
  <2>2. CASE \E q \in Requests : Replay(q)
    <3>1. PICK q \in Requests : Replay(q)
      BY <2>2
    <3>2. q = r
      BY <1>1, <2>1, <3>1 DEF Replay, Answered
    <3>3. QED
      BY <1>1, <2>1, <3>1, <3>2 DEF Replay, Answered
  <2>3. CASE \E q \in Requests : Refuse(q)
    <3>1. PICK q \in Requests : Refuse(q)
      BY <2>3
    <3>2. q = r /\ st[r] = "staged"
      BY <1>1, <2>1, <3>1 DEF Refuse, Answered
    <3>3. replies[StorageKey(r)] = NoReply
      BY <1>1, <3>1, <3>2 DEF Refuse, Known
    <3>4. Payload(r) # <<>>
      BY <1>1, <3>2, KeysStored DEF SInv
    <3>5. QED
      BY <1>1, <3>3, <3>4 DEF NoReply
  <2>4. CASE \E q \in Requests : Commit(q)
    <3>1. PICK q \in Requests : Commit(q)
      BY <2>4
    <3>2. q = r /\ st[r] = "open"
      BY <1>1, <2>1, <3>1 DEF Commit
    <3>3. replies[StorageKey(r)] = NoReply
      BY <1>1, <3>2 DEF SInv, Transaction
    <3>4. Payload(r) # <<>>
      BY <1>1, <3>2, KeysStored DEF SInv
    <3>5. QED
      BY <1>1, <3>3, <3>4 DEF NoReply
  <2>5. CASE \E q \in Requests : Busy(q) \/ PublishFails(q) \/ TransactionFails(q)
    <3>1. PICK q \in Requests : answer' = [answer EXCEPT ![q] = [NoAnswer EXCEPT !.status = "failed"]]
      BY <2>5 DEF Busy, PublishFails, TransactionFails, RollBack
    <3>2. answer'[r].status = "failed"
      BY <1>1, <2>1, <3>1 DEF NoAnswer
    <3>3. QED
      BY <1>1, <3>2
  <2>6. CASE Crash
    BY <1>1, <2>1, <2>6 DEF Crash, NoAnswer
  <2>7. CASE UNCHANGED answer
    BY <1>1, <2>7
  <2>8. QED
    BY <1>1, <2>2, <2>3, <2>4, <2>5, <2>6, <2>7
       DEF Next, vars, requests, Stage, Retry, Begin, Publish, CheckOwn, Unlink, Close, Restart,
           BackUpDatabase, CopyFile, BackupFails, PublishBackup
<1>2. SInv /\ [Next]_vars =>
        [\A r \in Requests :
           /\ answer'[r] # answer[r] /\ answer'[r].status \in {"ok", "conflict", "key_reused"}
           /\ Keyed(r) /\ replies[StorageKey(r)].payload = Payload(r)
           => answer'[r] = replies[StorageKey(r)].answer]_vars
  BY <1>1
<1>3. QED
  BY <1>2, SInvariant, PTL DEF Spec, RetryIsAnswered

\* Once the program is up, every staged file belongs to a request in progress:
\* requests discard theirs, and a start removes those of the dead.
THEOREM StagedLive == Spec => []StagedFilesAreLive
<1>1. Init => StagedFilesAreLive
  BY DEF Init, StagedFilesAreLive
<1>2. SInv /\ StagedFilesAreLive /\ [Next]_vars => StagedFilesAreLive'
  <2> SUFFICES ASSUME SInv, StagedFilesAreLive, [Next]_vars, up', NEW u \in temp'
               PROVE  st'[u[1]] \notin {"new", "done", "dead"}
    BY DEF StagedFilesAreLive
  <2>0. st \in [Requests -> Steps] /\ temp \subseteq Uploads
    BY DEF SInv, Columns, TypeOK
  <2>1. CASE \E r \in Requests : Stage(r) \/ Retry(r)
    <3>1. PICK r \in Requests : Stage(r) \/ Retry(r)
      BY <2>1
    <3>2. st' = [st EXCEPT ![r] = "staged"] /\ up
      BY <3>1 DEF Stage, Retry
    <3>3. u \in temp \/ u[1] = r
      <4>1. \E n : temp' = temp \cup {<<r, i>> : i \in 1..n}
        BY <3>1 DEF Stage, Retry
      <4>2. PICK n : temp' = temp \cup {<<r, i>> : i \in 1..n}
        BY <4>1
      <4>3. u \in temp \/ \E i : u = <<r, i>>
        BY <4>2
      <4>4. QED
        BY <4>3
    <3>4. QED
      BY <2>0, <3>2, <3>3 DEF StagedFilesAreLive, Uploads
  <2>2. CASE \E r \in Requests : \/ Replay(r) \/ Refuse(r) \/ Busy(r) \/ Begin(r) \/ Commit(r)
                                 \/ TransactionFails(r) \/ CheckOwn(r) \/ Unlink(r) \/ Publish(r) \/ PublishFails(r)
    <3>1. PICK r \in Requests : \/ Replay(r) \/ Refuse(r) \/ Busy(r) \/ Begin(r) \/ Commit(r)
                                \/ TransactionFails(r) \/ CheckOwn(r) \/ Unlink(r) \/ Publish(r) \/ PublishFails(r)
      BY <2>2
    <3>2. /\ up /\ temp' \subseteq temp
          /\ st' = st \/ \E x \in {"closing", "open", "removing", "unlinking"} : st' = [st EXCEPT ![r] = x]
      BY <3>1 DEF Replay, Refuse, Busy, Answered, Begin, Commit, TransactionFails, CheckOwn, Unlink,
                  Publish, PublishFails, RollBack, store
    <3>3. QED
      BY <2>0, <3>2 DEF StagedFilesAreLive, Uploads
  <2>3. CASE \E r \in Requests : Close(r)
    BY <2>0, <2>3 DEF StagedFilesAreLive, Uploads, Close
  <2>4. CASE Crash
    BY <2>4 DEF Crash
  <2>5. CASE Restart
    BY <2>5 DEF Restart
  <2>6. CASE BackUpDatabase \/ CopyFile \/ BackupFails \/ PublishBackup \/ UNCHANGED vars
    BY <2>6 DEF StagedFilesAreLive, BackUpDatabase, CopyFile, BackupFails, PublishBackup, vars, store, requests
  <2>7. QED
    BY <2>1, <2>2, <2>3, <2>4, <2>5, <2>6 DEF Next
<1>3. QED
  BY <1>1, <1>2, SInvariant, PTL DEF Spec

-----------------------------------------------------------------------------
(* What failed requests leave in Data/Projects, whatever fails.            *)

Listed(list, p) == \E i \in 1..Len(list) : list[i] = p

\* Before its transaction a request has no link; during it, it knows its links.
LinksKnown ==
  \A p \in Paths : tree[p] # NoFile =>
    /\ st[tree[p][1]] \notin {"new", "staged"}
    /\ st[tree[p][1]] = "open" => Listed(published[tree[p][1]], p)

\* A failed request is not closed before its list of links is empty.
AllTakenBack ==
  \A r \in Requests :
    st[r] \in {"closing", "done"} /\ answer[r].status = "failed" => published[r] = <<>>

\* The links of failed requests that nobody will take back.
Stray ==
  {p \in Paths : /\ tree[p] # NoFile
                 /\ answer[tree[p][1]].status = "failed"
                 /\ ~Listed(published[tree[p][1]], p)}

FewStray == IsFiniteSet(Stray) /\ Cardinality(Stray) <= faults.early

LInv == LinksKnown /\ AllTakenBack /\ FewStray

LEMMA NoMoreStray ==
  ASSUME SInv, FewStray, Stray' \subseteq Stray, faults'.early = faults.early
  PROVE  FewStray'
<1>1. IsFiniteSet(Stray') /\ Cardinality(Stray') <= Cardinality(Stray)
  BY FS_Subset DEF FewStray
<1>2. Cardinality(Stray) \in Nat /\ Cardinality(Stray') \in Nat
  BY <1>1, FS_CardinalityType DEF FewStray
<1>3. faults.early \in Nat
  BY DEF SInv, Columns
<1>4. QED
  BY <1>1, <1>2, <1>3 DEF FewStray

\* A failing publication leaves at most its one link outside the list.
LEMMA OneMoreStray ==
  ASSUME SInv, FewStray, NEW p, Stray' \subseteq Stray \cup {p}, faults'.early = faults.early + 1
  PROVE  FewStray'
<1>1. IsFiniteSet(Stray \cup {p}) /\ Cardinality(Stray \cup {p}) <= Cardinality(Stray) + 1
  <2>1. IsFiniteSet(Stray) /\ Cardinality(Stray) \in Nat
    BY FS_CardinalityType DEF FewStray
  <2>2. /\ IsFiniteSet(Stray \cup {p})
        /\ Cardinality(Stray \cup {p}) = IF p \in Stray THEN Cardinality(Stray) ELSE Cardinality(Stray) + 1
    BY <2>1, FS_AddElement
  <2>3. QED
    BY <2>1, <2>2
<1>2. IsFiniteSet(Stray') /\ Cardinality(Stray') <= Cardinality(Stray \cup {p})
  BY <1>1, FS_Subset
<1>3. faults.early \in Nat /\ Cardinality(Stray) \in Nat /\ Cardinality(Stray') \in Nat
      /\ Cardinality(Stray \cup {p}) \in Nat
  BY <1>1, <1>2, FS_CardinalityType DEF SInv, Columns, FewStray
<1>4. QED
  BY <1>1, <1>2, <1>3 DEF FewStray

\* A step of one request that links nothing, takes its last link back or forgets
\* it where it is not its own, and fails only with its links listed.
LEMMA LinksAfter ==
  ASSUME SInv, LInv, NEW r \in Requests,
         \A q \in Requests : q # r =>
           st'[q] = st[q] /\ published'[q] = published[q] /\ answer'[q] = answer[q],
         st'[r] = "open" => st[r] \in {"staged", "open"},
         st'[r] \in {"new", "staged"} => st[r] \in {"new", "staged"},
         \A p \in Paths : tree'[p] # NoFile => tree'[p] = tree[p],
         \A p \in Paths : tree'[p] # NoFile /\ tree'[p][1] = r /\ Listed(published[r], p) => Listed(published'[r], p),
         st'[r] \in {"closing", "done"} /\ answer'[r].status = "failed" => published'[r] = <<>>,
         answer'[r] = answer[r] \/ st[r] \in {"staged", "open"},
         faults'.early = faults.early
  PROVE  LInv'
<1>1. \A p \in Paths : tree[p] # NoFile => tree[p][1] \in Requests
  BY DEF SInv, Columns, TypeOK, Uploads
<1>2. LinksKnown'
  <2> SUFFICES ASSUME NEW p \in Paths, tree'[p] # NoFile
               PROVE  /\ st'[tree'[p][1]] \notin {"new", "staged"}
                      /\ st'[tree'[p][1]] = "open" => Listed(published'[tree'[p][1]], p)
    BY DEF LinksKnown
  <2>1. tree'[p] = tree[p] /\ tree[p] # NoFile
    OBVIOUS
  <2>2. st[tree[p][1]] \notin {"new", "staged"} /\ (st[tree[p][1]] = "open" => Listed(published[tree[p][1]], p))
    BY <2>1 DEF LInv, LinksKnown
  <2>3. CASE tree[p][1] = r
    BY <2>1, <2>2, <2>3
  <2>4. CASE tree[p][1] # r
    BY <1>1, <2>1, <2>2, <2>4 DEF Listed
  <2>5. QED
    BY <2>3, <2>4
<1>3. AllTakenBack'
  BY DEF LInv, AllTakenBack
<1>4. Stray' \subseteq Stray
  <2> SUFFICES ASSUME NEW p \in Paths, tree'[p] # NoFile, answer'[tree'[p][1]].status = "failed",
                      ~Listed(published'[tree'[p][1]], p)
               PROVE  p \in Stray
    BY DEF Stray
  <2>1. tree'[p] = tree[p] /\ tree[p] # NoFile /\ tree[p][1] \in Requests
    BY <1>1
  <2>2. st[tree[p][1]] \notin {"new", "staged"} /\ (st[tree[p][1]] = "open" => Listed(published[tree[p][1]], p))
    BY <2>1 DEF LInv, LinksKnown
  <2>3. CASE tree[p][1] = r
    BY <2>1, <2>2, <2>3 DEF Stray
  <2>4. CASE tree[p][1] # r
    BY <2>1, <2>4 DEF Stray, Listed
  <2>5. QED
    BY <2>3, <2>4
<1>5. QED
  BY <1>2, <1>3, <1>4, NoMoreStray DEF LInv

\* Nothing but the step of one request that only asks, answers, ends or takes back.
LEMMA LinksOfRequest ==
  ASSUME SInv, LInv, NEW r \in Requests,
         \/ Stage(r) \/ Retry(r) \/ Replay(r) \/ Refuse(r) \/ Busy(r) \/ Begin(r)
         \/ TransactionFails(r) \/ Commit(r) \/ CheckOwn(r) \/ Unlink(r) \/ Close(r)
  PROVE  LInv'
<1> USE DEF tables, store
<1>1. /\ st \in [Requests -> Steps] /\ published \in [Requests -> Seq(Paths)]
      /\ answer \in [Requests -> Answer] /\ tree \in [Paths -> Uploads \cup {NoFile}]
      /\ faults \in [early : Nat, late : Nat, crash : Nat]
  BY DEF SInv, Columns, TypeOK
<1>2. CASE Stage(r) \/ Retry(r)
  <2>1. /\ st[r] = "new" /\ st' = [st EXCEPT ![r] = "staged"]
        /\ UNCHANGED <<tree, published, answer, faults>>
    BY <1>2 DEF Stage, Retry
  <2>2. QED
    BY <1>1, <2>1, LinksAfter
<1>3. CASE Replay(r) \/ Refuse(r) \/ Busy(r)
  <2>1. /\ st[r] = "staged" /\ st' = [st EXCEPT ![r] = "closing"]
        /\ \A q \in Requests : q # r => answer'[q] = answer[q]
        /\ UNCHANGED <<tree, published, faults>>
    BY <1>1, <1>3 DEF Replay, Refuse, Busy, Answered, Known
  <2>2. published[r] = <<>>
    BY <2>1 DEF SInv, Unpublished
  <2>3. QED
    BY <1>1, <2>1, <2>2, LinksAfter
<1>4. CASE Begin(r)
  BY <1>1, <1>4, LinksAfter DEF Begin
<1>5. CASE TransactionFails(r)
  <2>1. /\ st[r] = "open" /\ st' = [st EXCEPT ![r] = "removing"]
        /\ \A q \in Requests : q # r => answer'[q] = answer[q]
        /\ UNCHANGED <<tree, published>> /\ faults'.early = faults.early
    BY <1>1, <1>5 DEF TransactionFails, RollBack
  <2>2. QED
    BY <1>1, <2>1, LinksAfter
<1>6. CASE Commit(r)
  <2>1. /\ st[r] = "open" /\ st' = [st EXCEPT ![r] = "closing"]
        /\ answer' = [answer EXCEPT ![r] = Response(r)] /\ Response(r).status = "ok"
        /\ UNCHANGED <<tree, published, faults>>
    BY <1>6 DEF Commit, Response
  <2>2. answer'[r].status = "ok"
    BY <1>1, <2>1
  <2>3. QED
    BY <1>1, <2>1, <2>2, LinksAfter
<1>7. CASE CheckOwn(r)
  <2>1. /\ st[r] = "removing" /\ published[r] # <<>> /\ published[r] \in Seq(Paths)
        /\ UNCHANGED <<tree, answer, faults>>
    BY <1>1, <1>7 DEF CheckOwn
  <2>2. CASE Own(r)
    BY <1>1, <1>7, <2>1, <2>2, LinksAfter DEF CheckOwn
  <2>3. CASE ~Own(r)
    <3>1. st' = st /\ published' = [published EXCEPT ![r] = SubSeq(@, 1, Len(@) - 1)]
      BY <1>7, <2>3 DEF CheckOwn, Forget
    <3>2. \A p \in Paths : tree[p] # NoFile /\ tree[p][1] = r => p # Last(r)
      BY <2>3 DEF Own, Content
    <3>3. \A p \in Paths : Listed(published[r], p) /\ p # Last(r) => Listed(published'[r], p)
      BY <1>1, <2>1, <3>1 DEF Listed, Last
    <3>4. QED
      BY <1>1, <2>1, <3>1, <3>2, <3>3, LinksAfter
  <2>4. QED
    BY <2>2, <2>3
<1>8. CASE Unlink(r)
  <2>1. /\ st[r] = "unlinking" /\ st' = [st EXCEPT ![r] = "removing"]
        /\ published[r] \in Seq(Paths) /\ published' = [published EXCEPT ![r] = SubSeq(@, 1, Len(@) - 1)]
        /\ tree' = [tree EXCEPT ![Last(r)] = NoFile]
        /\ UNCHANGED <<answer, faults>>
    BY <1>1, <1>8 DEF Unlink, Forget
  <2>2. \A p \in Paths : tree'[p] # NoFile => tree'[p] = tree[p] /\ p # Last(r)
    BY <1>1, <2>1
  <2>3. \A p \in Paths : Listed(published[r], p) /\ p # Last(r) => Listed(published'[r], p)
    BY <1>1, <2>1 DEF Listed, Last
  <2>4. QED
    BY <1>1, <2>1, <2>2, <2>3, LinksAfter
<1>9. CASE Close(r)
  <2>1. /\ st' = [st EXCEPT ![r] = "done"] /\ UNCHANGED <<tree, published, answer, faults>>
        /\ st[r] # "closing" => st[r] = "removing" /\ published[r] = <<>>
    BY <1>9 DEF Close
  <2>2. QED
    BY <1>1, <2>1, LinksAfter DEF LInv, AllTakenBack
<1>10. QED
  BY <1>2, <1>3, <1>4, <1>5, <1>6, <1>7, <1>8, <1>9

LEMMA LinksPublished == ASSUME SInv, LInv, NEW r \in Requests, Publish(r) PROVE LInv'
<1> DEFINE p == NextPath(r)
           u == <<r, Len(published[r]) + 1>>
<1>1. /\ st[r] = "open" /\ Len(published[r]) < Files(r) /\ st \in [Requests -> Steps]
      /\ published \in [Requests -> Seq(Paths)] /\ tree \in [Paths -> Uploads \cup {NoFile}]
  BY DEF Publish, SInv, Columns, TypeOK
<1>2. p \in Paths
  BY <1>1, NextFile
<1>3. /\ tree' = [Reconciled(p.doc) EXCEPT ![p] = u]
      /\ published' = [published EXCEPT ![r] = Append(@, p)]
      /\ UNCHANGED <<st, answer, faults>>
  BY DEF Publish
<1>4. u[1] = r
  OBVIOUS
<1> HIDE DEF u, p
<1>5. \A q \in Paths : tree'[q] # NoFile =>
        IF tree'[q] = tree[q] THEN tree[q] # NoFile ELSE q = p /\ tree'[q][1] = r
  BY <1>2, <1>3, <1>4, ReconciledIsOld
<1>6. Listed(published'[r], p)
  BY <1>1, <1>2, <1>3 DEF Listed
<1>7. \A q \in Requests : \A o \in Paths : Listed(published[q], o) => Listed(published'[q], o)
  <2>1. published[r] \in Seq(Paths) /\ published'[r] = Append(published[r], p)
    BY <1>1, <1>3
  <2>2. \A o \in Paths : Listed(published[r], o) => Listed(published'[r], o)
    BY <1>2, <2>1 DEF Listed
  <2>3. QED
    BY <1>1, <1>3, <2>2
<1>8. \A q \in Paths : tree[q] # NoFile => tree[q][1] \in Requests
  BY <1>1 DEF Uploads
<1>9. LinksKnown'
  BY <1>1, <1>3, <1>5, <1>6, <1>7, <1>8 DEF LInv, LinksKnown
<1>10. AllTakenBack'
  BY <1>1, <1>3 DEF LInv, AllTakenBack
<1>11. Stray' \subseteq Stray
  BY <1>3, <1>5, <1>6, <1>7, <1>8 DEF Stray
<1>12. QED
  BY <1>3, <1>9, <1>10, <1>11, NoMoreStray DEF LInv

\* The one step that can leave a link nobody has listed.
LEMMA LinksOfFailure == ASSUME SInv, LInv, NEW r \in Requests, PublishFails(r) PROVE LInv'
<1> DEFINE p == NextPath(r)
           u == <<r, Len(published[r]) + 1>>
<1>1. /\ st[r] = "open" /\ Len(published[r]) < Files(r) /\ st \in [Requests -> Steps]
      /\ answer \in [Requests -> Answer] /\ faults \in [early : Nat, late : Nat, crash : Nat]
      /\ tree \in [Paths -> Uploads \cup {NoFile}]
  BY DEF PublishFails, SInv, Columns, TypeOK
<1>2. p \in Paths
  BY <1>1, NextFile
<1>3. /\ tree' \in {tree, Reconciled(p.doc), [Reconciled(p.doc) EXCEPT ![p] = u]}
      /\ st' = [st EXCEPT ![r] = "removing"] /\ UNCHANGED published
      /\ \A q \in Requests : q # r => answer'[q] = answer[q]
  BY <1>1 DEF PublishFails, RollBack
<1>4. faults'.early = faults.early + 1
  BY <1>1 DEF PublishFails
<1>5. u[1] = r
  OBVIOUS
<1> HIDE DEF u, p
<1>6. \A q \in Paths : tree'[q] # NoFile =>
        IF tree'[q] = tree[q] THEN tree[q] # NoFile ELSE q = p /\ tree'[q][1] = r
  BY <1>2, <1>3, <1>5, ReconciledIsOld
<1>7. \A q \in Paths : tree[q] # NoFile => tree[q][1] \in Requests
  BY <1>1 DEF Uploads
<1>8. LinksKnown'
  BY <1>1, <1>3, <1>6, <1>7 DEF LInv, LinksKnown
<1>9. AllTakenBack'
  BY <1>1, <1>3 DEF LInv, AllTakenBack
<1>10. Stray' \subseteq Stray \cup {p}
  <2> SUFFICES ASSUME NEW q \in Paths, q # p, tree'[q] # NoFile,
                      answer'[tree'[q][1]].status = "failed", ~Listed(published'[tree'[q][1]], q)
               PROVE  q \in Stray
    BY DEF Stray
  <2>1. tree'[q] = tree[q] /\ tree[q] # NoFile /\ tree[q][1] \in Requests
    BY <1>6, <1>7
  <2>2. tree[q][1] # r
    BY <1>1, <1>3, <2>1 DEF LInv, LinksKnown
  <2>3. QED
    BY <1>3, <2>1, <2>2 DEF Stray
<1>11. QED
  BY <1>4, <1>8, <1>9, <1>10, OneMoreStray DEF LInv

\* A crash leaves links, and nobody is told of a failure.
LEMMA LinksAside ==
  ASSUME SInv, LInv,
         Crash \/ Restart \/ BackUpDatabase \/ CopyFile \/ BackupFails \/ PublishBackup \/ UNCHANGED vars
  PROVE  LInv'
<1>1. /\ st \in [Requests -> Steps] /\ answer \in [Requests -> Answer]
      /\ tree \in [Paths -> Uploads \cup {NoFile}]
      /\ faults \in [early : Nat, late : Nat, crash : Nat]
  BY DEF SInv, Columns, TypeOK
<1>2. \A p \in Paths : tree[p] # NoFile => tree[p][1] \in Requests
  BY <1>1 DEF Uploads
<1>3. CASE Crash
  <2>1. /\ \A r \in Requests : st'[r] = IF st[r] \in {"new", "done"} THEN st[r] ELSE "dead"
        /\ \A r \in Requests : answer'[r] = IF st[r] = "done" THEN answer[r] ELSE NoAnswer
        /\ UNCHANGED <<tree, published>> /\ faults'.early = faults.early
    BY <1>1, <1>3 DEF Crash, store
  <2>2. LinksKnown'
    BY <1>2, <2>1 DEF LInv, LinksKnown
  <2>3. AllTakenBack'
    BY <2>1 DEF LInv, AllTakenBack, NoAnswer
  <2>4. Stray' \subseteq Stray
    BY <1>2, <2>1 DEF Stray, NoAnswer
  <2>5. QED
    BY <2>1, <2>2, <2>3, <2>4, NoMoreStray DEF LInv
<1>4. CASE ~Crash
  <2>1. CASE Restart \/ BackUpDatabase \/ CopyFile \/ BackupFails \/ PublishBackup
    <3>1. /\ tree' = tree /\ st' = st /\ published' = published
          /\ answer' = answer /\ faults' = faults
      <4>1. CASE Restart
        BY <4>1 DEF Restart, requests
      <4>2. CASE BackUpDatabase
        BY <4>2 DEF BackUpDatabase, store, requests
      <4>3. CASE CopyFile
        <5>1. UNCHANGED <<tables, store, lock, up, requests, faults>>
          BY <4>3, Zenon DEF CopyFile
        <5>2. QED
          BY <5>1 DEF store, requests
      <4>4. CASE BackupFails \/ PublishBackup
        BY <4>4 DEF BackupFails, PublishBackup, store, requests
      <4>5. QED
        BY <2>1, <4>1, <4>2, <4>3, <4>4
    <3>2. QED
      BY <3>1 DEF LInv, LinksKnown, AllTakenBack, FewStray, Stray
  <2>2. CASE UNCHANGED vars
    BY <2>2 DEF vars, store, requests, LInv, LinksKnown, AllTakenBack, FewStray, Stray
  <2>3. QED
    BY <1>4, <2>1, <2>2
<1>5. QED
  BY <1>3, <1>4

\* Whatever fails and whoever publishes meanwhile: what failed requests leave in
\* Data/Projects is at most one link for each publication that failed itself.
THEOREM FailuresLeaveNothing == Spec => []FailedLeaveNothing
<1>1. Init => LInv
  <2> SUFFICES ASSUME Init PROVE LInv
    OBVIOUS
  <2>1. Stray = {} /\ faults.early = 0
    BY DEF Init, Stray
  <2>2. FewStray
    BY <2>1, FS_EmptySet DEF FewStray
  <2>3. QED
    BY <2>2 DEF LInv, Init, LinksKnown, AllTakenBack, NoAnswer
<1>2. SInv /\ LInv /\ [Next]_vars => LInv'
  BY LinksOfRequest, LinksPublished, LinksOfFailure, LinksAside DEF Next
<1>3. SInv /\ LInv => FailedLeaveNothing
  <2> SUFFICES ASSUME SInv, LInv PROVE FailedLeaveNothing
    OBVIOUS
  <2>1. \A p \in Paths : tree[p] # NoFile => tree[p][1] \in Requests
    BY DEF SInv, Columns, TypeOK, Uploads
  <2>2. LeftBehind \subseteq Stray
    BY <2>1 DEF LeftBehind, Stray, LInv, AllTakenBack, Listed
  <2>3. IsFiniteSet(LeftBehind) /\ Cardinality(LeftBehind) <= Cardinality(Stray)
    BY <2>2, FS_Subset DEF LInv, FewStray
  <2>4. Cardinality(LeftBehind) \in Nat /\ Cardinality(Stray) \in Nat /\ faults.early \in Nat
    BY <2>3, FS_CardinalityType DEF LInv, FewStray, SInv, Columns
  <2>5. QED
    BY <2>3, <2>4 DEF FailedLeaveNothing, LInv, FewStray
<1>4. QED
  BY <1>1, <1>2, <1>3, SInvariant, PTL DEF Spec

-----------------------------------------------------------------------------
(* What holds until a transaction fails with files published: after such a *)
(* failure the run document_cleanup_race shows a committed file deleted.   *)

NoneLate == faults.late = 0

\* Until then nobody removes a published file.
NothingTaken ==
  \A r \in Requests :
    st[r] # "unlinking" /\ (st[r] = "removing" => published[r] = <<>>)

\* The rows of tab have their files: Intact, spelt out.
Stored(tab) ==
  \A d \in DOMAIN tab : \A v \in DOMAIN tab[d].rows :
    LET row == tab[d].rows[v]
    IN tree[row.path] # NoFile /\ Content(tree[row.path]) = row.content

\* The rows of old are rows of tab.
Extends(tab, old) ==
  \A d \in DOMAIN old : d \in DOMAIN tab /\ \A v \in DOMAIN old[d].rows :
    v \in DOMAIN tab[d].rows /\ tab[d].rows[v] = old[d].rows[v]

\* Every row a backup knows is still to be copied or was copied as it is, and
\* nothing else was.
RowsOf(tab) == UNION {{tab[d].rows[v] : v \in DOMAIN tab[d].rows} : d \in DOMAIN tab}
Pair(row) == <<row.path, row.content>>
CopyBooks ==
  /\ Extends(docs, backup.docs)
  /\ \A row \in RowsOf(backup.docs) : row.path \in backup.todo \/ Pair(row) \in backup.copied
  /\ backup.todo \subseteq {row.path : row \in RowsOf(backup.docs)}
  /\ backup.copied \subseteq {Pair(row) : row \in RowsOf(backup.docs)}
  /\ backup.state = "done" => backup.todo = {}

FInv == NothingTaken /\ Stored(docs) /\ (lock # Nobody => Stored(pending)) /\ CopyBooks

\* Two rows with one path are one row.
LEMMA OnePathOneRow ==
  ASSUME NEW tab, Placed(tab), NEW a \in RowsOf(tab), NEW b \in RowsOf(tab), a.path = b.path
  PROVE  a = b
<1>1. PICK d \in DOMAIN tab : \E v \in DOMAIN tab[d].rows : a = tab[d].rows[v]
  BY DEF RowsOf
<1>2. PICK e \in DOMAIN tab : \E w \in DOMAIN tab[e].rows : b = tab[e].rows[w]
  BY DEF RowsOf
<1>3. PICK v \in DOMAIN tab[d].rows : a = tab[d].rows[v]
  BY <1>1
<1>4. PICK w \in DOMAIN tab[e].rows : b = tab[e].rows[w]
  BY <1>2
<1>5. d = e /\ v = w
  BY <1>3, <1>4 DEF Placed
<1>6. QED
  BY <1>3, <1>4, <1>5

LEMMA ExtendedRows ==
  ASSUME NEW tab, NEW old, Extends(tab, old)
  PROVE  RowsOf(old) \subseteq RowsOf(tab)
BY DEF Extends, RowsOf

LEMMA ExtendsOn ==
  ASSUME NEW tab, NEW new, NEW old, Extends(tab, new), Extends(new, old)
  PROVE  Extends(tab, old)
BY DEF Extends

\* The rows of well-formed tables have paths and contents.
LEMMA RowsAreRows ==
  ASSUME NEW tab \in Seq(Document), NEW row \in RowsOf(tab)
  PROVE  row \in Row /\ row.path \in Paths /\ row.content \in Contents
<1>1. PICK d \in DOMAIN tab : \E v \in DOMAIN tab[d].rows : row = tab[d].rows[v]
  BY DEF RowsOf
<1>2. tab[d] \in Document
  BY <1>1
<1>3. tab[d].rows \in Seq(Row)
  BY <1>2 DEF Document
<1>4. row \in Row
  BY <1>1, <1>3
<1>5. QED
  BY <1>4 DEF Row

\* The tables within a transaction extend the committed ones.
LEMMA DraftExtends ==
  ASSUME SInv, NEW r \in Requests, st[r] = "open"
  PROVE  Extends(pending, docs)
<1>1. /\ req[r] \in Request /\ lock = r /\ r # Nobody
      /\ docs \in Seq(Document) /\ pending \in Seq(Document)
      /\ published[r] \in Seq(Paths) /\ (published[r] = <<>> => pending = docs)
      /\ Drafted(r)
      /\ IF req[r].kind \in NewKinds THEN req[r].doc = 0 ELSE req[r].doc \in DOMAIN docs
  BY RequestsAssumption DEF SInv, Columns, TypeOK, Asks, Locking, Transaction, Document
<1>2. CASE published[r] = <<>>
  BY <1>1, <1>2 DEF Extends
<1>3. CASE req[r].kind \in NewKinds
  <2>1. Len(pending) = Len(docs) + Len(published[r]) /\ \A d \in DOMAIN docs : pending[d] = docs[d]
    BY <1>1, <1>3 DEF Drafted
  <2>2. DOMAIN docs \subseteq DOMAIN pending
    BY <1>1, <2>1
  <2>3. QED
    BY <2>1, <2>2 DEF Extends
<1>4. CASE published[r] # <<>> /\ req[r].kind \notin NewKinds
  <2> DEFINE d == req[r].doc
  <2>1. PICK row \in Row : pending = [docs EXCEPT ![d].rows = Append(@, row), ![d].rev = @ + 1]
    BY <1>1, <1>4 DEF Drafted
  <2>2. d \in DOMAIN docs /\ docs[d] \in Document
    BY <1>1, <1>4
  <2>3. docs[d].rows \in Seq(Row)
    BY <2>2 DEF Document
  <2>4. DOMAIN pending = DOMAIN docs /\ (\A e \in DOMAIN docs : e # d => pending[e] = docs[e])
        /\ pending[d].rows = Append(docs[d].rows, row)
    BY <2>1, <2>2 DEF Document
  <2>5. \A v \in DOMAIN docs[d].rows :
          v \in DOMAIN Append(docs[d].rows, row) /\ Append(docs[d].rows, row)[v] = docs[d].rows[v]
    BY <2>3
  <2>6. QED
    BY <2>4, <2>5 DEF Extends
<1>5. QED
  BY <1>2, <1>3, <1>4

\* Tables whose files stay where they are keep them, with their content: a
\* request that has a file asks for nothing else.
LEMMA StoredKept ==
  ASSUME SInv, [Next]_vars, NEW tab, \A row \in RowsOf(tab) : row.path \in Paths,
         Stored(tab), \A row \in RowsOf(tab) : tree'[row.path] = tree[row.path]
  PROVE  \A row \in RowsOf(tab) :
           tree'[row.path] # NoFile /\ req'[tree'[row.path][1]].content = row.content
<1> SUFFICES ASSUME NEW row \in RowsOf(tab)
             PROVE  tree'[row.path] # NoFile /\ req'[tree'[row.path][1]].content = row.content
  OBVIOUS
<1>1. tree[row.path] # NoFile /\ req[tree[row.path][1]].content = row.content
  BY DEF Stored, RowsOf, Content
<1>2. tree[row.path] \in Uploads /\ st[tree[row.path][1]] # "new"
  BY <1>1 DEF SInv, Columns, TypeOK, Linked
<1>3. req \in [Requests -> {<<>>} \cup Request] /\ tree[row.path][1] \in Requests
  BY <1>2 DEF SInv, Columns, Uploads
<1>4. req' = req \/ \E r \in Requests : st[r] = "new" /\ \E q : req' = [req EXCEPT ![r] = q]
  BY DEF Next, vars, tables, store, requests, Stage, Retry, Replay, Refuse, Busy, Answered, Begin, Publish,
     PublishFails, TransactionFails, Commit, CheckOwn, Unlink, Close, Crash, Restart, BackUpDatabase,
     CopyFile, BackupFails, PublishBackup
<1>5. req'[tree[row.path][1]] = req[tree[row.path][1]]
  BY <1>2, <1>3, <1>4
<1>6. QED
  BY <1>1, <1>5

\* The same of the tables after the step.
LEMMA StoredAfter ==
  ASSUME SInv, [Next]_vars, NEW tab \in Seq(Document), Stored(tab),
         \A row \in RowsOf(tab) : tree'[row.path] = tree[row.path],
         NEW new, RowsOf(new) \subseteq RowsOf(tab)
  PROVE  \A d \in DOMAIN new : \A v \in DOMAIN new[d].rows :
           LET row == new[d].rows[v]
           IN tree'[row.path] # NoFile /\ req'[tree'[row.path][1]].content = row.content
<1>1. \A row \in RowsOf(tab) : row.path \in Paths
  BY RowsAreRows
<1>2. \A row \in RowsOf(tab) :
           tree'[row.path] # NoFile /\ req'[tree'[row.path][1]].content = row.content
  BY <1>1, StoredKept
<1>3. \A d \in DOMAIN new : \A v \in DOMAIN new[d].rows : new[d].rows[v] \in RowsOf(new)
  BY DEF RowsOf
<1>4. QED
  BY <1>2, <1>3

-----------------------------------------------------------------------------
\* A step that leaves committed tables, files and the backup alone.
LEMMA StillStored ==
  ASSUME SInv, SInv', FInv, [Next]_vars, UNCHANGED <<docs, tree>>,
         lock' # Nobody => pending' = docs \/ (lock # Nobody /\ pending' = pending)
  PROVE  Stored(docs)' /\ (lock' # Nobody => Stored(pending)')
<1>1. docs \in Seq(Document) /\ (lock # Nobody => pending \in Seq(Document))
  BY DEF SInv, Columns, TypeOK, Document
<1>2. Stored(docs) /\ (lock # Nobody => Stored(pending))
  BY DEF FInv
<1>3. ASSUME NEW tab \in Seq(Document), Stored(tab)
      PROVE  \A d \in DOMAIN tab : \A v \in DOMAIN tab[d].rows :
               LET row == tab[d].rows[v]
               IN tree'[row.path] # NoFile /\ req'[tree'[row.path][1]].content = row.content
  <2>1. \A row \in RowsOf(tab) : tree'[row.path] = tree[row.path]
    OBVIOUS
  <2>2. QED
    BY <1>3, <2>1, StoredAfter
<1>4. Stored(docs)'
  <2>1. docs' = docs
    OBVIOUS
  <2>2. QED
    BY <1>1, <1>2, <1>3, <2>1 DEF Stored, Content
<1>5. ASSUME lock' # Nobody
      PROVE  Stored(pending)'
  <2>1. CASE pending' = docs
    BY <1>1, <1>2, <1>3, <2>1 DEF Stored, Content
  <2>2. CASE lock # Nobody /\ pending' = pending
    BY <1>1, <1>2, <1>3, <2>2 DEF Stored, Content
  <2>3. QED
    BY <1>5, <2>1, <2>2
<1>6. QED
  BY <1>4, <1>5

\* Failures are counted, and never forgotten.
LEMMA LateSteps ==
  ASSUME SInv, [Next]_vars
  PROVE  /\ faults.late \in Nat
         /\ \/ faults'.late = faults.late
            \/ faults'.late = faults.late + 1 /\ faults.late < MaxLate
<1>1. faults \in [early : Nat, late : Nat, crash : Nat]
  BY DEF SInv, Columns
<1>2. ASSUME NEW r \in Requests, PublishFails(r)
      PROVE  \/ faults'.late = faults.late
             \/ faults'.late = faults.late + 1 /\ faults.late < MaxLate
  <2>1. CASE published[r] = <<>>
    <3>1. faults' = [faults EXCEPT !.early = @ + 1, !.late = @]
      BY <1>2, <2>1 DEF PublishFails
    <3>2. QED
      BY <1>1, <3>1
  <2>2. CASE published[r] # <<>>
    <3>1. faults' = [faults EXCEPT !.early = @ + 1, !.late = @ + 1] /\ faults.late < MaxLate
      BY <1>2, <2>2 DEF PublishFails
    <3>2. QED
      BY <1>1, <3>1
  <2>3. QED
    BY <2>1, <2>2
<1>3. ASSUME NEW r \in Requests, TransactionFails(r)
      PROVE  faults'.late = faults.late + 1 /\ faults.late < MaxLate
  BY <1>1, <1>3 DEF TransactionFails
<1>4. CASE Crash
  BY <1>1, <1>4 DEF Crash
<1>5. ASSUME NEW r \in Requests,
             \/ Stage(r) \/ Retry(r) \/ Replay(r) \/ Refuse(r) \/ Busy(r) \/ Begin(r)
             \/ Publish(r) \/ Commit(r) \/ CheckOwn(r) \/ Unlink(r) \/ Close(r)
      PROVE  faults' = faults
  BY <1>5 DEF Stage, Retry, Replay, Refuse, Busy, Answered, Begin, Publish, Commit, CheckOwn, Unlink, Close
<1>6. ASSUME \/ Restart \/ BackUpDatabase \/ BackupFails \/ PublishBackup \/ UNCHANGED vars
      PROVE  faults' = faults
  BY <1>6 DEF Restart, BackUpDatabase, BackupFails, PublishBackup, vars
<1>7. ASSUME CopyFile
      PROVE  faults' = faults
  BY <1>7 DEF CopyFile
<1>8. QED
  BY <1>1, <1>2, <1>3, <1>4, <1>5, <1>6, <1>7 DEF Next

\* Reconciliation and a publication leave the files of the transaction's rows.
LEMMA FilesSpared ==
  ASSUME SInv, NEW r \in Requests, st[r] = "open", Len(published[r]) < Files(r),
         NEW row \in RowsOf(pending), NEW u
  PROVE  LET p == NextPath(r) IN
         /\ Reconciled(p.doc)[row.path] = tree[row.path]
         /\ [Reconciled(p.doc) EXCEPT ![p] = u][row.path] = tree[row.path]
<1> DEFINE p == NextPath(r)
<1>1. lock = r /\ r # Nobody /\ pending \in Seq(Document) /\ Placed(pending)
  BY RequestsAssumption DEF SInv, Columns, Locking, RowsPlaced
<1>2. p \in Paths /\ \A d \in DOMAIN pending : p \notin Referenced(pending, d)
  BY NextFile
<1>3. row.path \in Paths
  BY <1>1, RowsAreRows
<1>4. PICK d \in DOMAIN pending : \E v \in DOMAIN pending[d].rows : row = pending[d].rows[v]
  BY DEF RowsOf
<1>5. row.path \in Referenced(pending, d) /\ row.path.doc = d
  BY <1>1, <1>4 DEF Referenced, Placed
<1>6. row.path # p
  BY <1>2, <1>4, <1>5
<1>7. Reconciled(p.doc)[row.path] = tree[row.path]
  BY <1>3, <1>5 DEF Reconciled
<1>8. QED
  BY <1>3, <1>6, <1>7 DEF Reconciled

LEMMA PublishStores ==
  ASSUME SInv, SInv', FInv, NEW r \in Requests, Publish(r)
  PROVE  Stored(docs)' /\ Stored(pending)'
<1> DEFINE p == NextPath(r)
           u == <<r, Len(published[r]) + 1>>
<1>1. /\ lock = r /\ r # Nobody /\ st[r] = "open" /\ Len(published[r]) < Files(r)
      /\ tree' = [Reconciled(p.doc) EXCEPT ![p] = u]
      /\ pending' = WithFile(r, p) /\ docs' = docs /\ req' = req
  BY RequestsAssumption DEF Publish, tables
<1>2. [Next]_vars
  BY DEF Publish, Next
<1>3. docs \in Seq(Document) /\ pending \in Seq(Document) /\ Stored(pending) /\ Extends(pending, docs)
  BY <1>1, DraftExtends DEF SInv, Columns, TypeOK, Document, FInv
<1>4. \A row \in RowsOf(pending) : tree'[row.path] = tree[row.path]
  BY <1>1, FilesSpared
<1>5. Stored(docs)'
  <2>1. RowsOf(docs) \subseteq RowsOf(pending)
    BY <1>3, ExtendedRows
  <2>2. \A d \in DOMAIN docs : \A v \in DOMAIN docs[d].rows :
          LET row == docs[d].rows[v]
          IN tree'[row.path] # NoFile /\ req'[tree'[row.path][1]].content = row.content
    BY <1>2, <1>3, <1>4, <2>1, StoredAfter
  <2>3. QED
    BY <1>1, <2>2 DEF Stored, Content
<1>6. p \in Paths /\ tree'[p] = u /\ u # NoFile /\ u[1] = r
  BY <1>1, NextFile DEF Reconciled, NoFile
<1>7. \A d \in DOMAIN (pending') : \A v \in DOMAIN pending'[d].rows :
        \/ pending'[d].rows[v].path = p /\ pending'[d].rows[v].content = req[r].content
        \/ /\ d \in DOMAIN pending /\ v \in DOMAIN pending[d].rows
           /\ pending'[d].rows[v] = pending[d].rows[v]
  BY <1>1, NextFile
<1>8. \A d \in DOMAIN pending : \A v \in DOMAIN pending[d].rows :
        LET row == pending[d].rows[v]
        IN tree'[row.path] # NoFile /\ req'[tree'[row.path][1]].content = row.content
  BY <1>2, <1>3, <1>4, StoredAfter
<1>9. Stored(pending)'
  <2> HIDE DEF p, u
  <2>1. ASSUME NEW d \in DOMAIN (pending'), NEW v \in DOMAIN pending'[d].rows
        PROVE  /\ tree'[pending'[d].rows[v].path] # NoFile
               /\ req'[tree'[pending'[d].rows[v].path][1]].content = pending'[d].rows[v].content
    <3>1. CASE pending'[d].rows[v].path = p /\ pending'[d].rows[v].content = req[r].content
      BY <1>1, <1>6, <3>1
    <3>2. CASE /\ d \in DOMAIN pending /\ v \in DOMAIN pending[d].rows
               /\ pending'[d].rows[v] = pending[d].rows[v]
      BY <1>8, <3>2
    <3>3. QED
      BY <1>7, <3>1, <3>2
  <2>2. QED
    BY <2>1 DEF Stored, Content
<1>10. QED
  BY <1>5, <1>9

LEMMA PublishFailsStores ==
  ASSUME SInv, SInv', FInv, NoneLate', NEW r \in Requests, PublishFails(r)
  PROVE  Stored(docs)' /\ NothingTaken'
<1> DEFINE p == NextPath(r)
           u == <<r, Len(published[r]) + 1>>
<1>1. /\ lock = r /\ r # Nobody /\ st[r] = "open" /\ Len(published[r]) < Files(r)
      /\ tree' \in {tree, Reconciled(p.doc), [Reconciled(p.doc) EXCEPT ![p] = u]}
      /\ docs' = docs /\ published' = published /\ st' = [st EXCEPT ![r] = "removing"]
  BY RequestsAssumption DEF PublishFails, RollBack, tables
<1>2. published[r] = <<>>
  <2>1. ASSUME published[r] # <<>> PROVE FALSE
    <3>1. faults' = [faults EXCEPT !.early = @ + 1, !.late = @ + 1]
      BY <2>1 DEF PublishFails
    <3>2. faults \in [early : Nat, late : Nat, crash : Nat] /\ faults'.late = 0
      BY DEF SInv, Columns, NoneLate
    <3>3. QED
      BY <3>1, <3>2
  <2>2. QED
    BY <2>1
<1>3. pending = docs /\ docs \in Seq(Document) /\ Stored(docs)
  BY <1>1, <1>2 DEF SInv, Transaction, Columns, TypeOK, Document, FInv
<1>4. ASSUME NEW row \in RowsOf(docs)
      PROVE  tree'[row.path] = tree[row.path]
  <2>1. row \in RowsOf(pending)
    BY <1>3
  <2>2. \A w : /\ Reconciled(p.doc)[row.path] = tree[row.path]
               /\ [Reconciled(p.doc) EXCEPT ![p] = w][row.path] = tree[row.path]
    BY <1>1, <2>1, FilesSpared
  <2> HIDE DEF p
  <2>3. /\ Reconciled(p.doc)[row.path] = tree[row.path]
        /\ [Reconciled(p.doc) EXCEPT ![p] = u][row.path] = tree[row.path]
    BY <2>2
  <2> HIDE DEF u
  <2>4. QED
    BY <1>1, <2>3
<1>5. Stored(docs)'
  <2>1. [Next]_vars
    BY DEF Next
  <2>2. \A d \in DOMAIN docs : \A v \in DOMAIN docs[d].rows :
          LET row == docs[d].rows[v]
          IN tree'[row.path] # NoFile /\ req'[tree'[row.path][1]].content = row.content
    BY <1>3, <1>4, <2>1, StoredAfter
  <2>3. QED
    BY <1>1, <2>2 DEF Stored, Content
<1>6. NothingTaken'
  BY <1>1, <1>2 DEF FInv, NothingTaken, SInv, Columns, TypeOK
<1>7. QED
  BY <1>5, <1>6

LEMMA CommitStores ==
  ASSUME SInv, SInv', FInv, NEW r \in Requests, Commit(r)
  PROVE  Stored(docs)' /\ Extends(docs', docs)
<1>1. /\ lock = r /\ r # Nobody /\ st[r] = "open" /\ Len(published[r]) = Files(r)
      /\ docs' = Outcome(r) /\ tree' = tree
  BY RequestsAssumption DEF Commit, store
<1>2. docs \in Seq(Document) /\ pending \in Seq(Document) /\ Stored(pending) /\ Extends(pending, docs)
  BY <1>1, DraftExtends DEF SInv, Columns, TypeOK, Document, FInv
<1>3. DOMAIN Outcome(r) = DOMAIN pending /\ \A d \in DOMAIN pending : Outcome(r)[d].rows = pending[d].rows
  BY <1>1, <1>2, Ends
<1>4. RowsOf(Outcome(r)) = RowsOf(pending) /\ Extends(Outcome(r), docs)
  BY <1>2, <1>3 DEF RowsOf, Extends
<1>5. [Next]_vars
  BY DEF Next
<1>6. Stored(docs)'
  <2> DEFINE new == Outcome(r)
  <2>1. RowsOf(new) \subseteq RowsOf(pending) /\ \A row \in RowsOf(pending) : tree'[row.path] = tree[row.path]
    BY <1>1, <1>4
  <2> HIDE DEF new
  <2>2. \A d \in DOMAIN new : \A v \in DOMAIN new[d].rows :
          LET row == new[d].rows[v]
          IN tree'[row.path] # NoFile /\ req'[tree'[row.path][1]].content = row.content
    BY <1>2, <1>5, <2>1, StoredAfter
  <2>3. docs' = new
    BY <1>1 DEF new
  <2>4. QED
    BY <2>2, <2>3 DEF Stored, Content
<1>7. QED
  BY <1>1, <1>4, <1>6

\* The backup: the database it copies, the files one by one, and the rest.
LEMMA CopyBooksKept ==
  ASSUME SInv, FInv, [Next]_vars, Extends(docs', docs)
  PROVE  CopyBooks'
<1>1. CopyBooks
  BY DEF FInv
<1>2. CASE backup' = backup
  <2>1. Extends(docs', backup.docs)
    BY <1>1, ExtendsOn DEF CopyBooks
  <2>2. QED
    BY <1>1, <1>2, <2>1 DEF CopyBooks
<1>3. CASE backup' = NoBackup
  BY <1>3 DEF CopyBooks, NoBackup, Extends, RowsOf
<1>4. CASE BackUpDatabase
  <2>1. /\ docs' = docs
        /\ backup' = [state |-> "copying", docs |-> docs,
                      todo |-> UNION {Referenced(docs, d) : d \in DOMAIN docs}, copied |-> {}]
    BY <1>4 DEF BackUpDatabase, tables
  <2>2. UNION {Referenced(docs, d) : d \in DOMAIN docs} = {row.path : row \in RowsOf(docs)}
    BY DEF Referenced, RowsOf
  <2>3. Extends(docs, docs)
    BY DEF Extends
  <2>4. QED
    BY <2>1, <2>2, <2>3 DEF CopyBooks
<1>5. CASE CopyFile
  <2>1. PICK p \in backup.todo :
          backup' = [backup EXCEPT
            !.todo = @ \ {p},
            !.copied = IF tree[p] = NoFile THEN @ ELSE @ \cup {<<p, Content(tree[p])>>}]
    BY <1>5 DEF CopyFile
  <2>2. PICK file \in RowsOf(backup.docs) : file.path = p
    BY <1>1, <2>1 DEF CopyBooks
  <2>3. file \in RowsOf(docs)
    BY <1>1, <2>2, ExtendedRows DEF CopyBooks
  <2>4. tree[p] # NoFile /\ Content(tree[p]) = file.content
    BY <2>2, <2>3 DEF FInv, Stored, RowsOf
  <2>5. backup' = [state |-> backup.state, docs |-> backup.docs, todo |-> backup.todo \ {p},
                   copied |-> backup.copied \cup {Pair(file)}]
    BY <2>1, <2>2, <2>4 DEF SInv, Columns, Backup, Pair
  <2>6. \A row \in RowsOf(backup.docs) : row.path = p => row = file
    <3>1. Placed(docs) /\ RowsOf(backup.docs) \subseteq RowsOf(docs)
      BY <1>1, ExtendedRows DEF SInv, RowsPlaced, CopyBooks
    <3>2. QED
      BY <2>2, <3>1, OnePathOneRow
  <2>7. docs' = docs
    BY <1>5 DEF CopyFile, tables
  <2>8. QED
    BY <1>1, <1>5, <2>2, <2>5, <2>6, <2>7 DEF CopyBooks, CopyFile
<1>6. CASE PublishBackup
  <2>1. backup' = [state |-> "done", docs |-> backup.docs, todo |-> backup.todo, copied |-> backup.copied]
        /\ backup.todo = {} /\ docs' = docs
    BY <1>6 DEF PublishBackup, SInv, Columns, Backup, tables
  <2>2. QED
    BY <1>1, <2>1 DEF CopyBooks
<1>7. QED
  BY <1>2, <1>3, <1>4, <1>5, <1>6
     DEF Next, vars, Stage, Retry, Replay, Refuse, Busy, Answered, Begin, Publish,
         PublishFails, TransactionFails, Commit, CheckOwn, Unlink, Close, Crash, Restart, BackupFails

LEMMA FInitially == Init => FInv
BY RequestsAssumption DEF Init, FInv, NothingTaken, Stored, CopyBooks, NoBackup, Extends, RowsOf

LEMMA FKept ==
  ASSUME NoneLate', SInv, SInv', FInv, [Next]_vars
  PROVE  FInv'
<1>0. st \in [Requests -> Steps] /\ NothingTaken
  BY DEF SInv, Columns, TypeOK, FInv
<1> DEFINE Rest == NothingTaken' /\ Stored(docs)' /\ (lock' # Nobody => Stored(pending)') /\ Extends(docs', docs)
<1>1. CASE \E r \in Requests : Publish(r)
  <2>1. PICK r \in Requests : Publish(r)
    BY <1>1
  <2>2. Stored(docs)' /\ Stored(pending)'
    BY <2>1, PublishStores
  <2>3. NothingTaken'
    <3>1. /\ st[r] = "open" /\ st' = st /\ faults' = faults
          /\ \A q \in Requests \ {r} : published'[q] = published[q]
      BY <2>1 DEF Publish, SInv, Columns, TypeOK
    <3>2. QED
      BY <1>0, <3>1 DEF NothingTaken
  <2>4. Extends(docs', docs)
    BY <2>1 DEF Publish, tables, Extends
  <2>5. Rest
    BY <2>2, <2>3, <2>4
  <2>6. QED
    BY <2>5, CopyBooksKept DEF FInv
<1>2. CASE \E r \in Requests : PublishFails(r)
  <2>1. PICK r \in Requests : PublishFails(r)
    BY <1>2
  <2>2. Stored(docs)' /\ NothingTaken'
    BY <2>1, PublishFailsStores
  <2>3. lock' = Nobody /\ Extends(docs', docs)
    BY <2>1 DEF PublishFails, RollBack, tables, Extends
  <2>4. QED
    BY <2>2, <2>3, CopyBooksKept DEF FInv
<1>3. CASE \E r \in Requests : Commit(r)
  <2>1. PICK r \in Requests : Commit(r)
    BY <1>3
  <2>2. Stored(docs)' /\ Extends(docs', docs)
    BY <2>1, CommitStores
  <2>3. lock' = Nobody /\ st' = [st EXCEPT ![r] = "closing"] /\ faults' = faults /\ published' = published
    BY <2>1 DEF Commit
  <2>4. NothingTaken'
    BY <1>0, <2>3 DEF NothingTaken
  <2>5. QED
    BY <2>2, <2>3, <2>4, CopyBooksKept DEF FInv
<1>4. CASE \E r \in Requests : TransactionFails(r) \/ CheckOwn(r) \/ Unlink(r)
  <2>1. ASSUME NEW r \in Requests, TransactionFails(r) PROVE FALSE
    <3>1. faults' = [faults EXCEPT !.late = @ + 1] /\ faults \in [early : Nat, late : Nat, crash : Nat]
      BY <2>1 DEF TransactionFails, SInv, Columns
    <3>2. QED
      BY <3>1 DEF NoneLate
  <2>2. QED
    BY <1>0, <1>4, <2>1 DEF NothingTaken, CheckOwn, Unlink
<1>5. CASE /\ UNCHANGED <<docs, tree>>
           /\ lock' # Nobody => pending' = docs \/ (lock # Nobody /\ pending' = pending)
           /\ UNCHANGED published
           /\ \A q \in Requests : st'[q] \in {"removing", "unlinking"} => st[q] = st'[q]
  <2>1. Stored(docs)' /\ (lock' # Nobody => Stored(pending)')
    BY <1>5, StillStored
  <2>2. NothingTaken'
    BY <1>0, <1>5 DEF NothingTaken
  <2>3. Extends(docs', docs)
    BY <1>5 DEF Extends
  <2>4. QED
    BY <2>1, <2>2, <2>3, CopyBooksKept DEF FInv
<1>6. CASE \E r \in Requests : Stage(r) \/ Retry(r) \/ Replay(r) \/ Refuse(r) \/ Busy(r) \/ Begin(r) \/ Close(r)
  <2>1. PICK r \in Requests : Stage(r) \/ Retry(r) \/ Replay(r) \/ Refuse(r) \/ Busy(r) \/ Begin(r) \/ Close(r)
    BY <1>6
  <2>2. \E x \in {"staged", "closing", "open", "done"} : st' = [st EXCEPT ![r] = x]
    BY <2>1 DEF Stage, Retry, Replay, Refuse, Busy, Answered, Begin, Close
  <2>3. \A q \in Requests : st'[q] \in {"removing", "unlinking"} => st[q] = st'[q]
    BY <1>0, <2>2
  <2>4. /\ UNCHANGED <<docs, tree, published, faults>>
        /\ lock' # Nobody => pending' = docs \/ (lock # Nobody /\ pending' = pending)
    BY <2>1 DEF Stage, Retry, Replay, Refuse, Busy, Answered, Begin, Close, tables, store
  <2>5. QED
    BY <1>5, <2>3, <2>4
<1>7. CASE Crash
  <2>1. faults'.late = faults.late
    BY <1>7 DEF Crash, SInv, Columns
  <2>2. QED
    BY <1>5, <1>7, <2>1 DEF Crash, tables, store
<1>8. CASE Restart \/ BackUpDatabase \/ CopyFile \/ BackupFails \/ PublishBackup \/ UNCHANGED vars
  BY <1>5, <1>8 DEF Restart, BackUpDatabase, CopyFile, BackupFails, PublishBackup, vars, tables, store, requests
<1>9. QED
  BY <1>1, <1>2, <1>3, <1>4, <1>6, <1>7, <1>8 DEF Next

LEMMA FInvariant == Spec => [](SInv /\ (NoneLate => FInv))
<1>1. Init => SInv /\ (NoneLate => FInv)
  BY SInitially, FInitially
<1>2. SInv /\ (NoneLate => FInv) /\ [Next]_vars => (SInv /\ (NoneLate => FInv))'
  <2>1. ASSUME SInv, NoneLate => FInv, [Next]_vars, NoneLate'
        PROVE  FInv'
    <3>1. SInv'
      BY <2>1, SKept
    <3>2. FInv
      BY <2>1, LateSteps DEF NoneLate
    <3>3. QED
      BY <2>1, <3>1, <3>2, FKept
  <2>2. QED
    BY <2>1, SKept
<1>3. QED
  BY <1>1, <1>2, PTL DEF Spec

\* Every committed version has its file, with the content that was uploaded:
\* reconciliation, failing publications, crashes and backups never remove the
\* file of a row.
THEOREM FilesIntact == Spec => [](NoneLate => CommittedFilesIntact)
<1>1. SInv /\ FInv => CommittedFilesIntact
  BY DEF FInv, Stored, CommittedFilesIntact, Intact, OnDisk
<1>2. QED
  BY <1>1, FInvariant, PTL

\* A published backup has the file of every version its database knows, although
\* requests go on while it is copied.
THEOREM BackupsComplete == Spec => [](NoneLate => BackupComplete)
<1>1. ASSUME SInv, FInv, backup.state = "done", NEW d \in DOMAIN backup.docs, NEW v \in DOMAIN backup.docs[d].rows
      PROVE  Copied(backup.docs[d].rows[v].path) = {backup.docs[d].rows[v].content}
  <2> DEFINE row == backup.docs[d].rows[v]
  <2>1. row \in RowsOf(backup.docs)
    BY DEF RowsOf
  <2> HIDE DEF row
  <2>2. CopyBooks /\ backup.todo = {}
    BY <1>1 DEF FInv, CopyBooks
  <2>3. Pair(row) \in backup.copied
    BY <2>1, <2>2 DEF CopyBooks
  <2>4. ASSUME NEW c \in backup.copied, c[1] = row.path
        PROVE  c[2] = row.content
    <3>1. PICK other \in RowsOf(backup.docs) : c = Pair(other)
      BY <2>2 DEF CopyBooks
    <3>2. other.path = row.path /\ c[2] = other.content
      BY <2>4, <3>1 DEF Pair
    <3>3. Placed(docs) /\ RowsOf(backup.docs) \subseteq RowsOf(docs)
      BY <1>1, <2>2, ExtendedRows DEF SInv, RowsPlaced, CopyBooks
    <3>4. QED
      BY <2>1, <3>2, <3>3, OnePathOneRow
  <2>5. Copied(row.path) = {row.content}
    BY <2>3, <2>4 DEF Copied, Pair
  <2>6. QED
    BY <2>5 DEF row
<1>2. SInv /\ FInv => BackupComplete
  BY <1>1 DEF BackupComplete, Intact
<1>3. QED
  BY <1>2, FInvariant, PTL

-----------------------------------------------------------------------------
(* The refinement of VersionHistory, under the same assumption.            *)

\* The history the rows record,
Recorded(tab) ==
  [d \in DOMAIN tab |-> [v \in DOMAIN tab[d].rows |-> tab[d].rows[v].content]]

\* and the history that can be downloaded.
Archive ==
  [d \in DOMAIN docs |-> [v \in DOMAIN docs[d].rows |-> Download(docs[d].rows[v].path)]]

LEMMA ArchiveIsRecorded == Stored(docs) => Archive = Recorded(docs)
<1> SUFFICES ASSUME Stored(docs) PROVE Archive = Recorded(docs)
  OBVIOUS
<1>1. \A d \in DOMAIN docs : \A v \in DOMAIN docs[d].rows :
        Download(docs[d].rows[v].path) = docs[d].rows[v].content
  BY DEF Stored, Download
<1>2. QED
  BY <1>1 DEF Archive, Recorded

\* Tables with the same rows record the same history.
LEMMA SameRows ==
  ASSUME NEW tab, NEW old, DOMAIN tab = DOMAIN old,
         \A d \in DOMAIN old : tab[d].rows = old[d].rows
  PROVE  Recorded(tab) = Recorded(old)
BY DEF Recorded

\* It is a sequence of sequences, as long as the tables.
LEMMA RecordedTyped ==
  ASSUME NEW tab \in Seq(Document)
  PROVE  /\ Recorded(tab) \in Seq(Seq(Contents)) /\ Len(Recorded(tab)) = Len(tab)
         /\ \A d \in DOMAIN tab :
              /\ tab[d].rows \in Seq(Row)
              /\ Recorded(tab)[d] \in Seq(Contents)
              /\ Recorded(tab)[d] = [v \in DOMAIN tab[d].rows |-> tab[d].rows[v].content]
<1>1. ASSUME NEW d \in DOMAIN tab
      PROVE  /\ tab[d].rows \in Seq(Row)
             /\ Recorded(tab)[d] \in Seq(Contents)
             /\ Recorded(tab)[d] = [v \in DOMAIN tab[d].rows |-> tab[d].rows[v].content]
  <2> DEFINE rows == tab[d].rows
  <2>1. tab[d] \in Document
    OBVIOUS
  <2>2. rows \in Seq(Row)
    BY <2>1 DEF Document
  <2>3. Recorded(tab)[d] = [v \in DOMAIN rows |-> rows[v].content]
    BY DEF Recorded
  <2> HIDE DEF rows
  <2>4. \A v \in DOMAIN rows : rows[v].content \in Contents
    <3>1. \A v \in DOMAIN rows : rows[v] \in Row
      BY <2>2
    <3>2. QED
      BY <3>1 DEF Row
  <2>5. DOMAIN rows = 1..Len(rows) /\ Len(rows) \in Nat
    BY <2>2
  <2>6. [v \in DOMAIN rows |-> rows[v].content] \in Seq(Contents)
    BY <2>4, <2>5
  <2>7. QED
    BY <2>2, <2>3, <2>6 DEF rows
<1>2. DOMAIN tab = 1..Len(tab) /\ Len(tab) \in Nat
  OBVIOUS
<1>3. Recorded(tab) = [d \in 1..Len(tab) |-> Recorded(tab)[d]]
  BY <1>2 DEF Recorded
<1>4. Recorded(tab) \in [1..Len(tab) -> Seq(Contents)]
  BY <1>1, <1>2, <1>3
<1>5. Recorded(tab) \in Seq(Seq(Contents)) /\ Len(Recorded(tab)) = Len(tab)
  BY <1>2, <1>4
<1>6. QED
  BY <1>1, <1>5

\* The batch of documents a request creates, each with its first version.
LEMMA Batch ==
  ASSUME NEW tab \in Seq(Document), NEW old \in Seq(Document), NEW n \in Nat, NEW c \in Contents,
         Len(tab) = Len(old) + n,
         \A d \in DOMAIN old : tab[d] = old[d],
         \A d \in DOMAIN tab \ DOMAIN old :
           Len(tab[d].rows) = 1 /\ tab[d].rows[1].content = c
  PROVE  Recorded(tab) = Recorded(old) \o [i \in 1..n |-> <<c>>]
<1> DEFINE S == Seq(Contents)
           new == [i \in 1..n |-> <<c>>]
           first == Recorded(old)
           last == Recorded(tab)
<1>1. DOMAIN tab = 1..(Len(old) + n) /\ DOMAIN old = 1..Len(old) /\ Len(old) \in Nat
  OBVIOUS
<1>2. /\ last \in Seq(S) /\ Len(last) = Len(old) + n
      /\ first \in Seq(S) /\ Len(first) = Len(old)
  BY RecordedTyped
<1>3. new \in Seq(S) /\ Len(new) = n /\ \A i \in 1..n : new[i] = <<c>>
  <2>1. <<c>> \in S
    OBVIOUS
  <2> HIDE DEF S
  <2>2. QED
    BY <2>1
<1>4. ASSUME NEW i \in 1..(Len(old) + n)
      PROVE  last[i] = IF i <= Len(old) THEN first[i] ELSE <<c>>
  <2>1. CASE i <= Len(old)
    <3>1. i \in DOMAIN old /\ i \in DOMAIN tab
      BY <1>1, <2>1
    <3>2. QED
      BY <2>1, <3>1 DEF Recorded
  <2>2. CASE i > Len(old)
    <3>1. i \in DOMAIN tab \ DOMAIN old
      BY <1>1, <2>2
    <3>2. tab[i].rows \in Seq(Row) /\ Len(tab[i].rows) = 1 /\ tab[i].rows[1].content = c
          /\ last[i] = [v \in DOMAIN tab[i].rows |-> tab[i].rows[v].content]
      BY <3>1, RecordedTyped
    <3>3. DOMAIN tab[i].rows = {1}
      BY <3>2
    <3>4. last[i] = [v \in {1} |-> c]
      BY <3>2, <3>3
    <3>5. [v \in {1} |-> c] = <<c>>
      OBVIOUS
    <3>6. ~(i <= Len(old))
      BY <1>1, <2>2
    <3>7. QED
      BY <3>4, <3>5, <3>6
  <2>3. QED
    BY <1>1, <2>1, <2>2
<1> HIDE DEF S, new, first, last
<1>5. first \o new \in Seq(S) /\ Len(first \o new) = Len(old) + n
      /\ \A i \in 1..(Len(old) + n) :
           (first \o new)[i] = IF i <= Len(old) THEN first[i] ELSE new[i - Len(old)]
  <2>1. first \in Seq(S) /\ new \in Seq(S)
    BY <1>2, <1>3
  <2>2. /\ first \o new \in Seq(S)
        /\ Len(first \o new) = Len(first) + Len(new)
        /\ \A i \in 1 .. Len(first) + Len(new) : (first \o new)[i] =
             IF i <= Len(first) THEN first[i] ELSE new[i - Len(first)]
    BY <2>1, ConcatProperties, Zenon
  <2>3. QED
    BY <1>2, <1>3, <2>2
<1>6. \A i \in 1..(Len(old) + n) : (first \o new)[i] = last[i]
  <2>1. ASSUME NEW i \in 1..(Len(old) + n), ~(i <= Len(old))
        PROVE  new[i - Len(old)] = <<c>>
    <3>1. i - Len(old) \in 1..n
      BY <1>1, <2>1
    <3>2. QED
      BY <1>3, <3>1
  <2>2. QED
    BY <1>4, <1>5, <2>1
<1>7. last = first \o new
  BY <1>2, <1>5, <1>6, SeqEqual
<1>8. QED
  BY <1>7 DEF new, first, last

\* A version a request adds to a document.
Longer(h, d, c) == [h EXCEPT ![d] = Append(@, c)]

LEMMA OneMore ==
  ASSUME NEW tab, NEW old \in Seq(Document), NEW d \in DOMAIN old, NEW row \in Row,
         DOMAIN tab = DOMAIN old, \A e \in DOMAIN old : e # d => tab[e] = old[e],
         tab[d].rows = Append(old[d].rows, row)
  PROVE  Recorded(tab) = Longer(Recorded(old), d, row.content)
<1>1. Recorded(tab)[d] = Append(Recorded(old)[d], row.content)
  <2> DEFINE rows == old[d].rows
             first == Recorded(old)[d]
             last == Recorded(tab)[d]
             c == row.content
  <2>1. c \in Contents
    BY DEF Row
  <2>2. rows \in Seq(Row) /\ first \in Seq(Contents) /\ first = [v \in DOMAIN rows |-> rows[v].content]
    BY RecordedTyped
  <2>3. last = [v \in DOMAIN Append(rows, row) |-> Append(rows, row)[v].content]
    BY DEF Recorded
  <2> HIDE DEF rows, first, last, c
  <2>4. /\ Len(rows) \in Nat /\ DOMAIN rows = 1..Len(rows) /\ DOMAIN Append(rows, row) = 1..(Len(rows) + 1)
        /\ \A v \in 1..Len(rows) : Append(rows, row)[v] = rows[v]
        /\ Append(rows, row)[Len(rows) + 1] = row
    BY <2>2
  <2>5. last = [v \in 1..(Len(rows) + 1) |-> Append(rows, row)[v].content]
    BY <2>3, <2>4
  <2>6. \A v \in 1..(Len(rows) + 1) : last[v] = IF v <= Len(rows) THEN rows[v].content ELSE c
    BY <2>4, <2>5 DEF c
  <2>7. Len(first) = Len(rows) /\ \A v \in 1..Len(rows) : first[v] = rows[v].content
    BY <2>2, <2>4
  <2>8. \A v \in 1..(Len(rows) + 1) : last[v] = Append(first, c)[v]
    BY <2>1, <2>2, <2>4, <2>6, <2>7, AppendProperties
  <2>9. /\ Append(first, c) \in Seq(Contents) /\ Len(Append(first, c)) = Len(rows) + 1
    BY <2>1, <2>2, <2>7, AppendProperties
  <2>10. last \in Seq(Contents) /\ Len(last) = Len(rows) + 1
    <3>1. \A v \in 1..(Len(rows) + 1) : last[v] \in Contents
      BY <2>8, <2>9, ElementOfSeq
    <3> DEFINE k == Len(rows) + 1
    <3>2. k \in Nat /\ last \in [1..k -> Contents]
      BY <2>4, <2>5, <3>1
    <3> HIDE DEF k
    <3>3. last \in Seq(Contents) /\ Len(last) = k
      BY <3>2
    <3>4. QED
      BY <3>3 DEF k
  <2>11. last = Append(first, c)
    BY <2>8, <2>9, <2>10, SeqEqual
  <2>12. QED
    BY <2>11 DEF first, last, c
<1>2. \A e \in DOMAIN old : e # d => Recorded(tab)[e] = Recorded(old)[e]
  BY DEF Recorded
<1>3. DOMAIN Recorded(tab) = DOMAIN old /\ DOMAIN Recorded(old) = DOMAIN old
  BY DEF Recorded
<1>4. Recorded(tab) = [e \in DOMAIN old |-> Recorded(tab)[e]]
  BY DEF Recorded
<1>5. QED
  BY <1>1, <1>2, <1>3, <1>4 DEF Longer

\* What a commit records: nothing new, new documents or one more version.
LEMMA CommitRecords ==
  ASSUME SInv, NEW r \in Requests, Commit(r)
  PROVE  \/ Recorded(docs') = Recorded(docs)
         \/ \E n \in 1..2 : \E c \in Contents :
              Recorded(docs') = Recorded(docs) \o [i \in 1..n |-> <<c>>]
         \/ \E d \in DOMAIN docs : \E c \in Contents :
              Recorded(docs') = [Recorded(docs) EXCEPT ![d] = Append(@, c)]
<1>1. /\ req[r] \in Request /\ req[r].kind \in AllKinds /\ req[r].content \in Contents
      /\ lock = r /\ r # Nobody /\ st[r] = "open" /\ Len(published[r]) = Files(r)
      /\ docs \in Seq(Document) /\ pending \in Seq(Document)
      /\ published[r] \in Seq(Paths) /\ (published[r] = <<>> => pending = docs)
      /\ Drafted(r) /\ docs' = Outcome(r)
      /\ IF req[r].kind \in NewKinds THEN req[r].doc = 0 ELSE req[r].doc \in DOMAIN docs
  BY RequestsAssumption, KindsAssumption
     DEF Commit, SInv, Columns, TypeOK, Asks, Locking, Transaction, Document, Request
<1>2. CASE req[r].kind \in {"update", "archive"}
  <2>1. pending = docs
    BY <1>1, <1>2, FewFiles DEF Files
  <2>2. Len(Outcome(r)) = Len(pending) /\ Outcome(r) \in Seq(Document)
        /\ \A d \in DOMAIN pending : Outcome(r)[d].rows = pending[d].rows
    BY <1>1, Ends
  <2>3. DOMAIN docs' = DOMAIN docs /\ \A d \in DOMAIN docs : docs'[d].rows = docs[d].rows
    BY <1>1, <2>1, <2>2
  <2>4. Recorded(docs') = Recorded(docs)
    BY <2>3, SameRows
  <2>5. QED
    BY <2>4
<1>3. CASE req[r].kind \in NewKinds
  <2>1. docs' = pending /\ Files(r) \in 1..2
    BY <1>1, <1>3, FewFiles DEF Outcome, NewKinds, Files
  <2>2. /\ Len(pending) = Len(docs) + Files(r)
        /\ \A d \in DOMAIN docs : pending[d] = docs[d]
        /\ \A d \in DOMAIN pending \ DOMAIN docs :
             Len(pending[d].rows) = 1 /\ pending[d].rows[1].content = req[r].content
    BY <1>1, <1>3 DEF Drafted
  <2>3. Recorded(pending) = Recorded(docs) \o [i \in 1..Files(r) |-> <<req[r].content>>]
    <3> DEFINE n == Files(r)
               c == req[r].content
    <3>1. n \in Nat /\ c \in Contents
      BY <1>1, <2>1
    <3>2. /\ Len(pending) = Len(docs) + n
          /\ \A d \in DOMAIN docs : pending[d] = docs[d]
          /\ \A d \in DOMAIN pending \ DOMAIN docs :
               Len(pending[d].rows) = 1 /\ pending[d].rows[1].content = c
      BY <2>2
    <3> HIDE DEF n, c
    <3>3. Recorded(pending) = Recorded(docs) \o [i \in 1..n |-> <<c>>]
      BY <1>1, <3>1, <3>2, Batch
    <3>4. QED
      BY <3>3 DEF n, c
  <2>4. QED
    BY <1>1, <2>1, <2>3
<1>4. CASE req[r].kind = "version"
  <2>1. docs' = pending /\ published[r] # <<>> /\ req[r].doc \in DOMAIN docs
    BY <1>1, <1>4, FewFiles DEF Outcome, NewKinds, Files
  <2>2. PICK row \in Row :
          /\ row.content = req[r].content
          /\ pending = [docs EXCEPT ![req[r].doc].rows = Append(@, row), ![req[r].doc].rev = @ + 1]
    <3>1. req[r].kind \notin NewKinds
      BY <1>4 DEF NewKinds
    <3>2. Drafted(r)
      BY <1>1
    <3>3. QED
      BY <1>4, <2>1, <3>1, <3>2 DEF Drafted
  <2>3. Recorded(pending) = [Recorded(docs) EXCEPT ![req[r].doc] = Append(@, row.content)]
    <3> DEFINE d == req[r].doc
    <3>1. d \in DOMAIN docs /\ docs[d] \in Document
      BY <1>1, <2>1
    <3>2. /\ DOMAIN pending = DOMAIN docs /\ \A e \in DOMAIN docs : e # d => pending[e] = docs[e]
          /\ pending[d].rows = Append(docs[d].rows, row)
      BY <2>2, <3>1 DEF Document
    <3> HIDE DEF d
    <3>3. Recorded(pending) = Longer(Recorded(docs), d, row.content)
      BY <1>1, <3>1, <3>2, OneMore
    <3>4. QED
      BY <3>3 DEF d, Longer
  <2>4. QED
    BY <1>1, <2>1, <2>2, <2>3
<1>5. QED
  BY <1>1, <1>2, <1>3, <1>4 DEF AllKinds, NewKinds

\* Only a commit changes the tables.
LEMMA TablesByCommit ==
  ASSUME [Next]_vars
  PROVE  docs' = docs \/ \E r \in Requests : Commit(r)
<1>1. ASSUME NEW r \in Requests,
             \/ Stage(r) \/ Retry(r) \/ Replay(r) \/ Refuse(r) \/ Busy(r)
             \/ Begin(r) \/ Publish(r) \/ PublishFails(r) \/ TransactionFails(r)
             \/ CheckOwn(r) \/ Unlink(r) \/ Close(r)
      PROVE  docs' = docs
  BY <1>1 DEF tables, Stage, Retry, Replay, Refuse, Busy, Answered, Begin, Publish,
     PublishFails, TransactionFails, CheckOwn, Unlink, Close
<1>2. CASE Crash \/ Restart
  BY <1>2 DEF tables, Crash, Restart
<1>3. CASE BackUpDatabase \/ BackupFails \/ PublishBackup
  BY <1>3 DEF tables, BackUpDatabase, BackupFails, PublishBackup
<1>4. CASE CopyFile
  <2>1. docs' = docs
    BY <1>4 DEF tables, CopyFile
  <2>2. QED
    BY <2>1
<1>5. CASE UNCHANGED vars
  BY <1>5 DEF vars, tables
<1>6. QED
  BY <1>1, <1>2, <1>3, <1>4, <1>5 DEF Next

\* These are the steps of VersionHistory.
LEMMA RecordedSteps ==
  ASSUME DOMAIN Archive = DOMAIN docs,
         \/ Archive' = Archive
         \/ \E n \in 1..2 : \E c \in Contents : Archive' = Archive \o [i \in 1..n |-> <<c>>]
         \/ \E d \in DOMAIN docs : \E c \in Contents : Archive' = [Archive EXCEPT ![d] = Append(@, c)]
  PROVE  [History!HNext]_Archive
BY DEF History!HNext, History!AddDocuments, History!AddVersion, Archive

\* While every row has its file, a step records a whole request or nothing.
LEMMA HistoryStep ==
  ASSUME SInv, FInv, SInv', FInv', [Next]_vars
  PROVE  [History!HNext]_Archive
<1>1. Archive = Recorded(docs) /\ Archive' = Recorded(docs')
  <2>1. Stored(docs) /\ Stored(docs)'
    BY DEF FInv
  <2>2. Archive = Recorded(docs)
    BY <2>1, ArchiveIsRecorded
  <2>3. (Archive = Recorded(docs))'
    BY <2>1, ArchiveIsRecorded, PTL
  <2>4. QED
    BY <2>2, <2>3 DEF Recorded
<1>2. CASE docs' = docs
  BY <1>1, <1>2
<1>3. CASE \E r \in Requests : Commit(r)
  <2>1. \/ Archive' = Archive
        \/ \E n \in 1..2 : \E c \in Contents : Archive' = Archive \o [i \in 1..n |-> <<c>>]
        \/ \E d \in DOMAIN docs : \E c \in Contents :
             Archive' = [Archive EXCEPT ![d] = Append(@, c)]
    BY <1>1, <1>3, CommitRecords
  <2>2. DOMAIN Archive = DOMAIN docs
    BY DEF Archive
  <2>3. QED
    BY <2>1, <2>2, RecordedSteps
<1>4. QED
  BY <1>2, <1>3, TablesByCommit

LEMMA NothingStored == Init => Archive = <<>>
BY DEF Init, Archive

\* Until a transaction fails with files published, what can be downloaded is a
\* history that grows by whole requests, each at its commit, and by nothing else.
THEOREM GrowsUntilLate == Spec => Archive = <<>> /\ [][NoneLate' => [History!HNext]_Archive]_vars
<1>1. SInv /\ (NoneLate => FInv) /\ (SInv /\ (NoneLate => FInv))' /\ [Next]_vars
        => (NoneLate' => [History!HNext]_Archive)
  <2>1. ASSUME SInv, NoneLate => FInv, SInv', NoneLate' => FInv', [Next]_vars, NoneLate'
        PROVE  [History!HNext]_Archive
    <3>1. NoneLate
      BY <2>1, LateSteps DEF NoneLate
    <3>2. QED
      BY <2>1, <3>1, HistoryStep
  <2>2. QED
    BY <2>1
<1>2. QED
  BY <1>1, NothingStored, FInvariant, PTL DEF Spec

\* So where no transaction fails that late the store implements VersionHistory.
THEOREM StoresHistory == MaxLate = 0 => (Spec => Refines)
<1>1. ASSUME MaxLate = 0 PROVE Spec => []NoneLate
  <2>1. Init => NoneLate
    BY DEF Init, NoneLate
  <2>2. SInv /\ NoneLate /\ [Next]_vars => NoneLate'
    BY <1>1, LateSteps DEF NoneLate
  <2>3. QED
    BY <2>1, <2>2, SInvariant, PTL DEF Spec
<1>2. SInv /\ FInv /\ (SInv /\ FInv)' /\ [Next]_vars => [History!HNext]_Archive
  BY HistoryStep
<1>3. ASSUME MaxLate = 0 PROVE Spec => Refines
  BY <1>1, <1>2, <1>3, NothingStored, FInvariant, PTL DEF Spec, Refines, History!HSpec, History!HInit, Archive
<1>4. QED
  BY <1>3
=============================================================================
