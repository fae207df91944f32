---------------------------- MODULE FileVersions ----------------------------
(***************************************************************************)
(* How concurrent calls of store_version choose version numbers in one     *)
(* directory (features/files.py, _publish_in_bound_directory) without any  *)
(* lock: by hard links to reservation names, which the file system creates *)
(* for one caller only, and by listing the directory again under the       *)
(* reservation.                                                            *)
(*                                                                         *)
(* A listing is not atomic: it returns every name that is there from its   *)
(* beginning to its end, and perhaps names that come or go meanwhile.      *)
(***************************************************************************)
EXTENDS Integers, FiniteSets

CONSTANTS
  Calls,        \* the calls of store_version, each with its own staged file
  Old,          \* versions the directory may hold at first
  Residue       \* numbers a dead process may have left reserved

Earlier == "earlier"   \* the owner of what was there before
ASSUME CallsAssumption == Earlier \notin Calls
ASSUME VersionsAssumption == Old \subseteq Nat \ {0} /\ Residue \subseteq Nat \ {0}

VARIABLES
  targets,      \* published names: version and owner
  reserved,     \* names .version-<number>.reserve: number and owner
  pc,           \* the next step of each call
  ver,          \* the number each call is trying
  seen,         \* names there when the call began its current listing
  before        \* history: names there when the call began

numberingVars == <<targets, reserved, pc, ver, seen, before>>

Versions == Nat \ {0}
Owners == Calls \cup {Earlier}
Target == [ver : Versions, by : Owners]

NumberingInit ==
  /\ \E old \in SUBSET Old : targets = {[ver |-> v, by |-> Earlier] : v \in old}
  /\ \E left \in SUBSET Residue :
       reserved = {[ver |-> v, by |-> Earlier] : v \in left}
  /\ pc = [c \in Calls |-> "new"]
  /\ ver = [c \in Calls |-> 1]
  /\ seen = [c \in Calls |-> {}]
  /\ before = [c \in Calls |-> {}]

\* Mutation: any version of the listing, not the highest.
HighestOfSome(c, h) == h = 0 \/ \E t \in seen[c] \cup targets : t.ver = h

\* _next_bound_version: one more than the highest version in a listing.
Highest(c, h) ==
  /\ \A t \in seen[c] \cap targets : t.ver <= h
  /\ h = 0 \/ \E t \in seen[c] \cup targets : t.ver = h

\* A version number some listing may yield.
Candidates ==
  {0} \cup {t.ver : t \in targets} \cup (UNION {{t.ver : t \in seen[c]} : c \in Calls})

Entry(c) == [ver |-> ver[c], by |-> c]
Taken(c) == \E r \in reserved : r.ver = ver[c]

Goto(c, step) == pc' = [pc EXCEPT ![c] = step]

Start(c) ==
  /\ pc[c] = "new"
  /\ before' = [before EXCEPT ![c] = targets]
  /\ seen' = [seen EXCEPT ![c] = targets]
  /\ Goto(c, "list")
  /\ UNCHANGED <<targets, reserved, ver>>

List(c) ==
  /\ pc[c] = "list"
  /\ \E h \in Candidates :
       /\ Highest(c, h)
       /\ ver' = [ver EXCEPT ![c] = h + 1]
  /\ Goto(c, "reserve")
  /\ UNCHANGED <<targets, reserved, seen, before>>

\* Mutation: an existing reservation is taken over.
ReserveAnyway(c) ==
  /\ pc[c] = "reserve"
  /\ reserved' = reserved \cup {Entry(c)}
  /\ Goto(c, "reserved")
  /\ UNCHANGED <<targets, ver, seen, before>>

Reserve(c) ==
  /\ pc[c] = "reserve"
  /\ ~Taken(c)
  /\ reserved' = reserved \cup {Entry(c)}
  /\ Goto(c, "reserved")
  /\ UNCHANGED <<targets, ver, seen, before>>

\* Mutation: the same number is tried again.
ReserveTakenSame(c) == pc[c] = "reserve" /\ Taken(c) /\ UNCHANGED numberingVars

\* FileExistsError: try the next number.
ReserveTaken(c) ==
  /\ pc[c] = "reserve"
  /\ Taken(c)
  /\ ver' = [ver EXCEPT ![c] = @ + 1]
  /\ UNCHANGED <<targets, reserved, pc, seen, before>>

BeginRelist(c) ==
  /\ pc[c] = "reserved"
  /\ seen' = [seen EXCEPT ![c] = targets]
  /\ Goto(c, "relist")
  /\ UNCHANGED <<targets, reserved, ver, before>>

\* Mutation: whatever the listing says, the reserved number is kept.
RelistIgnored(c) ==
  /\ pc[c] = "relist"
  /\ Goto(c, "link")
  /\ UNCHANGED <<targets, reserved, ver, seen, before>>

\* The number was used before it was reserved: give it back and go on.
Outrun(c) ==
  \E h \in Candidates :
    /\ Highest(c, h) /\ h + 1 > ver[c]
    /\ reserved' = reserved \ {Entry(c)}
    /\ ver' = [ver EXCEPT ![c] = h + 1]
    /\ Goto(c, "reserve")

Current(c) ==
  /\ \E h \in Candidates : Highest(c, h) /\ h + 1 <= ver[c]
  /\ Goto(c, "link")
  /\ UNCHANGED <<reserved, ver>>

Relist(c) ==
  /\ pc[c] = "relist"
  /\ Outrun(c) \/ Current(c)
  /\ UNCHANGED <<targets, seen, before>>

Link(c) ==
  /\ pc[c] = "link"
  /\ targets' = targets \cup {Entry(c)}
  /\ Goto(c, "linked")
  /\ UNCHANGED <<reserved, ver, seen, before>>

\* _complete_publication: the reservation goes last.
Complete(c) ==
  /\ pc[c] = "linked"
  /\ reserved' = reserved \ {Entry(c)}
  /\ Goto(c, "done")
  /\ UNCHANGED <<targets, ver, seen, before>>

Mine(c) == {t \in targets : t.by = c}
Holds(c) == pc[c] \in {"reserved", "relist", "link", "linked"}

\* Any step may fail; the call removes its own names, or cannot.
Fail(c) ==
  /\ pc[c] \in {"list", "reserve", "reserved", "relist", "link", "linked"}
  /\ targets' \in {targets, targets \ Mine(c)}
  /\ reserved' \in {reserved} \cup
       (IF Holds(c) THEN {reserved \ {Entry(c)}} ELSE {})
  /\ Goto(c, "failed")
  /\ UNCHANGED <<ver, seen, before>>

\* delete_stored_version, when the caller's own work fails later.
Delete(c) ==
  /\ pc[c] = "done"
  /\ targets' = targets \ Mine(c)
  /\ Goto(c, "deleted")
  /\ UNCHANGED <<reserved, ver, seen, before>>

Step(c) ==
  \/ List(c) \/ Reserve(c) \/ ReserveTaken(c) \/ BeginRelist(c)
  \/ Relist(c) \/ Link(c) \/ Complete(c)

NumberingNext == \E c \in Calls : Start(c) \/ Step(c) \/ Fail(c) \/ Delete(c)

NumberingSpec == NumberingInit /\ [][NumberingNext]_numberingVars

\* Threads run; nothing makes them fail or delete.
FairSpec == NumberingSpec /\ \A c \in Calls : WF_numberingVars(Step(c))

-----------------------------------------------------------------------------
Places == {"new", "list", "reserve", "reserved", "relist", "link", "linked",
           "done", "failed", "deleted"}

\* Every variable has its type.
NumberingTypeOK ==
  /\ targets \subseteq Target
  /\ reserved \subseteq Target
  /\ pc \in [Calls -> Places]
  /\ ver \in [Calls -> Versions]
  /\ seen \in [Calls -> SUBSET Target]
  /\ before \in [Calls -> SUBSET Target]

\* No two files ever carry the same version number, however the calls
\* interleave, fail, leave names behind or delete what they stored.
UniqueVersions == \A t, u \in targets : t.ver = u.ver => t = u

\* A stored version is newer than all that were there when its call began.
NewerThanBefore ==
  \A c \in Calls : \A t \in before[c] \cap targets :
    pc[c] = "done" => t.ver < ver[c]

\* Calls do not chase each other for ever: each one ends.
EveryCallEnds ==
  \A c \in Calls : pc[c] = "list" ~> pc[c] \in {"done", "failed", "deleted"}
=============================================================================
