--------------------------- MODULE AtomicUpgrade ---------------------------
(***************************************************************************)
(* What an upgrade of an installation promises to the people who use it.   *)
(*                                                                         *)
(* An installation has one version and one ledger of acknowledged business *)
(* writes.  While it serves writes, it serves them at its version; while   *)
(* it is suspended, an upgrade may replace the version as a whole, and     *)
(* nothing that was acknowledged is ever lost.  Rollback, crash and retry  *)
(* do not appear: they must be invisible at this level.                    *)
(***************************************************************************)
EXTENDS Integers

CONSTANTS
  Writes,      \* the business writes that clients may send
  MaxVersion   \* versions are 1..MaxVersion

VARIABLES
  version,     \* the version of the installation
  serving,     \* 0: writes are refused; v: writes run against version v
  ledger       \* the writes the installation holds

avars == <<version, serving, ledger>>

AInit ==
  /\ version \in 1..MaxVersion
  /\ serving \in {0, version}
  /\ ledger = {}

\* The service accepts writes again, at the version of the installation.
Open ==
  /\ serving = 0
  /\ serving' = version
  /\ UNCHANGED <<version, ledger>>

Suspend ==
  /\ serving # 0
  /\ serving' = 0
  /\ UNCHANGED <<version, ledger>>

\* A write is acknowledged; it may be the last one before a suspension.
Write(w) ==
  /\ serving = version
  /\ ledger' = ledger \cup {w}
  /\ serving' \in {serving, 0}
  /\ UNCHANGED version

\* The whole upgrade, in one step, only while no write can be running.
Upgrade(v) ==
  /\ serving = 0
  /\ v > version
  /\ version' = v
  /\ UNCHANGED <<serving, ledger>>

ANext ==
  \/ Open
  \/ Suspend
  \/ \E w \in Writes : Write(w)
  \/ \E v \in 1..MaxVersion : Upgrade(v)

ASpec == AInit /\ [][ANext]_avars
=============================================================================
