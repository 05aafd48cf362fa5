---------------------------- MODULE PilotSessions ----------------------------
(***************************************************************************)
(* Pilot sessions as live/operations.py derives them from the audit log.   *)
(*                                                                         *)
(* A log is a function from row ids to rows.  Rows carry a timestamp the   *)
(* OPERATOR supplies: an instant and the UTC offset it was written in.     *)
(* created_at is stored and compared as its ISO text, so rows are read     *)
(* back in the order of the wall-clock time, offset ignored, and then of   *)
(* the row id; comparisons made in Python are between instants.            *)
(***************************************************************************)
EXTENDS Integers, Sequences, FiniteSets

CONSTANT Pilots       \* pilot session ids

\* A value that is not a pilot id: --pilot-id left out, a row about no session.
AnyPilot == "ANY"

ASSUME PilotsAssumption == AnyPilot \notin Pilots

HardCodes ==
  {"RISK_RULE_VIOLATION", "CRITICAL_SYSTEM_ERROR", "RED_BLACK_STATE",
   "EMERGENCY_SHUTDOWN_ACTIVE"}

ReasonCodes == HardCodes \cup {"OPERATOR_STOP"}

-----------------------------------------------------------------------------
(* Timestamps *)

\* isoformat(): offsets are counted from the westernmost one, in ticks.
Text(t) == t.instant + t.offset

\* A timestamp taken at an instant of time by a program running in UTC.
Utc(instant) == [instant |-> instant, offset |-> 0]

-----------------------------------------------------------------------------
(* Reading the log *)

\* [fault] future rows are read as well
AsOf_Everything(l, t) == l

\* WHERE created_at <= ?
AsOf(l, t) == [i \in {j \in DOMAIN l : Text(l[j].at) <= Text(t)} |-> l[i]]

\* Row i is read no earlier than row j: ORDER BY created_at ASC, id ASC.
NotBefore(l, i, j) ==
  \/ Text(l[i].at) > Text(l[j].at)
  \/ Text(l[i].at) = Text(l[j].at) /\ i >= j

IsLast(l, i, S) == i \in S /\ \A j \in S : NotBefore(l, i, j)

RowsOf(l, p, kinds) ==
  {i \in DOMAIN l : l[i].pilot = p /\ l[i].kind \in kinds}

-----------------------------------------------------------------------------
(* load_pilot_sessions *)

Exists(l, p) == RowsOf(l, p, {"STARTED"}) # {}

Lifecycle == {"STARTED", "STOPPED", "RESUMED"}

\* The fold overwrites the status with every lifecycle row it meets, from the
\* first STARTED row on: the last row read is what counts.
Active(l, p) ==
  /\ Exists(l, p)
  /\ \E i \in DOMAIN l : IsLast(l, i, RowsOf(l, p, Lifecycle)) /\ l[i].kind # "STOPPED"

ActiveSessions(l) == {p \in Pilots : Active(l, p)}

\* The last STARTED row gives a session its config version and review date.
StartRow(l, p) == CHOOSE i \in DOMAIN l : IsLast(l, i, RowsOf(l, p, {"STARTED"}))

\* The STOPPED row that gives stop_reason_code and stopped_at of a stopped session.
IsStopRow(l, i, p) ==
  IsLast(l, i, RowsOf(l, p, Lifecycle)) /\ l[i].kind = "STOPPED" /\ Exists(l, p)

\* _has_reset_review_after_stop compares instants.
ReviewedSince(l, p, t) ==
  \E i \in RowsOf(l, p, {"RESET_REVIEW"}) : l[i].at.instant >= t.instant

\* [fault] hard stops are resumed like any other
MayResume_Unreviewed(l, p) == TRUE

\* resume_pilot_session: a hard stop needs a reset review no older than it.
MayResume(l, p) ==
  \A i \in DOMAIN l :
    IsStopRow(l, i, p) /\ l[i].reason \in HardCodes => ReviewedSince(l, p, l[i].at)
=============================================================================
