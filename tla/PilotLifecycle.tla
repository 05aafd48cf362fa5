---------------------------- MODULE PilotLifecycle ----------------------------
(***************************************************************************)
(* What live/operations.py promises about pilot sessions, as a machine     *)
(* with a state of its own instead of a log.  A command that reports       *)
(* success has taken effect: done counts those commands, and every step    *)
(* that counts one changes the session it names in the same step.          *)
(***************************************************************************)
EXTENDS Naturals

CONSTANT Pilots

VARIABLES
  status,    \* of each session
  reviewed,  \* sessions whose present hard stop has its reset review
  onFile,    \* sessions a reset review was ever recorded for
  done       \* commands that have reported success

abstractVars == <<status, reviewed, onFile, done>>

Statuses == {"ABSENT", "ACTIVE", "STOPPED", "HARD_STOPPED"}

NoneActive == \A p \in Pilots : status[p] # "ACTIVE"

Init ==
  /\ status = [p \in Pilots |-> "ABSENT"]
  /\ reviewed = {} /\ onFile = {} /\ done = 0

\* A new session, or an old one started again under its id.
StartSession(p) ==
  /\ NoneActive
  /\ status' = [status EXCEPT ![p] = "ACTIVE"]
  /\ reviewed' = reviewed \ {p}
  /\ UNCHANGED onFile

StopSession(p) ==
  /\ status[p] = "ACTIVE"
  /\ status' = [status EXCEPT ![p] = "STOPPED"]
  /\ UNCHANGED <<reviewed, onFile>>

\* A review on file may carry the very instant of the stop and then counts.
HardStopSession(p) ==
  /\ status[p] = "ACTIVE"
  /\ status' = [status EXCEPT ![p] = "HARD_STOPPED"]
  /\ \/ UNCHANGED reviewed
     \/ p \in onFile /\ reviewed' = reviewed \cup {p}
  /\ UNCHANGED onFile

\* A review may be recorded at any time, for any id.
ReviewSession(p) ==
  /\ onFile' = onFile \cup {p}
  /\ reviewed' = IF status[p] = "HARD_STOPPED" THEN reviewed \cup {p} ELSE reviewed
  /\ UNCHANGED status

ResumeSession(p) ==
  /\ NoneActive
  /\ status[p] = "STOPPED" \/ (status[p] = "HARD_STOPPED" /\ p \in reviewed)
  /\ status' = [status EXCEPT ![p] = "ACTIVE"]
  /\ reviewed' = reviewed \ {p}
  /\ UNCHANGED onFile

Next ==
  /\ done' = done + 1
  /\ \E p \in Pilots :
       \/ StartSession(p)
       \/ StopSession(p)
       \/ HardStopSession(p)
       \/ ReviewSession(p)
       \/ ResumeSession(p)

Spec == Init /\ [][Next]_abstractVars
=============================================================================
