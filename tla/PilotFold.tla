------------------------------ MODULE PilotFold ------------------------------
(***************************************************************************)
(* load_pilot_sessions as it is written: one pass over the rows in the     *)
(* order ORDER BY created_at ASC, id ASC, overwriting a dictionary of      *)
(* sessions.  PilotOperations describes the outcome without the pass; the  *)
(* invariant here says that the two agree on every log the commands write. *)
(***************************************************************************)
EXTENDS PilotOperations

\* The n-th row the query returns has n - 1 rows before it.
ReadEarlier(l, i) == {j \in DOMAIN l : ~NotBefore(l, j, i)}
RowAt(l, n) == CHOOSE i \in DOMAIN l : Cardinality(ReadEarlier(l, i)) = n - 1

NoSession == [status |-> "ABSENT", version |-> "NONE", due |-> 0, reason |-> "NONE", stoppedAt |-> Utc(0)]

\* [fault] a session that is started again is left as it was
Apply_KeepsOld(s, r) ==
  CASE r.kind = "STARTED" /\ s.status = "ABSENT" ->
         [status |-> "ACTIVE", version |-> r.version, due |-> r.due, reason |-> "NONE", stoppedAt |-> Utc(0)]
    [] r.kind = "STOPPED" /\ s.status # "ABSENT" ->
         [s EXCEPT !.status = "STOPPED", !.reason = r.reason, !.stoppedAt = r.at]
    [] r.kind = "RESUMED" /\ s.status # "ABSENT" ->
         [s EXCEPT !.status = "ACTIVE", !.reason = "NONE", !.stoppedAt = Utc(0)]
    [] OTHER -> s

\* The body of the loop, for one row and the session of its pilot.
Apply(s, r) ==
  CASE r.kind = "STARTED" ->
         [status |-> "ACTIVE", version |-> r.version, due |-> r.due, reason |-> "NONE", stoppedAt |-> Utc(0)]
    [] r.kind = "STOPPED" /\ s.status # "ABSENT" ->
         [s EXCEPT !.status = "STOPPED", !.reason = r.reason, !.stoppedAt = r.at]
    [] r.kind = "RESUMED" /\ s.status # "ABSENT" ->
         [s EXCEPT !.status = "ACTIVE", !.reason = "NONE", !.stoppedAt = Utc(0)]
    [] OTHER -> s

\* The dictionary after the whole pass.
Sessions(l) ==
  LET after[n \in 0 .. Len(l)] ==
        IF n = 0 THEN [p \in Pilots |-> NoSession]
        ELSE LET r == l[RowAt(l, n)] IN [after[n - 1] EXCEPT ![r.pilot] = Apply(@, r)]
  IN after[Len(l)]

\* What PilotOperations reads off the log for pilot p.
Derived(l, p) ==
  IF ~Exists(l, p) THEN NoSession
  ELSE LET start == l[StartRow(l, p)]
           base == [status |-> "ACTIVE", version |-> start.version, due |-> start.due,
                    reason |-> "NONE", stoppedAt |-> Utc(0)]
       IN IF Active(l, p) THEN base
          ELSE LET stop == l[CHOOSE i \in DOMAIN l : IsStopRow(l, i, p)]
               IN [base EXCEPT !.status = "STOPPED", !.reason = stop.reason, !.stoppedAt = stop.at]

\* Rows inserted out of the order of their timestamps, stops and resumes read before
\* the start they belong to, and ids started twice are where the pass and its
\* outcome could part.
FoldAgrees == \A p \in Pilots : Sessions(log)[p] = Derived(log, p)
=============================================================================
