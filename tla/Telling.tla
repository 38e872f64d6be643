------------------------------ MODULE Telling -------------------------------
(***************************************************************************)
(* What a notified characteristic promises to its central, and nothing     *)
(* about how: generations of the value are learnt in order, never before   *)
(* they exist, and a central that stays subscribed to a value that has     *)
(* stopped changing ends up knowing the last one.                          *)
(***************************************************************************)
EXTENDS Naturals

CONSTANT Bound  \* generations explored

VARIABLES current,  \* generation of the value
          known,    \* newest generation the central knows or may ignore
          live,     \* a central is connected and subscribed
          excused   \* the value has come back to the one last told of

tellVars == <<current, known, live>>

TellInit ==
  /\ current = 0
  /\ known = 0
  /\ live = FALSE

Change ==
  /\ current < Bound
  /\ current' = current + 1
  /\ UNCHANGED <<known, live>>

\* The central learns a generation newer than the one it knew (from a
\* notification, or from the response to a read or a write of its own).
Learn ==
  /\ known < current
  /\ \E n \in (known + 1) .. current : known' = n
  /\ UNCHANGED <<current, live>>

\* A subscription starts: the value at that moment is no news.
Open ==
  /\ ~live
  /\ live' = TRUE
  /\ known' = current
  /\ UNCHANGED current

Close ==
  /\ live
  /\ live' = FALSE
  /\ UNCHANGED <<current, known>>

TellNext == Change \/ Learn \/ Open \/ Close

TellSafety == TellInit /\ [][TellNext]_tellVars

(***************************************************************************)
(* A central that stays connected and subscribed, while the value has      *)
(* stopped changing, ends up knowing the current value, unless the value   *)
(* did not change in the eyes of the program.                              *)
(***************************************************************************)
Settles ==
  \A n \in 0 .. Bound :
    <>[](live /\ current = n) => <>[](known = n \/ excused)
=============================================================================
