-------------------------------- MODULE Lww --------------------------------
(***************************************************************************)
(* The version order of the synchronisation engine (FR-023): which of two  *)
(* versions of the same entity the server keeps.  A version carries        *)
(* captured_at (epoch milliseconds) and client_version (edit counter).     *)
(***************************************************************************)
EXTENDS Naturals

(* What decideLww compares: the two authority columns of a version.        *)
SameStamp(a, b) ==
  /\ a.captured_at = b.captured_at
  /\ a.client_version = b.client_version

(* TRUE when version a beats version b.  The code's third rule, the larger *)
(* id, never decides: decideLww gives both versions the id of the incoming *)
(* record, and an id is not larger than itself.                            *)
LwwWins(a, b) ==
  \/ a.captured_at > b.captured_at
  \/ /\ a.captured_at = b.captured_at
     /\ a.client_version > b.client_version

(* Mutant: a tie goes to the incoming record. *)
MutDecideLww(row, rec) ==
  IF SameStamp(row, rec) \/ LwwWins(rec, row) THEN "incoming_wins"
                                              ELSE "existing_wins"

(* The three outcomes of decideLww for a stored row and an incoming record.*)
DecideLww(row, rec) ==
  CASE SameStamp(row, rec) -> "equal"
    [] LwwWins(rec, row)   -> "incoming_wins"
    [] OTHER               -> "existing_wins"
=============================================================================
