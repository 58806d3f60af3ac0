---------------------------- MODULE MCSyncIngest ----------------------------
(* An inspection with three versions on the way (the third has the payload of
   the first again), a finding and a photo of the finding; one record of another
   tenant and one malformed record. *)
EXTENDS SyncIngest, TLC

CONSTANTS insp, find, photo, x, y

MCTypeOf == insp :> "inspection" @@ find :> "finding" @@ photo :> "attachment"
MCRefs == insp :> {} @@ find :> {insp} @@ photo :> {find}

Record(i, at, version, data) ==
  [id |-> i, captured_at |-> at, client_version |-> version, data |-> data,
   own |-> TRUE, valid |-> TRUE]

I1 == Record(insp, 1, 0, x)
I2 == Record(insp, 2, 0, y)
I3 == Record(insp, 2, 1, x)
F1 == Record(find, 1, 0, x)
P1 == Record(photo, 1, 0, x)
OtherTenant == [F1 EXCEPT !.own = FALSE, !.captured_at = 3]
Broken == [F1 EXCEPT !.valid = FALSE, !.captured_at = 4]

MCSent == {I1, I2, I3, F1, P1, OtherTenant, Broken}
MCBodies == {{I1}, {I3}, {F1, P1, I2}, {I1, OtherTenant, Broken}, {I1, Broken}}

Symmetry == Permutations(Request)
=============================================================================
