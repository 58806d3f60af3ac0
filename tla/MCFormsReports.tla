---------------------------- MODULE MCFormsReports ----------------------------
(***************************************************************************)
(* The forms on a device, and the reports of the server.  They share no    *)
(* variable, so that a behaviour is of one of them and the states are the  *)
(* sum of theirs.                                                          *)
(*                                                                         *)
(* Forms: two accounts of a tenant, one of which is given the larger form  *)
(* only, the other that one or both.  Reports: two inspections whose       *)
(* documents have one name and a third that cannot be exported, all of     *)
(* them arrived or none; one photo with three versions, the last of        *)
(* another type.                                                           *)
(***************************************************************************)
EXTENDS DeviceForms, Reports, TLC

CONSTANTS a1, a2, f1, f2, t1, i1, i2, i3

VARIABLE side

MCAccountTenant == [x \in Account |-> t1]
MCFormTenant == [x \in Form |-> t1]
MCFormOrder == f1 :> 1 @@ f2 :> 2
MCAssignment == a1 :> {{f1, f2}, {f2}} @@ a2 :> {{f2}}
MCSize == f1 :> 1 @@ f2 :> 2
MCMime == <<"jpg", "jpg", "png">>
MCBaseName == i1 :> a1 @@ i2 :> a1 @@ i3 :> a2

\* Upload = Task.
Symmetry == Permutations(Task)

MCInit ==
  /\ FormsInit /\ ReportsInit
  /\ DOMAIN answer \in {{}, Inspection}
  /\ side \in {"forms", "reports"}
  /\ side # "reports" => answer = << >>

MCNext ==
  \/ side = "forms" /\ FormsNext /\ UNCHANGED <<photoVars, reportVars, side>>
  \/ side = "reports" /\ ReportsNext /\ UNCHANGED <<formsVars, side>>

MCSpec == MCInit /\ [][MCNext]_<<formsVars, photoVars, reportVars, side>>
=============================================================================
