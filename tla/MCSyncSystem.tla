---------------------------- MODULE MCSyncSystem ----------------------------
(* An inspection and what hangs from it: an answer and its photo; a finding and
   its photo; or an answer and a finding on it. *)
EXTENDS SyncSystem, TLC

CONSTANTS insp, resp, find, photo

MCRootOf == resp :> insp @@ find :> insp
MCRootOfResponse == resp :> insp
MCRootOfFinding == find :> insp
MCPhotoOfResponse == photo :> resp
MCPhotoOfFinding == photo :> find
MCAboutOf == find :> resp
MCAboutNone == find :> None
MCNothing == <<>>
=============================================================================
