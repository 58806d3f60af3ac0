--------------------------- MODULE MCClientOutbox ---------------------------
(* An inspection with an answer, the photo of the answer and a finding on
   another item; a log entry. *)
EXTENDS ClientOutbox, TLC

CONSTANTS insp, resp, find, photo

MCRootOf == resp :> insp @@ find :> insp
MCOwnerOf == photo :> resp
MCAboutOf == find :> None
=============================================================================
