---------------------------- MODULE PublicationLog ----------------------------
(***************************************************************************)
(* What the catalogue of templates promises whoever filled in a form: the  *)
(* versions of a template are a list that only grows at its end.  Nothing  *)
(* published changes or goes away (FR-049), so the pair (template,         *)
(* version) that an inspection keeps names one definition for ever         *)
(* (FR-028).                                                               *)
(***************************************************************************)
EXTENDS Sequences

CONSTANTS Template, Definition

VARIABLE log  \* the definitions published of each template, by version

Init == log = [t \in Template |-> << >>]

Publish(t, d) == log' = [log EXCEPT ![t] = Append(@, d)]

Next == \E t \in Template, d \in Definition : Publish(t, d)

Spec == Init /\ [][Next]_log
=============================================================================
