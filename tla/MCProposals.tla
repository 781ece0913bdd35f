----------------------------- MODULE MCProposals -----------------------------
(***************************************************************************)
(* Instances of Proposals for TLC.                                          *)
(***************************************************************************)
EXTENDS Proposals, TLC

CONSTANTS settings, rotation, v1, v2

Put(slot, value) == [name |-> "set", slot |-> slot, value |-> value]
Add(value) == [name |-> "add", value |-> value]
Remove(value) == [name |-> "remove", value |-> value]
Unknown == [name |-> "unknown"]
Invalid == [name |-> "invalid"]

\* Replacing one policy or several, editing a claim, and actions that fail
\* after others of the same proposal have been applied.
AllScripts ==
  {<<Put(settings, v1)>>, <<Put(settings, v2), Put(rotation, v1)>>,
   <<Add(v1)>>, <<Put(settings, v1), Remove(v1)>>,
   <<Put(rotation, v2), Unknown>>, <<Invalid>>}

\* One effect, several proposals: for ties between creation times.
TieScripts == {<<Put(settings, v1)>>, <<Put(settings, v2)>>, <<>>}
=============================================================================
