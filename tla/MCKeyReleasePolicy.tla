------------------------- MODULE MCKeyReleasePolicy -------------------------
(***************************************************************************)
(* Instances of KeyReleasePolicy for TLC.                                   *)
(***************************************************************************)
EXTENDS KeyReleasePolicy

CONSTANTS ver, svn, unknown

Change(type, claims, gte, gt) ==
  [type |-> type, claims |-> claims, gte |-> gte, gt |-> gt]

\* A claim and its values or its bound; two claims.
On(c, x) == [d \in {c} |-> x]
OnBoth(x, y) == [d \in {ver, svn} |-> IF d = ver THEN x ELSE y]

\* One value or several, in both orders and with a duplicate; one claim or two;
\* an operator alone or with claims; and edits that throw: an unknown claim or
\* type.
AllEdits ==
  {Change("add", On(ver, <<1>>), Missing, Missing),
   Change("add", On(ver, <<2, 1, 2>>), Missing, Missing),
   Change("add", OnBoth(<<1>>, <<1, 2>>), On(svn, 1), Missing),
   Change("add", <<>>, On(ver, 2), Missing),
   Change("add", <<>>, Missing, On(svn, 1)),
   Change("add", On(unknown, <<1>>), Missing, Missing),
   Change("remove", On(ver, <<1>>), Missing, Missing),
   Change("remove", On(ver, <<1, 2>>), Missing, Missing),
   Change("remove", On(ver, <<2, 1>>), On(ver, 1), Missing),
   Change("remove", On(svn, <<2>>), On(svn, 2), Missing),
   Change("remove", <<>>, Missing, On(svn, 1)),
   Change("other", <<>>, Missing, Missing)}
=============================================================================
