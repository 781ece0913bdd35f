---------------------------- MODULE MCKeyRelease ----------------------------
(***************************************************************************)
(* Instances of KeyRelease for TLC: two owners of wrapping keys, app with   *)
(* attestations and vm without good ones, and a service set up to release   *)
(* to software version 1, to trust tokens of SEV-SNP machines, and with its *)
(* first key.                                                               *)
(***************************************************************************)
EXTENDS KeyRelease

CONSTANTS k1, k2, app, vm, ver, google, hwmodel, snp, tdx

Pem(owner) == [owner |-> owner, form |-> "pem"]
Escaped(owner) == [owner |-> owner, form |-> "escaped"]

Report(version, string, genuine) ==
  [claims |-> [c \in {ver} |-> version], reportData |-> Hash(string),
   genuine |-> genuine]

\* Reports for app with either version; for vm only a forged one and one for
\* an escaped key.
AppReport == Report(1, Pem(app), TRUE)
SomeEvidence == {AppReport, Report(2, Pem(app), TRUE),
                 Report(1, Pem(vm), FALSE), Report(1, Escaped(vm), TRUE)}

\* A token for a machine and its nonces.
TokenOf(machine, nonce) ==
  [policy |-> "jwt", iss |-> google, payload |-> [c \in {hwmodel} |-> machine],
   nonce |-> nonce]

AppToken == TokenOf(snp, <<Hash(Pem(app)), Hash(Pem(vm))>>)
PlainToken == TokenOf(snp, Undefined)
SomeCallers == {AppToken, PlainToken, TokenOf(snp, <<>>),
                TokenOf(tdx, <<Hash(Pem(vm))>>),
                [PlainToken EXCEPT !.iss = Undefined]}

SomePayloads == {c.payload : c \in SomeCallers}

SomeWorkloads == {[caller |-> PlainToken, attestation |-> AppReport,
                   provider |-> "azure", wrappingKey |-> Pem(app),
                   kid |-> <<k1, 1>>]}
SomeTokenWorkloads == {[caller |-> AppToken, wrappingKey |-> Escaped(app)]}

\* The policies of governance, to begin with and later.
Asking(machine) ==
  [c \in {hwmodel} |-> [list |-> FALSE, values |-> {machine}]]
SomeJwtPolicies == {Asking(snp), Asking(tdx)}

SomeRotations == {[rotation_interval_seconds |-> 0, grace_period_seconds |-> 0]}

Change(type, version) ==
  [type |-> type, claims |-> [c \in {ver} |-> <<version>>],
   gte |-> Missing, gt |-> Missing]
\* The last edit sets both operators, of which only gt will be in force.
SomeEdits == {Change("add", 2), Change("remove", 1),
              [type |-> "add", claims |-> [c \in {} |-> <<>>],
               gte |-> [c \in {ver} |-> 2], gt |-> [c \in {ver} |-> 0]]}

Configured ==
  [ids |-> <<<<k1, 1>>>>,
   keys |-> [kid \in {<<k1, 1>>} |-> [id |-> 11, timestamp |-> 0,
                                     expiry |-> NoExpiry, version |-> 1]],
   rotation |-> Unset,
   release |-> [claims |-> [c \in {ver} |-> <<1>>], gte |-> Missing,
                gt |-> Missing],
   jwt |-> [i \in {google} |-> Asking(snp)]]

TwoKeys == {k1, k2}
=============================================================================
