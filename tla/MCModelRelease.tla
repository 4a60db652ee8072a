--------------------------- MODULE MCModelRelease ---------------------------
(* Small instances of ModelRelease for TLC. *)
EXTENDS ModelRelease

CONSTANTS a, b, blank

Plain(n) == <<n, FALSE>>
Padded(n) == <<n, TRUE>>
Group(n, cs) == [target |-> n, covariates |-> cs]

(* Accepted: one or two groups, padded names among them, also    *)
(* such that are alike once stripped.  Refused: none, a blank name, a *)
(* target twice or among its covariates.                                   *)
SmallRequests ==
    { <<Group(Plain(a), {Plain(b)})>>,
      <<Group(Plain(a), {Plain(b)}), Group(Plain(b), {})>>,
      <<Group(Plain(a), {}), Group(Padded(a), {Plain(b)})>>,
      <<Group(Padded(a), {Plain(b)})>>,
      <<Group(Plain(a), {Padded(a)})>>,
      << >>,
      <<Group(Padded(blank), {})>>,
      <<Group(Plain(a), {}), Group(Plain(a), {Plain(b)})>>,
      <<Group(Plain(a), {Plain(a)})>> }
=============================================================================
