-------------------------- MODULE SessionLifecycle --------------------------
(***************************************************************************)
(* What the session service promises about one refresh token, with no      *)
(* database, cache or handler in it: a token goes through its life in one  *)
(* direction, and access tokens are granted only while it lives.           *)
(*                                                                         *)
(*    fresh -> pending -> active -> lingering -> dead                      *)
(*                                                                         *)
(* A token is "lingering" when its session is gone but something (a cache  *)
(* entry, a request on its way) can still make use of it.  A lingering     *)
(* token never becomes active again and a dead one never does anything.    *)
(***************************************************************************)
CONSTANTS RefreshTokens, AccessTokens, None

VARIABLES
  status,  \* status[t]: how far the refresh token t is in its life
  grant    \* grant[a]: the refresh token that the live access token a is for

vars == <<status, grant>>

Stages == {"fresh", "pending", "active", "lingering", "dead"}

Legal == { <<"fresh", "pending">>,
           <<"pending", "active">>,   <<"pending", "dead">>,
           <<"active", "lingering">>, <<"active", "dead">>,
           <<"lingering", "dead">> }

Granting == {"active", "lingering"}

Init == /\ status = [t \in RefreshTokens |-> "fresh"]
        /\ grant  = [a \in AccessTokens |-> None]

(* One event may move many tokens (a crash ends every request, a single     *)
(* DELETE ends every session of a user), so the step is stated per token.   *)
Advance == \A t \in RefreshTokens :
              \/ status'[t] = status[t]
              \/ <<status[t], status'[t]>> \in Legal

Grants == \A a \in AccessTokens :
             \/ grant'[a] = grant[a]
             \/ grant'[a] = None
             \/ /\ grant[a] = None
                /\ grant'[a] \in RefreshTokens
                /\ status[grant'[a]] \in Granting

Next == Advance /\ Grants

Spec == Init /\ [][Next]_vars
=============================================================================
