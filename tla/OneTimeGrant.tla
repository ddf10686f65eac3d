---------------------------- MODULE OneTimeGrant ----------------------------
(***************************************************************************)
(* What OneAuth promises of a one-time credential: an authorization code,  *)
(* a refresh token under rotation, a CAS service ticket.  The code reads   *)
(* the credential, deletes it, and only then acts on it; reading and       *)
(* deleting are two store calls, so requests that overlap can hold the     *)
(* same credential.  The promise that is left is:                          *)
(*                                                                         *)
(*   - a request can take hold of a credential only while it is live;      *)
(*   - a credential is honoured only after it is dead;                     *)
(*   - a dead credential never comes back.                                 *)
(*                                                                         *)
(* Hence once one request has been answered with success, no later request *)
(* can even begin to redeem the same credential.                           *)
(***************************************************************************)
CONSTANTS Key, Holder

VARIABLES
  phase,     \* Key -> "fresh" | "live" | "dead"
  held,      \* pairs <<holder, key>>: read while live, answer still open
  honoured   \* keys that have been answered with success at least once

grantVars == <<phase, held, honoured>>

GrantTypeOK ==
  /\ phase \in [Key -> {"fresh", "live", "dead"}]
  /\ held \subseteq Holder \X Key
  /\ honoured \subseteq Key

GrantInit ==
  /\ phase = [k \in Key |-> "fresh"]
  /\ held = {}
  /\ honoured = {}

\* What can happen to the credentials themselves in one step.
PhaseStep(k) ==
  \/ phase'[k] = phase[k]
  \/ phase[k] = "fresh" /\ phase'[k] = "live"
  \/ phase[k] = "live" /\ phase'[k] = "dead"

\* A holder appears only on a live credential.
Take(h, k) == <<h, k>> \in held' \ held => phase[k] = "live"

\* Success needs a holder, and a credential that is dead by now.
Honour(k) ==
  k \in honoured' \ honoured => /\ phase[k] = "dead"
                                /\ \E h \in Holder : <<h, k>> \in held

GrantNext ==
  /\ phase' \in [Key -> {"fresh", "live", "dead"}]
  /\ held' \subseteq Holder \X Key
  /\ honoured \subseteq honoured' /\ honoured' \subseteq Key
  /\ \A k \in Key : PhaseStep(k) /\ Honour(k)
  /\ \A h \in Holder, k \in Key : Take(h, k)

GrantSpec == GrantInit /\ [][GrantNext]_grantVars

\* A credential that was honoured is dead: nobody can take hold of it again.
HonouredIsDead == \A k \in honoured : phase[k] = "dead"
=============================================================================
