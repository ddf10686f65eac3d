---------------------------- MODULE MCOAuthTokens ----------------------------
(* Instances of OAuthTokens for TLC. *)
EXTENDS OAuthTokens, FiniteSets, TLC

CONSTANTS u1, u2, c1, c2, v1, v2, k1, k2, r1, r2, r3, r4, j1, j2, j3, j4, q1, q2

AllURIs == {"app", "other"}
RegisteredOne == [c \in Clients |-> {"app"}]
ShortTTL == [c \in Clients |-> 1]
DefaultTTL == [c \in Clients |-> 0]

\* Random identifiers and request slots are interchangeable.
Symmetry == Permutations(Codes) \cup Permutations(Refreshes)
              \cup Permutations(Jtis) \cup Permutations(Requests)

\* Each run keeps still what its question is not about.
NoConsole ==
  /\ lastActive = EmptyStore
  /\ \A j \in DOMAIN access : access[j].client # Admin

NoRevocation == revokedEver = {}

NoAdmin == users = Users /\ active = Clients /\ allowed = {}

\* At most one change by the administrator at a time.
QuietAdmin ==
  Cardinality(Users \ users) + Cardinality(Clients \ active)
    + Cardinality(allowed) <= 1
=============================================================================
