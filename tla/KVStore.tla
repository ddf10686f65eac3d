------------------------------- MODULE KVStore -------------------------------
(***************************************************************************)
(* The key/value store with expiry that every OneAuth component shares     *)
(* (internal/oauth/store.go: Store, RedisStore, MemoryStore).  A store is  *)
(* a function from the keys it holds to entries [val, exp]; each key       *)
(* prefix of the code ("auth_code:", "refresh:", ...) is a store of its    *)
(* own in the models, because no operation spans two prefixes.             *)
(*                                                                         *)
(* Times are naturals.  exp = 0 is the zero time.Time: the entry never     *)
(* expires.                                                                *)
(***************************************************************************)
EXTENDS Integers

EmptyStore == [k \in {} |-> 0]

\* Expiry instant written by Set: a ttl that is not positive means "never".
ExpiryOf(ttl, now) == IF ttl > 0 THEN now + ttl ELSE 0

\* time.Now().After(expiresAt), guarded by !expiresAt.IsZero().
Expired(entry, now) == entry.exp # 0 /\ now > entry.exp

\* Get succeeds: the key is there and has not expired, collected or not.
Live(s, k, now) == k \in DOMAIN s /\ ~Expired(s[k], now)

\* Set overwrites value and expiry together.
Put(s, k, v, ttl, now) ==
  [x \in DOMAIN s \cup {k} |->
     IF x = k THEN [val |-> v, exp |-> ExpiryOf(ttl, now)] ELSE s[x]]

\* Del never fails, present or not.
Del(s, k) == [x \in DOMAIN s \ {k} |-> s[x]]

\* One tick of the collector: every expired entry goes.
Collect(s, now) == [x \in {k \in DOMAIN s : ~Expired(s[k], now)} |-> s[x]]

=============================================================================
