----------------------------- MODULE RedisLock -----------------------------
(***************************************************************************)
(* The per-key lease lock of CacheRepository.Lock (repository/cache.go):   *)
(* SETNX with a fresh token and a TTL, and a token-checked Lua release.    *)
(*                                                                         *)
(* Redis is the only arbiter.  A client can lose the reply of SETNX (the   *)
(* key is set, the caller gets an error and never releases).  Its release *)
(* runs under a 2 s timeout whose error is discarded, and go-redis sends a *)
(* command again when no reply comes: the server may run the script late,  *)
(* repeatedly or never.  The TTL can run out while the holder works.       *)
(***************************************************************************)
EXTENDS Integers, FiniteSets

CONSTANTS
    Clients,   \* goroutines that call Lock, one acquisition at a time each
    Keys,      \* "lock:renewal:<subscription id>"
    NoKey,     \* no key: the session of a client that holds nothing
    MaxToken   \* bound: how many SETNX a behaviour performs

ASSUME MaxTokenAssumption == MaxToken \in Nat

VARIABLES
    store,     \* Redis: key -> token, NoToken when the key is absent
    session,   \* client -> what its process believes it holds
    wire,      \* release scripts that Redis may still run
    nextToken, \* uuid.New(): tokens are never reused
    lapsed     \* history: tokens whose TTL ran out before their release

lockVars == <<store, session, wire, nextToken, lapsed>>

NoToken == 0
Tokens == 1..MaxToken
Idle == [key |-> NoKey, token |-> NoToken]
Holders == {c \in Clients : session[c].token # NoToken}

LockInit ==
    /\ store = [k \in Keys |-> NoToken]
    /\ session = [c \in Clients |-> Idle]
    /\ wire = {}
    /\ nextToken = 1
    /\ lapsed = {}

-----------------------------------------------------------------------------
(* Slip: SET instead of SETNX *)
AcquireWithoutNX(c, k) ==
    /\ c \notin Holders
    /\ nextToken <= MaxToken
    /\ store' = [store EXCEPT ![k] = nextToken]
    /\ session' = [session EXCEPT ![c] = [key |-> k, token |-> nextToken]]
    /\ nextToken' = nextToken + 1
    /\ UNCHANGED <<wire, lapsed>>

(* SetNX succeeds and the reply reaches the client. *)
Acquire(c, k) ==
    /\ c \notin Holders
    /\ nextToken <= MaxToken
    /\ store[k] = NoToken
    /\ store' = [store EXCEPT ![k] = nextToken]
    /\ session' = [session EXCEPT ![c] = [key |-> k, token |-> nextToken]]
    /\ nextToken' = nextToken + 1
    /\ UNCHANGED <<wire, lapsed>>

(* SetNX is applied but the client sees an error: nobody will release the key. *)
AcquireReplyLost(c, k) ==
    /\ c \notin Holders
    /\ nextToken <= MaxToken
    /\ store[k] = NoToken
    /\ store' = [store EXCEPT ![k] = nextToken]
    /\ nextToken' = nextToken + 1
    /\ UNCHANGED <<session, wire, lapsed>>

(* Slip: the handle stays usable after the unlock *)
UnlockKeepsSession(c) ==
    /\ c \in Holders
    /\ wire' = wire \union {session[c]}
    /\ UNCHANGED <<store, session, nextToken, lapsed>>

(* The deferred unlock: the script is sent, the result is not looked at. *)
Unlock(c) ==
    /\ c \in Holders
    /\ wire' = wire \union {session[c]}
    /\ session' = [session EXCEPT ![c] = Idle]
    /\ UNCHANGED <<store, nextToken, lapsed>>

(* The holder's process dies before its deferred unlock runs. *)
Crash(c) ==
    /\ c \in Holders
    /\ session' = [session EXCEPT ![c] = Idle]
    /\ UNCHANGED <<store, wire, nextToken, lapsed>>

(* Slip: DEL without comparing the token *)
AfterReleaseUnchecked(current, token) == NoToken

(* What the release script leaves in the key: it is deleted only when it   *)
(* still carries the releaser's token.                                     *)
AfterRelease(current, token) == IF current = token THEN NoToken ELSE current

(* Redis runs a release script, at once or after any delay.  When the reply *)
(* does not come the client library sends the command again, so that the    *)
(* script may run more than once.                                           *)
RunRelease(r) ==
    /\ r \in wire
    /\ store' = [store EXCEPT ![r.key] = AfterRelease(@, r.token)]
    /\ \E left \in {wire, wire \ {r}} : wire' = left
    /\ UNCHANGED <<session, nextToken, lapsed>>

(* The request is lost: the key stays until its TTL. *)
LoseRelease(r) ==
    /\ r \in wire
    /\ wire' = wire \ {r}
    /\ UNCHANGED <<store, session, nextToken, lapsed>>

(* The TTL of a key runs out. *)
Expire(k) ==
    /\ store[k] # NoToken
    /\ lapsed' = lapsed \union {store[k]}
    /\ store' = [store EXCEPT ![k] = NoToken]
    /\ UNCHANGED <<session, wire, nextToken>>

LockNext ==
    \/ \E c \in Clients, k \in Keys : Acquire(c, k) \/ AcquireReplyLost(c, k)
    \/ \E c \in Clients : Unlock(c) \/ Crash(c)
    \/ \E r \in wire : RunRelease(r) \/ LoseRelease(r)
    \/ \E k \in Keys : Expire(k)

LockSpec == LockInit /\ [][LockNext]_lockVars

-----------------------------------------------------------------------------
Release == [key : Keys, token : Tokens]

(* Types of the Redis store, the sessions and the messages. *)
LockTypeOK ==
    /\ store \in [Keys -> Tokens \union {NoToken}]
    /\ session \in [Clients -> [key : Keys \union {NoKey}, token : Tokens \union {NoToken}]]
    /\ \A c \in Holders : session[c].key \in Keys
    /\ wire \subseteq Release
    /\ nextToken \in 1..(MaxToken + 1)
    /\ lapsed \subseteq Tokens

(* Until its TTL runs out, a holder's key carries its token: no late,      *)
(* repeated or foreign release script frees a lock that is in use          *)
(* (cache.go:125-133).                                                     *)
HolderOwnsKey ==
    \A c \in Holders :
        session[c].token \notin lapsed => store[session[c].key] = session[c].token

(* Two processes hold the same key only after one of their leases lapsed:  *)
(* what processSingleSubscription (service/time.go:121) relies on.         *)
MutualExclusion ==
    \A c, d \in Holders :
        (c # d /\ session[c].key = session[d].key) =>
            \/ session[c].token \in lapsed
            \/ session[d].token \in lapsed

-----------------------------------------------------------------------------
(* No token is in use before it is drawn. *)
TokensFresh ==
    /\ \A k \in Keys : store[k] < nextToken
    /\ \A c \in Holders : session[c].token < nextToken
    /\ \A r \in wire : r.token < nextToken
    /\ \A t \in lapsed : t < nextToken
(* A token belongs to one holder, and a release on the wire to none. *)
TokensDistinct ==
    /\ \A c, d \in Holders : c # d => session[c].token # session[d].token
    /\ \A c \in Holders, r \in wire : session[c].token # r.token
(* The inductive invariant behind HolderOwnsKey: without TokensDistinct a      *)
(* release of the past could carry the token of a holder of the present.       *)
LockInv == LockTypeOK /\ TokensFresh /\ TokensDistinct /\ HolderOwnsKey
=============================================================================
