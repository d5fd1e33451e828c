---------------------------- MODULE SigningKeys ----------------------------
(***************************************************************************)
(* The Deploy gate's verifier of GitHub Actions OIDC tokens (internal/     *)
(* oidc): concurrent handlers share one cache of the issuer's signing keys *)
(* under a mutex that is held while the keys are fetched.  The issuer      *)
(* rotates its keys, its clock may differ from the gate's, and it may not  *)
(* answer.                                                                 *)
(***************************************************************************)
EXTENDS Integers

CONSTANTS
  Kid,         \* key ids; one never published is one somebody made up
  Caller,      \* handlers of the gate
  KeysMaxAge, MinRefetch, Leeway,
  Lifetime,    \* how long the issuer's tokens live
  MaxNow       \* bound: ticks of the clock

ASSUME SigningKeysAssumption ==
  /\ KeysMaxAge \in Nat /\ MinRefetch \in Nat /\ Leeway \in Nat /\ Lifetime \in Nat
  /\ MaxNow \in Nat

VARIABLES
  now,        \* the gate's clock
  skew,       \* how far the issuer's clock is ahead of it
  publishedAt, withdrawnAt,  \* each key at the issuer
  keys,       \* the cached key set
  fetched,    \* when it was asked for; Never when there is none
  call        \* what each Caller is doing

keysVars == <<now, skew, publishedAt, withdrawnAt, keys, fetched, call>>

-----------------------------------------------------------------------------
Time == 0 .. MaxNow
Never == -1

Published(k) == publishedAt[k] # Never /\ withdrawnAt[k] = Never
PublishedKeys == {k \in Kid : Published(k)}

\* What is sent in: whose key it names, whether it is one the issuer signed with that
\* key, for this gate, and when.
Token == [kid : Kid, sound : BOOLEAN, issued : Time]
Ended == {"accepted", "refused", "unavailable"}

SigningKeysTypeOK ==
  /\ now \in Time /\ skew \in -Leeway .. Leeway
  /\ publishedAt \in [Kid -> Time \cup {Never}]
  /\ withdrawnAt \in [Kid -> Time \cup {Never}]
  /\ keys \subseteq Kid /\ fetched \in Time \cup {Never}
  /\ fetched = Never => keys = {}
  /\ \A c \in Caller : call[c].state \in {"idle", "waiting", "fetching"} \cup Ended
  /\ \A c \in Caller : call[c].state \in {"waiting", "fetching"} =>
       call[c].token \in Token /\ call[c].asOf \in Time \cup {Never}

Idle == [state |-> "idle"]

SigningKeysInit ==
  \* the clocks differ by all they may, one way or the other
  /\ now = 0 /\ skew \in {-Leeway, Leeway}
  /\ publishedAt \in [Kid -> {0, Never}] /\ \E k \in Kid : publishedAt[k] = 0
  /\ withdrawnAt = [k \in Kid |-> Never]
  /\ keys = {} /\ fetched = Never
  /\ call = [c \in Caller |-> Idle]

-----------------------------------------------------------------------------
(* The issuer, and time.                                                   *)

Publish(k) ==
  /\ publishedAt[k] = Never
  /\ publishedAt' = [publishedAt EXCEPT ![k] = now]
  /\ UNCHANGED <<now, skew, withdrawnAt, keys, fetched, call>>

\* There is always a key to sign with.
Withdraw(k) ==
  /\ Published(k) /\ PublishedKeys # {k}
  /\ withdrawnAt' = [withdrawnAt EXCEPT ![k] = now]
  /\ UNCHANGED <<now, skew, publishedAt, keys, fetched, call>>

Tick ==
  /\ now < MaxNow
  /\ now' = now + 1
  /\ UNCHANGED <<skew, publishedAt, withdrawnAt, keys, fetched, call>>

-----------------------------------------------------------------------------
(* Verify.                                                                 *)

\* A token the issuer issued names a key that was published then.
Call(c) ==
  /\ call[c].state \notin {"waiting", "fetching"}
  /\ \E token \in Token :
       /\ token.issued <= now
       /\ IF token.sound
          THEN /\ publishedAt[token.kid] \in 0 .. token.issued
               /\ withdrawnAt[token.kid] = Never \/ token.issued <= withdrawnAt[token.kid]
          ELSE token.issued = 0
       /\ call' = [call EXCEPT ![c] = [state |-> "waiting", token |-> token, asOf |-> Never]]
  /\ UNCHANGED <<now, skew, publishedAt, withdrawnAt, keys, fetched>>

\* exp, nbf and iat by the issuer's clock, with leeway; the clock is read again here.
InLifetime(token) ==
  /\ now <= token.issued + skew + Lifetime + Leeway
  /\ token.issued + skew <= now + Leeway

\* What Verify says of a token whose key it has: the signature, the issuer, the
\* audience, the lifetime.
Verdict(token) == IF token.sound /\ InLifetime(token) THEN "accepted" ELSE "refused"

Free == \A c \in Caller : call[c].state # "fetching"
Stale == fetched = Never \/ now - fetched > KeysMaxAge

\* Mutant of MayFetch: an old key set is only replaced for a key it lacks.
MayFetchForUnknown(kid) ==
  kid \notin keys /\ (fetched = Never \/ now - fetched > MinRefetch)
\* key: the set is fetched when it is old, or lacks the key and was not just fetched.
MayFetch(kid) == Stale \/ (kid \notin keys /\ now - fetched > MinRefetch)

Ends(c, how) == call' = [call EXCEPT ![c] = [state |-> how]]

FromCache(c) ==
  /\ call[c].state = "waiting" /\ Free
  /\ ~MayFetch(call[c].token.kid)
  /\ Ends(c, IF call[c].token.kid \in keys THEN Verdict(call[c].token) ELSE "refused")
  /\ UNCHANGED <<now, skew, publishedAt, withdrawnAt, keys, fetched>>

BeginFetch(c) ==
  /\ call[c].state = "waiting" /\ Free
  /\ MayFetch(call[c].token.kid)
  /\ call' = [call EXCEPT ![c].state = "fetching", ![c].asOf = now]
  /\ UNCHANGED <<now, skew, publishedAt, withdrawnAt, keys, fetched>>

\* The issuer's answer replaces the set, which is as old as the question.
FetchAnswered(c) ==
  /\ call[c].state = "fetching"
  /\ keys' = PublishedKeys /\ fetched' = call[c].asOf
  /\ Ends(c, IF Published(call[c].token.kid) THEN Verdict(call[c].token) ELSE "refused")
  /\ UNCHANGED <<now, skew, publishedAt, withdrawnAt>>

\* Mutants of FetchFailed: the failure counts as a fetch; its caller gives up and
\* leaves the mutex locked.
FetchFailedButCounted(c) ==
  /\ call[c].state = "fetching"
  /\ fetched' = call[c].asOf
  /\ Ends(c, IF call[c].token.kid \in keys THEN Verdict(call[c].token) ELSE "unavailable")
  /\ UNCHANGED <<now, skew, publishedAt, withdrawnAt, keys>>
FetchFailedStillLocked(c) ==
  /\ call[c].state = "fetching"
  /\ call[c].token.kid \in keys
  /\ Ends(c, Verdict(call[c].token))
  /\ UNCHANGED <<now, skew, publishedAt, withdrawnAt, keys, fetched>>

\* The issuer does not answer, or with no RSA key, or the caller hangs up: a key
\* that was known is still used, however old.
FetchFailed(c) ==
  /\ call[c].state = "fetching"
  /\ Ends(c, IF call[c].token.kid \in keys THEN Verdict(call[c].token) ELSE "unavailable")
  /\ UNCHANGED <<now, skew, publishedAt, withdrawnAt, keys, fetched>>

SigningKeysNext ==
  \/ \E k \in Kid : Publish(k) \/ Withdraw(k)
  \/ Tick
  \/ \E c \in Caller :
       \/ Call(c)
       \/ FromCache(c) \/ BeginFetch(c) \/ FetchAnswered(c) \/ FetchFailed(c)

\* The issuer need not answer: a fetch is given up after ten seconds.  A mutex is handed
\* to whoever waits.
SigningKeysSpec ==
  /\ SigningKeysInit /\ [][SigningKeysNext]_keysVars
  /\ \A c \in Caller :
       /\ WF_keysVars(FetchFailed(c))
       /\ SF_keysVars(FromCache(c) \/ BeginFetch(c))

-----------------------------------------------------------------------------
(* What must hold.                                                         *)

Ending(c, how) == call[c].state \in {"waiting", "fetching"} /\ call'[c].state = how

\* A token is only accepted under a key that is published, or was at most KeysMaxAge
\* ago, unless this very call asked for the keys and got no answer; and no later than
\* its lifetime and both clocks' leeway, though the fetch may have taken long.  (And
\* everything keeps its type.)
AcceptedUnderLiveKeys ==
  [][/\ SigningKeysTypeOK'
     /\ \A c \in Caller : Ending(c, "accepted") =>
          LET token == call[c].token
          IN /\ \/ Published(token.kid)
                \/ withdrawnAt[token.kid] # Never /\ now - withdrawnAt[token.kid] <= KeysMaxAge
                \/ call[c].state = "fetching" /\ keys' = keys /\ fetched' = fetched
             /\ token.sound /\ now - token.issued <= Lifetime + 2 * Leeway]_keysVars

\* A genuine token is not refused, whatever others sent before it: its key has been
\* published for longer than MinRefetch, it is not older than its lifetime, and the
\* issuer's clock is within the leeway.
GenuineTokensAreHeard ==
  [][\A c \in Caller : Ending(c, "refused") =>
       LET token == call[c].token
       IN \/ ~token.sound
          \/ now - token.issued > Lifetime
          \/ ~Published(token.kid)
          \/ now - publishedAt[token.kid] <= MinRefetch]_keysVars

\* No caller waits for the keys for ever, whatever becomes of another's fetch.
EveryCallEnds ==
  \A c \in Caller : call[c].state = "waiting" ~> call[c].state \in Ended
=============================================================================
