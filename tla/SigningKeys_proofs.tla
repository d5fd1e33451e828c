------------------------- MODULE SigningKeys_proofs -------------------------
(***************************************************************************)
(* That the verifier's shared key cache neither accepts a token whose key  *)
(* is long withdrawn nor refuses a genuine one, for any number of          *)
(* handlers, keys and ticks.                                               *)
(*                                                                         *)
(* Both follow from what the cache is at any time: the keys the issuer had *)
(* at some moment no earlier than fetched.  So a key in it was not         *)
(* withdrawn before fetched (CacheIsRecent), and a key published before    *)
(* fetched and not withdrawn since is in it (CacheIsComplete).             *)
(***************************************************************************)
EXTENDS SigningKeys, TLAPS

(* The issuer's history is in the past, and a key is withdrawn only after  *)
(* it was published.                                                       *)
HistoryIsPast ==
  \A k \in Kid :
    /\ publishedAt[k] <= now /\ withdrawnAt[k] <= now
    /\ withdrawnAt[k] # Never => publishedAt[k] # Never

CacheIsRecent ==
  \A k \in keys :
    publishedAt[k] # Never /\ (withdrawnAt[k] # Never => fetched <= withdrawnAt[k])

CacheIsComplete ==
  \A k \in Kid : Published(k) /\ publishedAt[k] < fetched => k \in keys

(* A call under way carries a token of the past, and one that fetches also *)
(* knows since when.                                                       *)
Pending(c) ==
  /\ call[c].state \in {"waiting", "fetching"} => call[c].token.issued <= now
  /\ call[c].state = "fetching" => call[c].asOf \in Time /\ call[c].asOf <= now

CallRecord ==
  [state : {"idle"} \cup Ended]
  \cup [state : {"waiting", "fetching"}, token : Token, asOf : Time \cup {Never}]

KeysInv ==
  /\ SigningKeysTypeOK /\ call \in [Caller -> CallRecord]
  /\ fetched <= now
  /\ HistoryIsPast /\ CacheIsRecent /\ CacheIsComplete
  /\ \A c \in Caller : Pending(c)

LEMMA KeysInvInit == SigningKeysInit => KeysInv
<1> SUFFICES ASSUME SigningKeysInit PROVE KeysInv
  OBVIOUS
<1>1. SigningKeysTypeOK
  <2>1. 0 \in Time /\ skew \in -Leeway .. Leeway
    BY SigningKeysAssumption DEF SigningKeysInit, Time
  <2>2. publishedAt \in [Kid -> Time \cup {Never}]
    BY <2>1 DEF SigningKeysInit
  <2> QED
    BY <2>1, <2>2 DEF SigningKeysInit, SigningKeysTypeOK, Idle
<1>2. call \in [Caller -> CallRecord]
  BY DEF SigningKeysInit, CallRecord, Idle
<1> QED
  BY <1>1, <1>2 DEF SigningKeysInit, KeysInv, HistoryIsPast, CacheIsRecent, CacheIsComplete, Pending,
              Idle, Never

(* The issuer and the clock. *)
LEMMA WorldStep ==
  ASSUME KeysInv, (\E k \in Kid : Publish(k) \/ Withdraw(k)) \/ Tick
  PROVE  KeysInv'
<1>1. /\ now \in Time /\ fetched \in Time \cup {Never} /\ keys \subseteq Kid
      /\ publishedAt \in [Kid -> Time \cup {Never}]
      /\ withdrawnAt \in [Kid -> Time \cup {Never}]
  BY DEF KeysInv, SigningKeysTypeOK
<1>2. ASSUME NEW k \in Kid, Publish(k) PROVE KeysInv'
  <2>1. SigningKeysTypeOK' /\ call' \in [Caller -> CallRecord]
    BY <1>1, <1>2 DEF KeysInv, SigningKeysTypeOK, Publish
  <2>2. \A j \in Kid : /\ j = k => publishedAt[j] = Never /\ publishedAt'[j] = now
                       /\ j # k => publishedAt'[j] = publishedAt[j]
    BY <1>1, <1>2 DEF Publish
  <2>3. HistoryIsPast' /\ CacheIsRecent' /\ CacheIsComplete'
    BY <1>1, <1>2, <2>2
    DEF KeysInv, HistoryIsPast, CacheIsRecent, CacheIsComplete, Publish, Published, Time, Never
  <2> QED
    BY <1>2, <2>1, <2>3 DEF KeysInv, Publish, Pending
<1>3. ASSUME NEW k \in Kid, Withdraw(k) PROVE KeysInv'
  <2>1. SigningKeysTypeOK' /\ call' \in [Caller -> CallRecord]
    BY <1>1, <1>3 DEF KeysInv, SigningKeysTypeOK, Withdraw
  <2>2. \A j \in Kid : /\ j = k => publishedAt[j] # Never /\ withdrawnAt'[j] = now
                       /\ j # k => withdrawnAt'[j] = withdrawnAt[j]
    BY <1>1, <1>3 DEF Withdraw, Published
  <2>3. HistoryIsPast' /\ CacheIsRecent' /\ CacheIsComplete'
    BY <1>1, <1>3, <2>2
    DEF KeysInv, HistoryIsPast, CacheIsRecent, CacheIsComplete, Withdraw, Published, Time, Never
  <2> QED
    BY <1>3, <2>1, <2>3 DEF KeysInv, Withdraw, Pending
<1>4. CASE Tick
  <2>1. now' \in Time /\ now' = now + 1 /\ now <= now'
    BY <1>1, <1>4, SigningKeysAssumption DEF Tick, Time
  <2>2. SigningKeysTypeOK' /\ call' \in [Caller -> CallRecord]
    BY <1>4, <2>1 DEF KeysInv, SigningKeysTypeOK, Tick, Time, Never, Token
  <2>3. HistoryIsPast' /\ CacheIsRecent' /\ CacheIsComplete' /\ fetched' <= now'
    BY <1>1, <1>4, <2>1
    DEF KeysInv, HistoryIsPast, CacheIsRecent, CacheIsComplete, Tick, Published, Time, Never
  <2>4. ASSUME NEW c \in Caller PROVE Pending(c)'
    <3>1. Pending(c) /\ SigningKeysTypeOK
      BY DEF KeysInv
    <3> QED
      BY <1>1, <1>4, <2>1, <3>1 DEF Pending, SigningKeysTypeOK, Tick, Time, Token
  <2> QED
    BY <2>2, <2>3, <2>4 DEF KeysInv
<1> QED
  BY <1>2, <1>3, <1>4

(* A call ends, whatever the cache is. *)
LEMMA EndsCleanly ==
  ASSUME KeysInv, NEW c \in Caller, NEW how \in Ended, Ends(c, how), now' = now
  PROVE  /\ call' \in [Caller -> CallRecord]
         /\ \A d \in Caller :
              /\ Pending(d)'
              /\ call'[d].state \in {"idle", "waiting", "fetching"} \cup Ended
              /\ call'[d].state \in {"waiting", "fetching"} =>
                   call'[d].token \in Token /\ call'[d].asOf \in Time \cup {Never}
<1>1. \A d \in Caller : /\ d = c => call'[d].state = how
                        /\ d # c => call'[d] = call[d]
  BY DEF KeysInv, Ends
<1>2. call' \in [Caller -> CallRecord]
  <2>1. [state |-> how] \in CallRecord
    BY DEF CallRecord
  <2> QED
    BY <2>1 DEF KeysInv, Ends
<1> QED
  BY <1>1, <1>2 DEF KeysInv, SigningKeysTypeOK, Pending, Ended

LEMMA VerdictEnds == \A token : Verdict(token) \in Ended
BY DEF Verdict, Ended

(* A call that begins to fetch was waiting, so it has a token. *)
LEMMA BeganWaiting ==
  ASSUME KeysInv, NEW c \in Caller, BeginFetch(c)
  PROVE  call[c] \in [state : {"waiting", "fetching"}, token : Token, asOf : Time \cup {Never}]
<1>1. call[c] \in CallRecord /\ call[c].state = "waiting"
  BY DEF KeysInv, BeginFetch
<1>2. "waiting" \notin {"idle"} \cup Ended
  BY DEF Ended
<1> QED
  BY <1>1, <1>2 DEF CallRecord

LEMMA VerifyStep ==
  ASSUME KeysInv, NEW c \in Caller,
         Call(c) \/ FromCache(c) \/ BeginFetch(c) \/ FetchAnswered(c) \/ FetchFailed(c)
  PROVE  KeysInv'
<1>1. /\ SigningKeysTypeOK /\ now' = now /\ skew' = skew
      /\ publishedAt' = publishedAt /\ withdrawnAt' = withdrawnAt
  BY DEF KeysInv, Call, FromCache, BeginFetch, FetchAnswered, FetchFailed
<1>2. CASE Call(c)
  <2>1. PICK token \in Token :
          /\ token.issued <= now
          /\ call' = [call EXCEPT ![c] = [state |-> "waiting", token |-> token, asOf |-> Never]]
    BY <1>2 DEF Call
  <2>2. \A d \in Caller : /\ d = c => /\ call'[d].state = "waiting" /\ call'[d].token = token
                                      /\ call'[d].asOf = Never
                          /\ d # c => call'[d] = call[d]
    BY <2>1 DEF KeysInv
  <2>3. call' \in [Caller -> CallRecord]
    <3>1. [state |-> "waiting", token |-> token, asOf |-> Never] \in CallRecord
      BY DEF CallRecord
    <3> QED
      BY <2>1, <3>1 DEF KeysInv
  <2>4. \A d \in Caller : Pending(d)'
    BY <1>1, <2>1, <2>2 DEF KeysInv, Pending
  <2>5. SigningKeysTypeOK'
    BY <1>1, <1>2, <2>1, <2>2 DEF SigningKeysTypeOK, Call
  <2> QED
    BY <1>1, <1>2, <2>3, <2>4, <2>5
    DEF KeysInv, Call, HistoryIsPast, CacheIsRecent, CacheIsComplete, Published
<1>3. CASE BeginFetch(c)
  <2>0. call[c] \in [state : {"waiting", "fetching"}, token : Token, asOf : Time \cup {Never}]
    BY <1>3, BeganWaiting
  <2>1. \A d \in Caller : /\ d = c => /\ call'[d].state = "fetching"
                                      /\ call'[d].token = call[d].token
                                      /\ call[d].state = "waiting"
                                      /\ call'[d].asOf = now
                          /\ d # c => call'[d] = call[d]
    BY <1>3, <2>0 DEF KeysInv, BeginFetch
  <2>2. call' \in [Caller -> CallRecord]
    <3>1. PICK after : call' = [call EXCEPT ![c] = after] /\ after \in CallRecord
      <4>1. call' = [call EXCEPT ![c] = [call[c] EXCEPT !.state = "fetching", !.asOf = now]]
        BY <1>3 DEF BeginFetch
      <4>2. [call[c] EXCEPT !.state = "fetching", !.asOf = now] \in CallRecord
        BY <1>1, <2>0 DEF CallRecord, SigningKeysTypeOK
      <4> QED
        BY <4>1, <4>2
    <3> QED
      BY <3>1 DEF KeysInv
  <2>3. now \in Time /\ now <= now
    BY <1>1 DEF SigningKeysTypeOK, Time
  <2>4. \A d \in Caller : Pending(d)'
    BY <1>1, <2>1, <2>3 DEF KeysInv, Pending
  <2>5. SigningKeysTypeOK'
    BY <1>1, <1>3, <2>1, <2>3 DEF SigningKeysTypeOK, BeginFetch
  <2> QED
    BY <1>1, <1>3, <2>2, <2>4, <2>5
    DEF KeysInv, BeginFetch, HistoryIsPast, CacheIsRecent, CacheIsComplete, Published
<1>4. CASE FromCache(c) \/ FetchFailed(c)
  <2>1. keys' = keys /\ fetched' = fetched
    BY <1>4 DEF FromCache, FetchFailed
  <2>2. PICK how \in Ended : Ends(c, how)
    BY <1>4, VerdictEnds DEF FromCache, FetchFailed, Ended
  <2>3. SigningKeysTypeOK'
    BY <1>1, <2>1, <2>2, EndsCleanly DEF SigningKeysTypeOK
  <2> QED
    BY <1>1, <2>1, <2>2, <2>3, EndsCleanly
    DEF KeysInv, HistoryIsPast, CacheIsRecent, CacheIsComplete, Published
<1>5. CASE FetchAnswered(c)
  <2>1. keys' = PublishedKeys /\ fetched' = call[c].asOf
    BY <1>5 DEF FetchAnswered
  <2>2. PICK how \in Ended : Ends(c, how)
    BY <1>5, VerdictEnds DEF FetchAnswered, Ended
  <2>3. fetched' \in Time /\ fetched' <= now
    BY <1>5, <2>1 DEF KeysInv, Pending, FetchAnswered
  <2>4. fetched' # Never
    BY <2>3 DEF Time, Never
  <2>5. SigningKeysTypeOK'
    BY <1>1, <2>1, <2>2, <2>3, <2>4, EndsCleanly DEF SigningKeysTypeOK, PublishedKeys
  <2>6. CacheIsRecent' /\ CacheIsComplete'
    BY <1>1, <2>1 DEF CacheIsRecent, CacheIsComplete, PublishedKeys, Published
  <2> QED
    BY <1>1, <2>2, <2>3, <2>5, <2>6, EndsCleanly DEF KeysInv, HistoryIsPast
<1> QED
  BY <1>2, <1>3, <1>4, <1>5

LEMMA KeysInvStep == KeysInv /\ [SigningKeysNext]_keysVars => KeysInv'
<1> SUFFICES ASSUME KeysInv, [SigningKeysNext]_keysVars PROVE KeysInv'
  OBVIOUS
<1>1. CASE UNCHANGED keysVars
  BY <1>1 DEF keysVars, KeysInv, SigningKeysTypeOK, HistoryIsPast, CacheIsRecent,
              CacheIsComplete, Pending, Published
<1> QED
  BY <1>1, WorldStep, VerifyStep DEF SigningKeysNext

LEMMA KeysInvAlways == SigningKeysSpec => []KeysInv
BY KeysInvInit, KeysInvStep, PTL DEF SigningKeysSpec

-----------------------------------------------------------------------------
(* How a call ends *)

(* Only Verify ends a call, and an accepted or refused one has its verdict *)
(* from a cache that is not stale, from the issuer, or from a cache that   *)
(* the issuer did not answer about.                                        *)
LEMMA OnlyVerifyEnds ==
  ASSUME KeysInv, [SigningKeysNext]_keysVars, NEW c \in Caller, NEW how \in Ended,
         Ending(c, how)
  PROVE  /\ FromCache(c) \/ FetchAnswered(c) \/ FetchFailed(c)
         /\ Ends(c, how)
<1>1. call[c].state \in {"waiting", "fetching"} /\ call'[c].state = how
  BY DEF Ending
<1>2. call' # call
  BY <1>1 DEF Ended
<1>3. PICK d \in Caller : Call(d) \/ FromCache(d) \/ BeginFetch(d) \/ FetchAnswered(d)
                          \/ FetchFailed(d)
  BY <1>2 DEF SigningKeysNext, Publish, Withdraw, Tick, keysVars
<1>4. ASSUME d # c PROVE FALSE
  <2>1. call'[c] = call[c]
    BY <1>3, <1>4
    DEF KeysInv, Call, FromCache, BeginFetch, FetchAnswered, FetchFailed, Ends
  <2> QED
    BY <1>1, <2>1 DEF Ended
<1>5. ~Call(c)
  BY <1>1 DEF Call
<1>6. ~BeginFetch(c)
  <2> SUFFICES ASSUME BeginFetch(c) PROVE FALSE
    OBVIOUS
  <2>1. call'[c].state = "fetching"
    BY BeganWaiting DEF KeysInv, BeginFetch
  <2> QED
    BY <1>1, <2>1 DEF Ended
<1>7. FromCache(c) \/ FetchAnswered(c) \/ FetchFailed(c)
  BY <1>3, <1>4, <1>5, <1>6
<1>8. PICK other : Ends(c, other)
  BY <1>7 DEF FromCache, FetchAnswered, FetchFailed
<1>9. call'[c].state = other
  BY <1>8 DEF KeysInv, Ends
<1> QED
  BY <1>1, <1>7, <1>8, <1>9

(* The cache is used under the mutex as it is, and is not stale; or the    *)
(* issuer has answered; or it has not, and the cache stays what it was.    *)
LEMMA HowItEnds ==
  ASSUME KeysInv, NEW c \in Caller, NEW how \in Ended, Ends(c, how)
  PROVE  /\ FromCache(c) =>
              /\ ~MayFetch(call[c].token.kid)
              /\ how = "accepted" => /\ call[c].token.kid \in keys
                                     /\ Verdict(call[c].token) = "accepted"
              /\ how = "refused" => \/ call[c].token.kid \notin keys
                                    \/ Verdict(call[c].token) = "refused"
         /\ FetchAnswered(c) =>
              /\ how = "accepted" => /\ Published(call[c].token.kid)
                                     /\ Verdict(call[c].token) = "accepted"
              /\ how = "refused" => \/ ~Published(call[c].token.kid)
                                    \/ Verdict(call[c].token) = "refused"
         /\ FetchFailed(c) =>
              /\ call[c].state = "fetching" /\ keys' = keys /\ fetched' = fetched
              /\ how = "accepted" => Verdict(call[c].token) = "accepted"
              /\ how = "refused" => Verdict(call[c].token) = "refused"
<1>1. ASSUME NEW other, Ends(c, other) PROVE other = how
  BY <1>1 DEF KeysInv, Ends
<1>2. ASSUME FromCache(c)
      PROVE  /\ ~MayFetch(call[c].token.kid)
             /\ how = "accepted" => /\ call[c].token.kid \in keys
                                    /\ Verdict(call[c].token) = "accepted"
             /\ how = "refused" => \/ call[c].token.kid \notin keys
                                   \/ Verdict(call[c].token) = "refused"
  <2>1. how = IF call[c].token.kid \in keys THEN Verdict(call[c].token) ELSE "refused"
    BY <1>1, <1>2 DEF FromCache
  <2> QED
    BY <1>2, <2>1 DEF FromCache
<1>3. ASSUME FetchAnswered(c)
      PROVE  /\ how = "accepted" => /\ Published(call[c].token.kid)
                                    /\ Verdict(call[c].token) = "accepted"
             /\ how = "refused" => \/ ~Published(call[c].token.kid)
                                   \/ Verdict(call[c].token) = "refused"
  <2>1. how = IF Published(call[c].token.kid) THEN Verdict(call[c].token) ELSE "refused"
    BY <1>1, <1>3 DEF FetchAnswered
  <2> QED
    BY <2>1
<1>4. ASSUME FetchFailed(c)
      PROVE  /\ call[c].state = "fetching" /\ keys' = keys /\ fetched' = fetched
             /\ how = "accepted" => Verdict(call[c].token) = "accepted"
             /\ how = "refused" => Verdict(call[c].token) = "refused"
  <2>1. how = IF call[c].token.kid \in keys THEN Verdict(call[c].token) ELSE "unavailable"
    BY <1>1, <1>4 DEF FetchFailed
  <2> QED
    BY <1>4, <2>1 DEF FetchFailed
<1> QED
  BY <1>2, <1>3, <1>4

(* The token of a call that ends, and the clocks it is judged by. *)
LEMMA TokenInTime ==
  ASSUME KeysInv, NEW c \in Caller, call[c].state \in {"waiting", "fetching"}
  PROVE  /\ call[c].token.kid \in Kid /\ call[c].token.sound \in BOOLEAN
         /\ call[c].token.issued \in Nat /\ call[c].token.issued <= now
         /\ now \in Nat /\ skew \in Int /\ -Leeway <= skew /\ skew <= Leeway
<1>1. SigningKeysTypeOK /\ Pending(c)
  BY DEF KeysInv
<1>2. call[c].token \in Token /\ call[c].token.issued <= now
  BY <1>1 DEF SigningKeysTypeOK, Pending
<1>3. now \in Time /\ skew \in -Leeway .. Leeway
  BY <1>1 DEF SigningKeysTypeOK
<1> QED
  BY <1>2, <1>3, SigningKeysAssumption DEF Token, Time

(* However many handlers share the cache and wait for each other's         *)
(* fetches, a token is accepted only under a key that is live, or was at   *)
(* most KeysMaxAge ago, or that the issuer was just asked about in vain;   *)
(* and only within its lifetime.                                           *)
THEOREM AcceptedKeysAreLive == SigningKeysSpec => AcceptedUnderLiveKeys
<1> DEFINE Live(token, c) ==
      \/ Published(token.kid)
      \/ withdrawnAt[token.kid] # Never /\ now - withdrawnAt[token.kid] <= KeysMaxAge
      \/ call[c].state = "fetching" /\ keys' = keys /\ fetched' = fetched
<1> DEFINE AllLive ==
      /\ SigningKeysTypeOK'
      /\ \A c \in Caller : Ending(c, "accepted") =>
           LET token == call[c].token
           IN /\ \/ Published(token.kid)
                 \/ withdrawnAt[token.kid] # Never /\ now - withdrawnAt[token.kid] <= KeysMaxAge
                 \/ call[c].state = "fetching" /\ keys' = keys /\ fetched' = fetched
              /\ token.sound /\ now - token.issued <= Lifetime + 2 * Leeway
<1>1. ASSUME KeysInv, [SigningKeysNext]_keysVars, NEW c \in Caller, Ending(c, "accepted")
      PROVE  /\ Live(call[c].token, c)
             /\ call[c].token.sound /\ now - call[c].token.issued <= Lifetime + 2 * Leeway
  <2> DEFINE token == call[c].token
  <2>1. call[c].state \in {"waiting", "fetching"}
    BY <1>1 DEF Ending
  <2>2. "accepted" \in Ended
    BY DEF Ended
  <2>3. (FromCache(c) \/ FetchAnswered(c) \/ FetchFailed(c)) /\ Ends(c, "accepted")
    BY <1>1, <2>2, OnlyVerifyEnds
  <2>4. Verdict(token) = "accepted"
    BY <1>1, <2>2, <2>3, HowItEnds
  <2>5. token.sound /\ InLifetime(token)
    BY <2>4 DEF Verdict
  <2>6. now - token.issued <= Lifetime + 2 * Leeway
    <3>1. now <= token.issued + skew + Lifetime + Leeway
      BY <2>5 DEF InLifetime
    <3>2. /\ token.issued \in Nat /\ now \in Nat /\ skew \in Int /\ skew <= Leeway
      BY <1>1, <2>1, TokenInTime
    <3> HIDE DEF token
    <3> QED
      BY <3>1, <3>2, SigningKeysAssumption
  <2>7. CASE FromCache(c)
    <3>1. token.kid \in keys /\ ~MayFetch(token.kid)
      BY <1>1, <2>2, <2>3, <2>7, HowItEnds
    <3>2. fetched # Never /\ now - fetched <= KeysMaxAge
      <4>1. fetched # Never /\ ~(now - fetched > KeysMaxAge)
        BY <3>1 DEF MayFetch, Stale
      <4>2. fetched \in Int /\ now \in Int
        BY <1>1, <4>1 DEF KeysInv, SigningKeysTypeOK, Time
      <4> QED
        BY <4>1, <4>2, SigningKeysAssumption
    <3>3. /\ publishedAt[token.kid] # Never
          /\ withdrawnAt[token.kid] # Never => fetched <= withdrawnAt[token.kid]
      BY <1>1, <3>1 DEF KeysInv, CacheIsRecent
    <3>4. token.kid \in Kid
      BY <1>1, <2>1, TokenInTime
    <3>5. withdrawnAt[token.kid] # Never => now - withdrawnAt[token.kid] <= KeysMaxAge
      <4>1. SUFFICES ASSUME withdrawnAt[token.kid] # Never
                     PROVE  now - withdrawnAt[token.kid] <= KeysMaxAge
        OBVIOUS
      <4>2. /\ fetched \in Int /\ now \in Int /\ withdrawnAt[token.kid] \in Int
        BY <1>1, <3>2, <3>4, <4>1 DEF KeysInv, SigningKeysTypeOK, Time
      <4> HIDE DEF token
      <4> QED
        BY <3>2, <3>3, <4>1, <4>2, SigningKeysAssumption
    <3> QED
      BY <2>5, <2>6, <3>3, <3>5 DEF Published
  <2>8. CASE FetchAnswered(c)
    BY <1>1, <2>2, <2>3, <2>5, <2>6, <2>8, HowItEnds
  <2>9. CASE FetchFailed(c)
    BY <1>1, <2>2, <2>3, <2>5, <2>6, <2>9, HowItEnds
  <2> QED
    BY <2>3, <2>7, <2>8, <2>9
<1>2. KeysInv /\ KeysInv' /\ [SigningKeysNext]_keysVars => AllLive
  <2>1. KeysInv' => SigningKeysTypeOK'
    BY DEF KeysInv
  <2> QED
    BY <1>1, <2>1
<1> QED
  BY <1>2, KeysInvAlways, PTL DEF AcceptedUnderLiveKeys, SigningKeysSpec

(* Whatever others sent before it, and whoever's fetch it waited for, a    *)
(* genuine token is not refused: a key older than MinRefetch is in the     *)
(* cache, or the cache may be fetched.                                     *)
THEOREM GenuineTokensAreNotRefused == SigningKeysSpec => GenuineTokensAreHeard
<1> DEFINE AllHeard ==
      \A c \in Caller : Ending(c, "refused") =>
        LET token == call[c].token
        IN \/ ~token.sound
           \/ now - token.issued > Lifetime
           \/ ~Published(token.kid)
           \/ now - publishedAt[token.kid] <= MinRefetch
<1>1. ASSUME KeysInv, [SigningKeysNext]_keysVars, NEW c \in Caller, Ending(c, "refused"),
             call[c].token.sound, ~(now - call[c].token.issued > Lifetime),
             Published(call[c].token.kid),
             ~(now - publishedAt[call[c].token.kid] <= MinRefetch)
      PROVE  FALSE
  <2> DEFINE token == call[c].token
  <2>1. call[c].state \in {"waiting", "fetching"}
    BY <1>1 DEF Ending
  <2>2. "refused" \in Ended
    BY DEF Ended
  <2>3. (FromCache(c) \/ FetchAnswered(c) \/ FetchFailed(c)) /\ Ends(c, "refused")
    BY <1>1, <2>2, OnlyVerifyEnds
  <2>4. InLifetime(token)
    <3>1. /\ token.issued \in Nat /\ now \in Nat /\ skew \in Int /\ skew <= Leeway
          /\ -Leeway <= skew /\ token.issued <= now
      BY <1>1, <2>1, TokenInTime
    <3>2. ~(now - token.issued > Lifetime)
      BY <1>1
    <3> HIDE DEF token
    <3> QED
      BY <3>1, <3>2, SigningKeysAssumption DEF InLifetime
  <2>5. Verdict(token) = "accepted"
    BY <1>1, <2>4 DEF Verdict
  <2>6. FromCache(c) /\ token.kid \notin keys
    BY <1>1, <2>2, <2>3, <2>5, HowItEnds
  <2>7. ~MayFetch(token.kid)
    BY <1>1, <2>2, <2>3, <2>6, HowItEnds
  <2>8. fetched # Never /\ ~(now - fetched > MinRefetch)
    BY <2>6, <2>7 DEF MayFetch, Stale
  <2>9. token.kid \in Kid
    BY <1>1, <2>1, TokenInTime
  <2>10. ~(publishedAt[token.kid] < fetched)
    BY <1>1, <2>6, <2>9 DEF KeysInv, CacheIsComplete
  <2>11. ~(now - publishedAt[token.kid] <= MinRefetch)
    BY <1>1
  <2>12. fetched \in Int /\ now \in Int /\ publishedAt[token.kid] \in Int
    BY <1>1, <2>8, <2>9 DEF KeysInv, SigningKeysTypeOK, Time, Published
  <2> HIDE DEF token
  <2> QED
    BY <2>8, <2>10, <2>11, <2>12, SigningKeysAssumption
<1>2. KeysInv /\ [SigningKeysNext]_keysVars => AllHeard
  BY <1>1
<1> QED
  BY <1>2, KeysInvAlways, PTL DEF GenuineTokensAreHeard, SigningKeysSpec
=============================================================================
