----------------------------- MODULE RateLimiter -----------------------------
(***************************************************************************)
(* The login rate limiter of ip-rate-limiter.mjs: an insertion-ordered Map *)
(* of counters, reclaimed from the front only, under a system clock that   *)
(* may be set to anything at any moment.                                   *)
(***************************************************************************)
EXTENDS Integers, Sequences, FiniteSets

CONSTANTS Spellings,   \* the literals a socket peer or a header may show
          Addresses,   \* canonical addresses, "unknown" among them
          Canonical,   \* canonicalAddress: NoAddress for what is no IP literal
          NoAddress,   \* null
          Unknown,     \* "unknown"
          Trusted,     \* trustedProxyAddresses
          Limit, Window, Capacity,  \* limit, windowMs, maxEntries
          MaxSafe      \* Number.MAX_SAFE_INTEGER

ASSUME AddressAssumption ==
  /\ Canonical \in [Spellings -> Addresses \cup {NoAddress}]
  /\ Unknown \in Addresses
  /\ Trusted \subseteq Spellings
ASSUME BoundAssumption ==
  /\ Limit \in Nat \ {0} /\ Window \in Nat \ {0} /\ Capacity \in Nat \ {0}
  /\ MaxSafe \in Nat /\ Window <= MaxSafe

VARIABLES now,      \* the system clock, set back and forth
          lastNow,  \* the latest stamp the limiter has seen
          entries,  \* the Map, oldest insertion first
          reply     \* the last answer of consume
limiterVars == <<now, lastNow, entries, reply>>

Times == 0..(MaxSafe - Window)
Entry == [address : Addresses, count : 1..Limit, resetAt : 1..MaxSafe]
Reply == [reason : {"none"}] \cup
         [reason : {"allowed", "capacity_exceeded", "limit_exceeded"},
          remaining : 0..Limit, resetAt : 1..MaxSafe]

TypeOK == /\ now \in 0..MaxSafe
          /\ lastNow \in Times
          /\ entries \in Seq(Entry)
          /\ reply \in Reply

\* createClientAddressResolver: only an exactly trusted peer speaks for
\* another address, and only with a valid one.
ClientAddress(peer, forwarded) ==
  LET claimed == IF peer \in Trusted THEN Canonical[forwarded] ELSE NoAddress
      own == Canonical[peer]
  IN IF claimed # NoAddress THEN claimed ELSE IF own # NoAddress THEN own ELSE Unknown

\* Mutant: the stamp follows the system clock back.
RawStamp(n) == n
\* currentTime: the system clock may go back, the stamp does not.
Stamp(n) == IF n > lastNow THEN n ELSE lastNow

Live(es, stamp) == {i \in 1..Len(es) : es[i].resetAt > stamp}

\* Mutant: one call reclaims one entry.
PurgedOnce(es, stamp) ==
  IF es # <<>> /\ es[1].resetAt <= stamp THEN Tail(es) ELSE es
\* purge: entries go from the front until the first that has not expired.
Purged(es, stamp) ==
  IF Live(es, stamp) = {} THEN <<>>
  ELSE LET first == CHOOSE i \in Live(es, stamp) : \A j \in Live(es, stamp) : i <= j
       IN SubSeq(es, first, Len(es))

Holds(es, a) == \E i \in 1..Len(es) : es[i].address = a
IndexOf(es, a) == CHOOSE i \in 1..Len(es) : es[i].address = a

NewEntry(a, stamp) == [address |-> a, count |-> 1, resetAt |-> stamp + Window]
Allowed(e) == [reason |-> "allowed", remaining |-> Limit - e.count, resetAt |-> e.resetAt]
Refused(reason, e) == [reason |-> reason, remaining |-> 0, resetAt |-> e.resetAt]

-----------------------------------------------------------------------------
LimiterInit == now \in 0..MaxSafe /\ lastNow = 0 /\ entries = <<>>
        /\ reply = [reason |-> "none"]

SetClock(n) == now' = n /\ UNCHANGED <<lastNow, entries, reply>>

\* A clock that reads past MaxSafe - Window makes every call throw unchanged.
ClockValid == now + Window <= MaxSafe

\* Mutant: a full table gives up its oldest entry.
EvictingConsumeNew(es, a, stamp) ==
  /\ ~Holds(es, a)
  /\ LET kept == IF Len(es) >= Capacity THEN Tail(es) ELSE es
         e == NewEntry(a, stamp)
     IN entries' = Append(kept, e) /\ reply' = Allowed(e)
\* Mutant: the attempt that reaches the limit is still allowed once more.
GenerousConsumeKnown(es, a) ==
  /\ Holds(es, a)
  /\ LET i == IndexOf(es, a)
         e == [es[i] EXCEPT !.count = @ + 1]
     IN IF es[i].count > Limit
        THEN entries' = es /\ reply' = Refused("limit_exceeded", es[i])
        ELSE entries' = [es EXCEPT ![i] = e] /\ reply' = Allowed(e)

\* consume for an address that is not in the purged table, and for one that is.
ConsumeNew(es, a, stamp) ==
  /\ ~Holds(es, a)
  /\ IF Len(es) >= Capacity
     THEN entries' = es /\ reply' = Refused("capacity_exceeded", es[1])
     ELSE LET e == NewEntry(a, stamp)
          IN entries' = Append(es, e) /\ reply' = Allowed(e)

ConsumeKnown(es, a) ==
  /\ Holds(es, a)
  /\ LET i == IndexOf(es, a)
         e == [es[i] EXCEPT !.count = @ + 1]
     IN IF es[i].count >= Limit
        THEN entries' = es /\ reply' = Refused("limit_exceeded", es[i])
        ELSE entries' = [es EXCEPT ![i] = e] /\ reply' = Allowed(e)

Consume(peer, forwarded) ==
  LET stamp == Stamp(now)
      a == ClientAddress(peer, forwarded)
  IN /\ ClockValid
     /\ lastNow' = stamp
     /\ \/ ConsumeNew(Purged(entries, stamp), a, stamp)
        \/ ConsumeKnown(Purged(entries, stamp), a)
     /\ UNCHANGED now

Snapshot == /\ ClockValid
            /\ lastNow' = Stamp(now)
            /\ entries' = Purged(entries, Stamp(now))
            /\ UNCHANGED <<now, reply>>

LimiterNext == \/ \E n \in 0..MaxSafe : SetClock(n)
        \/ \E peer, forwarded \in Spellings : Consume(peer, forwarded)
        \/ Snapshot

LimiterSpec == LimiterInit /\ [][LimiterNext]_limiterVars

-----------------------------------------------------------------------------
\* The table is in expiry order whatever the system clock does, so that
\* purging from the front misses nothing; an address has one entry, and none
\* ends later than a window from the limiter's time.  ("Fixed-duration windows
\* are inserted in expiry order.")
InExpiryOrder ==
  /\ \A i, j \in 1..Len(entries) : i < j =>
       /\ entries[i].resetAt <= entries[j].resetAt
       /\ entries[i].address # entries[j].address
  /\ \A i \in 1..Len(entries) : /\ entries[i].resetAt > lastNow
                                /\ entries[i].resetAt <= lastNow + Window
  /\ Len(entries) <= Capacity

\* An active limit stands until the limiter's time has reached its announced
\* end: no flood of other addresses, no refused attempt and no clock set back
\* evicts it, renews its attempts or moves its end.  ("Clock rollback must not
\* reset limits early"; "an address flood cannot evict active limits".)
ActiveLimitsStand ==
  [][\A i \in 1..Len(entries) : entries[i].resetAt > lastNow' =>
       \E j \in 1..Len(entries') : /\ entries'[j].address = entries[i].address
                                   /\ entries'[j].resetAt = entries[i].resetAt
                                   /\ entries'[j].count >= entries[i].count]_limiterVars

\* Every answer is the answer of a table whose windows vanish the moment they
\* end: lazy reclamation from the front, and insertion order, do not show.
Fixed == INSTANCE FixedWindow WITH
  time <- lastNow, answer <- reply,
  windows <- {entries[i] : i \in 1..Len(entries)}
ImplementsFixedWindow == Fixed!FWSpec
=============================================================================
