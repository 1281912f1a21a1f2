-------------------------- MODULE MatchClockProofs --------------------------
(***************************************************************************)
(* Proofs about the match clock, for any think time and any allowances:    *)
(* one clock stands for the player who is to choose, and the players' time *)
(* is that of IdealClock.  The argument is that the refinement mapping,    *)
(* who thinks, how much of the grace and of the time is left, is the same  *)
(* before and after the clock is read; so every handler, which reads the   *)
(* clock first, is one step of the ideal clock or none.                    *)
(***************************************************************************)
EXTENDS MatchClock, TLAPS

Match == [verdict : {None} \cup Verdicts,
          turn : Sides, choosing : Sides, resolving : BOOLEAN, settling : Settlings,
          time : [Sides -> 0..Budget], active : Sides \cup {None}, pending : Sides \cup {None},
          since : Int, moves : 0..1]

\* A match in play: everybody has time, and one clock, running or pending,
\* stands for the chooser exactly while input is not locked.
Standing(m) ==
  /\ \A s \in Sides : m.time[s] > 0
  /\ m.resolving => m.active = None /\ m.pending = None /\ m.settling = "no"
  /\ ~m.resolving => \/ m.active = m.choosing /\ m.pending = None /\ m.since >= 0
                     \/ m.active = None /\ m.pending = m.choosing

Sound(m) == m \in Match /\ (Started(m) => Standing(m))
IInv == Sound(match)

\* The refinement mapping as operators on the match.
Who(m) == IF ~Started(m) THEN None ELSE IF m.active # None THEN m.active ELSE m.pending
Grace(m) == IF Who(m) # None /\ m.active = None THEN Max0(-m.since) ELSE 0
Left(m) == [s \in Sides |-> IF ~Started(m) THEN 0
                            ELSE IF s = Who(m) THEN Max0(m.time[s] - Max0(m.since))
                            ELSE m.time[s]]
Owing(m) == Started(m) /\ m.settling # "no"

\* m and n look the same to the players.
Alike(m, n) == /\ Who(n) = Who(m) /\ Grace(n) = Grace(m) /\ Left(n) = Left(m)
               /\ n.verdict = m.verdict
\* What reading the clock leaves alone.
Rest(m, n) == /\ n.turn = m.turn /\ n.choosing = m.choosing /\ n.resolving = m.resolving
              /\ n.settling = m.settling /\ n.moves = m.moves

WithClock(m, running, waiting, since) ==
  [m EXCEPT !.active = running, !.pending = waiting, !.since = since]

LEMMA ClockSet ==
  ASSUME NEW m \in Match, NEW running \in Sides \cup {None}, NEW waiting \in Sides \cup {None},
         NEW since \in Int
  PROVE  LET n == WithClock(m, running, waiting, since) IN
         /\ n \in Match /\ n.verdict = m.verdict /\ n.time = m.time /\ Rest(m, n)
         /\ n.active = running /\ n.pending = waiting /\ n.since = since
BY DEF WithClock, Match, Rest

LEMMA TwoSides == \A s \in Sides : Opposite(s) \in Sides /\ Opposite(s) # s
<1> SUFFICES ASSUME NEW s \in Sides PROVE Opposite(s) \in Sides /\ Opposite(s) # s
  OBVIOUS
<1>1. \E t \in Sides : t # s
  BY SidesAssumption
<1> QED BY <1>1 DEF Opposite

LEMMA Positive == ASSUME NEW n \in Int PROVE /\ n > 0 => Max0(n) = n
                                             /\ n <= 0 => Max0(n) = 0
                                             /\ Max0(n) \in Nat
BY DEF Max0

\* A pending clock past its deadline runs from the deadline on: nothing the
\* players could notice.
LEMMA Activated ==
  ASSUME NEW m, Sound(m), Started(m)
  PROVE  LET n == Activate(m) IN
         /\ Sound(n) /\ Started(n) /\ Alike(m, n) /\ Rest(m, n)
         /\ n.pending # None => n.since < 0
<1> DEFINE a == [m EXCEPT !.active = m.pending, !.pending = None]
<1>1. m \in Match /\ m.verdict = None /\ Standing(m) /\ m.since \in Int
  BY DEF Sound, Started, Match
<1>2. CASE m.pending # None /\ m.since >= 0
  <2>1. Activate(m) = a
    BY <1>2 DEF Activate
  <2>2. ~m.resolving /\ m.active = None /\ m.pending = m.choosing /\ m.choosing \in Sides
    BY <1>1, <1>2 DEF Standing, Match
  <2>3. /\ a.verdict = None /\ a.active = m.choosing /\ a.pending = None /\ a.since = m.since
        /\ a.time = m.time /\ Rest(m, a) /\ a \in Match
    BY <1>1, <2>2 DEF Match, Rest
  <2> HIDE DEF a
  <2>4. m.choosing # None
    BY <2>2, SidesAssumption
  <2>5. Standing(a)
    BY <1>1, <1>2, <2>2, <2>3 DEF Standing, Rest
  <2>6. Who(m) = m.choosing /\ Who(a) = m.choosing
    BY <1>1, <2>2, <2>3, <2>4 DEF Who, Started
  <2>7. Grace(m) = 0 /\ Grace(a) = 0
    BY <1>1, <1>2, <2>2, <2>3, <2>4, <2>6, Positive DEF Grace
  <2>8. Left(m) = Left(a)
    BY <1>1, <2>3, <2>6 DEF Left, Started
  <2> QED BY <1>1, <2>1, <2>3, <2>5, <2>6, <2>7, <2>8 DEF Sound, Started, Alike
<1>3. CASE ~(m.pending # None /\ m.since >= 0)
  <2>1. Activate(m) = m
    BY <1>3 DEF Activate
  <2> QED BY <1>1, <1>3, <2>1 DEF Alike, Rest, Sound
<1> QED BY <1>2, <1>3

\* What the ideal clock calls a loss on time.
TimeOut(m, n) == /\ Who(m) # None /\ Left(m)[Who(m)] = 0
                 /\ n.verdict = <<"timeout", Opposite(Who(m))>>

LEMMA Charged ==
  ASSUME NEW m, Sound(m), Started(m)
  PROVE  LET n == Charge(m) IN
         /\ Sound(n) /\ Rest(m, n)
         /\ m.pending # None => n = m
         /\ IF Started(n) THEN /\ Alike(m, n) /\ (m.pending = None => n.pending = None)
                               /\ m.active # None => n.since <= 0
            ELSE TimeOut(m, n)
<1> DEFINE rest == Max0(m.time[m.active] - Max0(m.since))
           t == [m.time EXCEPT ![m.active] = rest]
           c == [m EXCEPT !.time = t, !.since = 0]
           f == Finish(c, "timeout", Opposite(m.active))
<1>1. m \in Match /\ m.verdict = None /\ Standing(m) /\ m.since \in Int
  BY DEF Sound, Started, Match
<1>2. CASE m.active = None \/ m.since <= 0
  <2>1. Charge(m) = m
    BY <1>2 DEF Charge
  <2> QED BY <1>1, <1>2, <2>1 DEF Alike, Rest
<1>3. CASE ~(m.active = None \/ m.since <= 0)
  <2>1. Charge(m) = IF rest = 0 THEN f ELSE c
    BY <1>3 DEF Charge
  <2>2. /\ ~m.resolving /\ m.active = m.choosing /\ m.pending = None /\ m.since > 0
        /\ m.active \in Sides /\ m.active # None
    BY <1>1, <1>3, SidesAssumption DEF Standing, Match
  <2>3. m.time \in [Sides -> 0..Budget] /\ m.time[m.active] \in 0..Budget /\ Budget \in Nat
    BY <1>1, <2>2, TimesAssumption DEF Match
  <2>4. rest \in 0..Budget /\ rest = Max0(m.time[m.active] - m.since)
    BY <1>1, <2>2, <2>3 DEF Max0
  <2>5. Who(m) = m.active /\ Grace(m) = 0
    BY <1>1, <2>2 DEF Who, Grace, Started
  <2>6. Left(m) = t
    <3>1. \A s \in Sides : Left(m)[s] = t[s]
      BY <1>1, <2>2, <2>3, <2>5 DEF Left, Started
    <3>2. Left(m) = [s \in Sides |-> Left(m)[s]] /\ t = [s \in Sides |-> t[s]]
      BY <2>3 DEF Left
    <3> QED BY <3>1, <3>2
  <2>7. t \in [Sides -> 0..Budget] /\ t[m.active] = rest
        /\ \A s \in Sides : s # m.active => t[s] = m.time[s]
    BY <2>2, <2>3, <2>4
  <2> HIDE DEF rest, t
  <2>8. /\ c \in Match /\ c.time = t /\ c.since = 0 /\ c.verdict = None /\ c.active = m.active
        /\ c.pending = None /\ Rest(m, c)
    <3>1. c = [m EXCEPT !.time = t, !.since = 0] /\ t \in [Sides -> 0..Budget] /\ 0 \in Int
      BY <2>7
    <3> HIDE DEF c
    <3> QED BY <1>1, <2>2, <3>1 DEF Match, Rest
  <2> HIDE DEF c
  <2>9. CASE rest = 0
    <3>1. /\ f \in Match /\ f.verdict = <<"timeout", Opposite(m.active)>> /\ Rest(c, f)
      BY <2>2, <2>8, TwoSides DEF Finish, Match, Rest, Verdicts
    <3>2. f.verdict # None
      BY <2>2, <3>1, TwoSides, VerdictAssumption DEF Verdicts
    <3> QED BY <2>1, <2>2, <2>5, <2>6, <2>7, <2>8, <2>9, <3>1, <3>2 DEF Sound, Started, Rest, TimeOut
  <2>10. CASE rest # 0
    <3>1. Standing(c)
      BY <1>1, <2>2, <2>4, <2>7, <2>8, <2>10 DEF Standing, Rest
    <3>2. Who(c) = m.active /\ Grace(c) = 0
      BY <2>2, <2>8 DEF Who, Grace, Started
    <3>3. Left(c) = t
      <4>1. \A s \in Sides : t[s] \in 0..Budget /\ Max0(t[s] - Max0(0)) = t[s]
        <5>1. ASSUME NEW s \in Sides PROVE t[s] \in 0..Budget
          BY <2>7
        <5>2. Max0(0) = 0 /\ \A n \in 0..Budget : Max0(n - 0) = n
          BY TimesAssumption DEF Max0
        <5> QED BY <5>1, <5>2
      <4>3. \A s \in Sides : Left(c)[s] = IF s = m.active THEN Max0(t[s] - Max0(0)) ELSE t[s]
        BY <2>8, <3>2, Zenon DEF Left, Started
      <4>2. Left(c) = [s \in Sides |-> Left(c)[s]] /\ t = [s \in Sides |-> t[s]]
        BY <2>7 DEF Left
      <4> QED BY <4>1, <4>2, <4>3
    <3> QED BY <1>1, <2>1, <2>2, <2>5, <2>6, <2>8, <2>10, <3>1, <3>2, <3>3 DEF Sound, Started, Alike
  <2> QED BY <2>9, <2>10
<1> QED BY <1>2, <1>3

\* A clock that was just read, or has not fallen due, has nothing to charge.
LEMMA NothingToCharge ==
  ASSUME NEW m, Sound(m), Started(m), Who(m) # None => m.since <= 0
  PROVE  Left(m) = m.time
<1>1. m.time \in [Sides -> 0..Budget] /\ m.since \in Int
  BY DEF Sound, Match
<1>2. ASSUME NEW s \in Sides PROVE Left(m)[s] = m.time[s]
  <2>1. m.time[s] \in 0..Budget
    BY <1>1
  <2>2. s = Who(m) => m.since <= 0
    BY SidesAssumption
  <2>3. m.since <= 0 => Max0(m.since) = 0
    BY <1>1, Positive
  <2>4. Max0(m.time[s] - 0) = m.time[s]
    BY <2>1, TimesAssumption DEF Max0
  <2> QED BY <2>2, <2>3, <2>4 DEF Left
<1>3. Left(m) = [s \in Sides |-> Left(m)[s]] /\ m.time = [s \in Sides |-> m.time[s]]
  BY <1>1 DEF Left
<1> QED BY <1>2, <1>3

\* Reading the clock is a loss on time or nothing the players could notice, and
\* then no pending clock is past its deadline, and all that passed is charged.
LEMMA Synced ==
  ASSUME NEW m, Sound(m), Started(m)
  PROVE  LET n == SyncMatchClock(m) IN
         /\ Sound(n) /\ Rest(m, n)
         /\ IF Started(n) THEN Alike(m, n) /\ (n.pending # None => n.since < 0) /\ Left(n) = n.time
            ELSE TimeOut(m, n)
<1> DEFINE a == Activate(m)
           n == Charge(a)
<1>1. SyncMatchClock(m) = n
  BY DEF SyncMatchClock
<1>2. Sound(a) /\ Started(a) /\ Alike(m, a) /\ Rest(m, a) /\ (a.pending # None => a.since < 0)
  BY Activated
<1> HIDE DEF a
<1>3. /\ Sound(n) /\ Rest(a, n)
      /\ a.pending # None => n = a
      /\ IF Started(n) THEN /\ Alike(a, n) /\ (a.pending = None => n.pending = None)
                            /\ a.active # None => n.since <= 0
         ELSE TimeOut(a, n)
  BY <1>2, Charged
<1> HIDE DEF n
<1>4. ASSUME Started(n) PROVE Left(n) = n.time
  <2>1. Who(a) # None => a.active # None \/ a.pending # None
    BY DEF Who
  <2>2. Who(n) = Who(a)
    BY <1>3, <1>4 DEF Alike
  <2>3. a.pending # None => n.since <= 0
    BY <1>2, <1>3 DEF Sound, Match
  <2> QED BY <1>3, <1>4, <2>1, <2>2, <2>3, NothingToCharge
<1> QED BY <1>1, <1>2, <1>3, <1>4 DEF Alike, Rest, TimeOut

\* A clock armed with an allowance stands for the chooser, and that is all.
LEMMA Armed ==
  ASSUME NEW m \in Match, Started(m), \A s \in Sides : m.time[s] > 0, ~m.resolving,
         NEW a \in Allowances
  PROVE  LET n == ArmPresentationClock(m, a) IN
         /\ Sound(n) /\ Started(n) /\ Rest(m, n)
         /\ Who(n) = m.choosing /\ Grace(n) = a /\ Left(n) = m.time
<1> DEFINE i == -a
           p == [m EXCEPT !.active = None, !.pending = m.choosing, !.since = i]
           n == SyncMatchClock(p)
<1>1. ArmPresentationClock(m, a) = n
  BY DEF ArmPresentationClock
<1>2. i \in Int /\ i <= 0 /\ Max0(-i) = a
  BY TimesAssumption DEF Max0
<1> HIDE DEF i
<1>3. /\ p \in Match /\ p.verdict = None /\ p.active = None /\ p.pending = m.choosing
      /\ p.since = i /\ p.time = m.time /\ Rest(m, p) /\ m.choosing # None
  BY <1>2, SidesAssumption DEF Match, Started, Rest
<1> HIDE DEF p
<1>4. Sound(p) /\ Started(p)
  BY <1>3 DEF Sound, Standing, Started, Rest
<1>5. Who(p) = m.choosing /\ Grace(p) = a
  BY <1>2, <1>3 DEF Who, Grace, Started
<1>6. Left(p) = m.time
  BY <1>2, <1>3, <1>4, NothingToCharge
<1>7. m.choosing \in Sides
  BY DEF Match
<1> HIDE DEF n
<1>8. /\ Sound(n) /\ Rest(p, n)
      /\ IF Started(n) THEN Alike(p, n) ELSE TimeOut(p, n)
  BY <1>4, Synced DEF n
<1>9. ~TimeOut(p, n)
  BY <1>5, <1>6, <1>7 DEF TimeOut
<1> QED BY <1>1, <1>3, <1>5, <1>6, <1>8, <1>9 DEF Rest, Alike

-----------------------------------------------------------------------------
(***************************************************************************)
(* When a step of the match is a step of the ideal clock.                  *)
(***************************************************************************)
LEMMA Mapping ==
  /\ Thinker = Who(match)
  /\ (IF Thinker # None /\ match.active = None THEN Max0(-match.since) ELSE 0) = Grace(match)
  /\ [s \in Sides |-> IF ~Started(match) THEN 0
                      ELSE IF s = Thinker THEN Max0(match.time[s] - Max0(match.since))
                      ELSE match.time[s]] = Left(match)
  /\ (Started(match) /\ match.settling # "no") = Owing(match)
BY DEF Thinker, Who, Grace, Left, Owing

LEMMA MappingPrimed ==
  /\ Thinker' = Who(match')
  /\ (IF Thinker' # None /\ match'.active = None THEN Max0(-match'.since) ELSE 0) = Grace(match')
  /\ [s \in Sides |-> IF ~Started(match') THEN 0
                      ELSE IF s = Thinker' THEN Max0(match'.time[s] - Max0(match'.since))
                      ELSE match'.time[s]] = Left(match')
  /\ (Started(match') /\ match'.settling # "no") = Owing(match')
BY DEF Thinker, Who, Grace, Left, Owing, Started

LEMMA IsStutter ==
  ASSUME Alike(match, match'), Owing(match') = Owing(match), match'.moves = match.moves
  PROVE  UNCHANGED Ideal!clockVars
BY Mapping, MappingPrimed DEF Alike, Ideal!clockVars, Started

LEMMA IsHandOver ==
  ASSUME Started(match), Who(match) # None => Left(match)[Who(match)] > 0,
         match'.verdict = match.verdict,
         Who(match') \in Sides \cup {None},
         IF Who(match') = None THEN Grace(match') = 0 ELSE Grace(match') \in Allowances,
         Left(match') = Left(match), match'.moves = 1 - match.moves
  PROVE  Ideal!HandOver
BY Mapping, MappingPrimed DEF Ideal!HandOver, Ideal!Playing, Started

LEMMA IsDeliver ==
  ASSUME Started(match), Owing(match), ~Owing(match'), Who(match) # None,
         match'.verdict = match.verdict, Who(match') \in Sides, Grace(match') \in Allowances,
         NEW n \in Left(match)[Who(match)]..Budget, Left(match') = [Left(match) EXCEPT ![Who(match)] = n],
         match'.moves = 1 - match.moves
  PROVE  Ideal!Deliver
BY Mapping, MappingPrimed DEF Ideal!Deliver, Ideal!Playing, Started, Owing

LEMMA IsReady ==
  ASSUME Started(match), Who(match) # None, Who(match') = Who(match), Grace(match') = 0,
         Left(match') = Left(match), Owing(match') = Owing(match), match'.moves = match.moves,
         match'.verdict = match.verdict
  PROVE  Ideal!Ready
BY Mapping, MappingPrimed DEF Ideal!Ready, Ideal!Playing, Started

LEMMA IsEnd ==
  ASSUME Started(match), NEW w \in Sides, NEW why \in {"timeout", "play", "disconnect"},
         why = "timeout" => Who(match) # None /\ Left(match)[Who(match)] = 0 /\ w = Opposite(Who(match)),
         why = "play" /\ Who(match) # None => Left(match)[Who(match)] > 0,
         match'.verdict = <<why, w>>, match'.moves \in {match.moves, 1 - match.moves}
  PROVE  Ideal!End
<1>1. <<why, w>> # None
  BY VerdictAssumption DEF Verdicts
<1>2. ~Started(match') /\ Who(match') = None /\ Grace(match') = 0 /\ Owing(match') = FALSE
      /\ Left(match') = [s \in Sides |-> 0]
  BY <1>1 DEF Started, Who, Grace, Owing, Left
<1>3. Ideal!Opponent(Thinker) = Opposite(Thinker)
  BY DEF Ideal!Opponent, Opposite
<1>4. match.verdict = None
  BY DEF Started
<1> QED BY <1>2, <1>3, <1>4, Mapping, MappingPrimed DEF Ideal!End, Ideal!Playing, Started

-----------------------------------------------------------------------------
(***************************************************************************)
(* The actions, one by one: each keeps the invariant and is a step of the  *)
(* ideal clock or none.                                                    *)
(***************************************************************************)
Good == IInv' /\ [Ideal!ClockNext]_(Ideal!clockVars)

\* A handler that does no more than read the clock, or comes too late.
LEMMA LookIsGood == ASSUME IInv, match' = SyncMatchClock(match) PROVE Good
<1>1. CASE ~Started(match)
  <2>1. match' = match
    BY <1>1 DEF SyncMatchClock
  <2> QED BY <2>1, IsStutter DEF Good, IInv, Alike
<1>2. CASE Started(match)
  <2>1. Sound(match') /\ Rest(match, match')
        /\ IF Started(match') THEN Alike(match, match') ELSE TimeOut(match, match')
    BY <1>2, Synced DEF IInv
  <2>2. CASE Started(match')
    BY <1>2, <2>1, <2>2, IsStutter DEF Good, IInv, Rest, Owing
  <2>3. CASE ~Started(match')
    <3>1. Who(match) \in Sides
      BY <1>2, <2>1, <2>3 DEF TimeOut, Who, IInv, Sound, Match
    <3>2. Opposite(Who(match)) \in Sides
      BY <3>1, TwoSides
    <3>3. Ideal!End
      BY <1>2, <2>1, <2>3, <3>2, IsEnd DEF TimeOut, Rest
    <3> QED BY <2>1, <3>3 DEF Good, IInv, Ideal!ClockNext
  <2> QED BY <2>2, <2>3
<1> QED BY <1>1, <1>2

LEMMA TickIsGood == ASSUME IInv, Tick PROVE Good
<1> DEFINE x == match.since + 1
           who == Who(match)
<1>1. /\ match \in Match /\ match.verdict = None /\ Standing(match) /\ match.since \in Int
      /\ match.time \in [Sides -> 0..Budget] /\ Budget \in Nat
  BY TimesAssumption DEF IInv, Sound, Tick, Started, Match
<1>2. match' = [match EXCEPT !.since = x] /\ x \in Int
  BY <1>1 DEF Tick
<1>3. match.active # None \/ match.pending # None
  BY DEF Tick
<1>4. /\ match' \in Match /\ match'.since = x /\ match'.time = match.time /\ Rest(match, match')
      /\ match'.active = match.active /\ match'.pending = match.pending /\ match'.verdict = None
  BY <1>1, <1>2 DEF Match, Rest
<1>5. Sound(match')
  BY <1>1, <1>4 DEF Sound, Standing, Started, Rest
<1>6. who \in Sides /\ who # None /\ Who(match') = who
  BY <1>1, <1>3, <1>4, SidesAssumption DEF Who, Started, Match
<1>7. Owing(match') = Owing(match) /\ match'.moves = match.moves
  BY <1>1, <1>4 DEF Owing, Started, Rest
<1>8. /\ Grace(match) = IF match.active = None THEN Max0(-match.since) ELSE 0
      /\ Grace(match') = IF match.active = None THEN Max0(-x) ELSE 0
  BY <1>4, <1>6 DEF Grace
<1>9. match.active # None => match.since >= 0
  BY <1>1, SidesAssumption DEF Standing, Match
<1>10. match.time[who] \in 0..Budget
  BY <1>1, <1>6
<1>11. /\ Left(match) = [s \in Sides |-> IF s = who THEN Max0(match.time[s] - Max0(match.since))
                                         ELSE match.time[s]]
       /\ Left(match') = [s \in Sides |-> IF s = who THEN Max0(match.time[s] - Max0(x))
                                          ELSE match.time[s]]
  BY <1>1, <1>4, <1>6 DEF Left, Started
<1> HIDE DEF who
<1>12. CASE Grace(match) > 0
  <2>1. match.active = None /\ match.since < 0
    BY <1>1, <1>8, <1>12 DEF Max0
  <2>2. Grace(match') = Grace(match) - 1
    BY <1>1, <1>8, <2>1 DEF Max0
  <2>3. Max0(match.since) = 0 /\ Max0(x) = 0
    BY <1>1, <2>1 DEF Max0
  <2>4. Left(match') = Left(match)
    BY <1>11, <2>3
  <2> QED BY <1>1, <1>4, <1>5, <1>6, <1>7, <1>12, <2>2, <2>4, Mapping, MappingPrimed
       DEF who, Good, IInv, Ideal!ClockNext, Ideal!Tick, Ideal!Playing
<1>13. CASE ~(Grace(match) > 0)
  <2>1. match.since >= 0
    BY <1>1, <1>8, <1>9, <1>13 DEF Max0
  <2>2. Grace(match) = 0 /\ Grace(match') = 0
    BY <1>1, <1>8, <2>1 DEF Max0
  <2>3. Max0(match.time[who] - Max0(x)) = Ideal!Dec(Max0(match.time[who] - Max0(match.since)))
    BY <1>1, <1>10, <2>1 DEF Max0, Ideal!Dec
  <2>4. Left(match') = [Left(match) EXCEPT ![who] = Ideal!Dec(@)]
    BY <1>6, <1>11, <2>3
  <2> QED BY <1>1, <1>4, <1>5, <1>6, <1>7, <2>2, <2>4, Mapping, MappingPrimed
       DEF who, Good, IInv, Ideal!ClockNext, Ideal!Tick, Ideal!Playing
<1> QED BY <1>12, <1>13

LEMMA TimerStartIsGood == ASSUME IInv, NEW s \in Sides, TimerStart(s) PROVE Good
<1> DEFINE m == SyncMatchClock(match)
           r == [m EXCEPT !.pending = None]
           n == [m EXCEPT !.active = s, !.pending = None, !.since = 0]
<1>1. CASE match' = m
  BY <1>1, LookIsGood
<1>2. CASE match' # m
  <2>1. /\ Started(m) /\ m.choosing = s /\ ~m.resolving
        /\ match' = IF m.active = s THEN r ELSE n
    BY <1>2 DEF TimerStart, StartMatchClock
  <2>2. Started(match)
    BY <2>1 DEF SyncMatchClock
  <2> HIDE DEF m
  <2>3. /\ Sound(m) /\ Rest(match, m) /\ Alike(match, m) /\ (m.pending # None => m.since < 0)
        /\ Left(m) = m.time
    BY <2>1, <2>2, Synced DEF IInv, m
  <2>4. m \in Match /\ m.verdict = None /\ Standing(m)
    BY <2>1, <2>3 DEF Sound, Started
  <2>5. m.active # s
    <3> SUFFICES ASSUME m.active = s PROVE FALSE
      OBVIOUS
    <3>1. m.pending = None
      BY <2>1, <2>4, SidesAssumption DEF Standing
    <3>2. r = m
      BY <2>4, <3>1 DEF Match
    <3> QED BY <1>2, <2>1, <3>2
  <2>6. match' = n /\ m.active = None /\ m.pending = s /\ s # None
    BY <2>1, <2>4, <2>5, SidesAssumption DEF Standing
  <2>7. /\ match' \in Match /\ match'.verdict = None /\ match'.active = s /\ match'.pending = None
        /\ match'.since = 0 /\ match'.time = m.time /\ Rest(m, match')
    <3>1. /\ n \in Match /\ n.verdict = None /\ n.active = s /\ n.pending = None
          /\ n.since = 0 /\ n.time = m.time /\ Rest(m, n)
      <4>1. s \in Sides \cup {None} /\ None \in Sides \cup {None} /\ 0 \in Int
        OBVIOUS
      <4>2. n = WithClock(m, s, None, 0)
        BY DEF WithClock
      <4> HIDE DEF n
      <4>3. m \in Match
        BY <2>4
      <4>4. /\ n \in Match /\ n.verdict = m.verdict /\ n.time = m.time /\ Rest(m, n)
            /\ n.active = s /\ n.pending = None /\ n.since = 0
        BY <4>1, <4>2, <4>3, ClockSet
      <4> QED BY <2>4, <4>4
    <3> HIDE DEF n
    <3> QED BY <2>6, <3>1
  <2>8. Sound(match') /\ Started(match')
    BY <2>1, <2>4, <2>7 DEF Sound, Standing, Started, Rest
  <2>9. Left(match') = m.time
    BY <2>7, <2>8, NothingToCharge
  <2>10. Who(match') = s /\ Who(m) = s /\ Grace(match') = 0
    BY <2>4, <2>6, <2>7 DEF Who, Grace, Started
  <2>11. Ideal!Ready
    BY <2>2, <2>3, <2>6, <2>7, <2>8, <2>9, <2>10, IsReady DEF Alike, Rest, Owing
  <2> QED BY <2>8, <2>11 DEF Good, IInv, Ideal!ClockNext
<1> QED BY <1>1, <1>2

\* A handler whose guards pass once the clock was read.
LEMMA ReadFirst ==
  ASSUME IInv, NEW m, m = SyncMatchClock(match), Started(m)
  PROVE  /\ Started(match) /\ m \in Match /\ m.verdict = None /\ Standing(m) /\ Rest(match, m)
         /\ Who(m) = Who(match) /\ Left(match) = m.time
         /\ Who(match) # None => Who(match) \in Sides /\ Left(match)[Who(match)] > 0
<1>1. Started(match)
  BY DEF SyncMatchClock
<1>2. Sound(m) /\ Rest(match, m) /\ Alike(match, m) /\ Left(m) = m.time
  BY <1>1, Synced DEF IInv
<1>3. m \in Match /\ m.verdict = None /\ Standing(m)
  BY <1>2 DEF Sound, Started
<1>4. Who(match) # None => Who(match) \in Sides
  BY <1>1 DEF IInv, Sound, Match, Who
<1> QED BY <1>1, <1>2, <1>3, <1>4 DEF Alike, Standing

\* The move that was accepted, on a clock that stands.
Halted(m, p) == /\ p \in Match /\ p.verdict = None /\ p.time = m.time
                /\ p.active = None /\ p.pending = None /\ p.moves = 1 - m.moves
                /\ p.turn = m.turn /\ p.choosing = m.choosing /\ p.resolving = m.resolving
                /\ p.settling = m.settling

LEMMA HaltedByMove ==
  ASSUME NEW m \in Match, m.verdict = None
  PROVE  Halted(m, Played(PauseMatchClock(m)))
<1> DEFINE p == [m EXCEPT !.active = None, !.pending = None, !.since = 0]
           q == [p EXCEPT !.moves = 1 - p.moves]
<1>1. Played(PauseMatchClock(m)) = q
  BY DEF Played, PauseMatchClock
<1>2. /\ p \in Match /\ p.verdict = None /\ p.time = m.time /\ p.active = None /\ p.pending = None
      /\ Rest(m, p)
  <2>1. None \in Sides \cup {None} /\ 0 \in Int
    OBVIOUS
  <2>2. p = WithClock(m, None, None, 0)
    BY DEF WithClock
  <2> HIDE DEF p
  <2> QED BY <2>1, <2>2, ClockSet
<1> HIDE DEF p
<1>3. 1 - p.moves \in 0..1
  BY <1>2 DEF Match
<1>4. /\ q \in Match /\ q.verdict = None /\ q.time = p.time /\ q.active = None /\ q.pending = None
      /\ q.moves = 1 - p.moves /\ q.turn = p.turn /\ q.choosing = p.choosing
      /\ q.resolving = p.resolving /\ q.settling = p.settling
  BY <1>2, <1>3 DEF Match
<1> HIDE DEF q
<1> QED BY <1>1, <1>2, <1>4 DEF Halted, Rest

LEMMA LockIsGood == ASSUME IInv, NEW s \in Sides, Lock(s) PROVE Good
<1> DEFINE m == SyncMatchClock(match)
           p == Played(PauseMatchClock(m))
           n == [p EXCEPT !.resolving = TRUE, !.settling = "no"]
<1>1. Started(m) /\ match' = n
  BY DEF Lock, Admitted
<1> HIDE DEF m
<1>2. /\ Started(match) /\ m \in Match /\ m.verdict = None /\ Standing(m) /\ Rest(match, m)
      /\ Left(match) = m.time
      /\ Who(match) # None => Left(match)[Who(match)] > 0
  BY <1>1, ReadFirst DEF m
<1>3. Halted(m, p)
  BY <1>2, HaltedByMove
<1> HIDE DEF p
<1>4. /\ n \in Match /\ n.verdict = None /\ n.time = m.time /\ n.active = None /\ n.pending = None
      /\ n.moves = 1 - match.moves /\ n.resolving /\ n.settling = "no"
  BY <1>2, <1>3 DEF Halted, Match, Settlings, Rest
<1> HIDE DEF n
<1>5. Sound(match') /\ Started(match')
  BY <1>1, <1>2, <1>4 DEF Sound, Standing, Started
<1>6. Who(match') = None /\ Grace(match') = 0
  BY <1>1, <1>4 DEF Who, Grace
<1>7. Left(match') = Left(match)
  BY <1>1, <1>2, <1>4, <1>5, <1>6, NothingToCharge
<1>8. Ideal!HandOver
  BY <1>1, <1>2, <1>4, <1>6, <1>7, IsHandOver DEF Started
<1> QED BY <1>5, <1>8 DEF Good, IInv, Ideal!ClockNext

\* A move that passes the choice on, with the clock armed for the next chooser.
LEMMA ArmedIsGood ==
  ASSUME IInv, NEW m, m = SyncMatchClock(match), Started(m), NEW a \in Allowances,
         NEW q \in Match, q.verdict = None, q.time = m.time, ~q.resolving, q.moves = 1 - m.moves,
         match' = ArmPresentationClock(q, a)
  PROVE  Good
<1>1. /\ Started(match) /\ Standing(m) /\ Rest(match, m) /\ Left(match) = m.time
      /\ Who(match) # None => Left(match)[Who(match)] > 0
  BY ReadFirst
<1>2. /\ Sound(match') /\ Started(match') /\ Rest(q, match')
      /\ Who(match') = q.choosing /\ Grace(match') = a /\ Left(match') = q.time
  BY <1>1, Armed DEF Standing, Started
<1>3. q.choosing \in Sides /\ q.choosing # None
  BY SidesAssumption DEF Match
<1>4. Ideal!HandOver
  BY <1>1, <1>2, <1>3, IsHandOver DEF Rest, Started
<1> QED BY <1>2, <1>4 DEF Good, IInv, Ideal!ClockNext

LEMMA MoveIsGood ==
  ASSUME IInv, NEW s \in Sides, NEW turn \in Sides, NEW choosing \in Sides, NEW a \in Allowances,
         Move(s, turn, choosing, a)
  PROVE  Good
<1> DEFINE m == SyncMatchClock(match)
           p == Played(PauseMatchClock(m))
           q == [p EXCEPT !.turn = turn, !.choosing = choosing]
<1>1. Started(m) /\ ~m.resolving /\ match' = ArmPresentationClock(q, a)
  BY DEF Move, Admitted
<1> HIDE DEF m
<1>2. m \in Match /\ m.verdict = None
  BY <1>1, ReadFirst DEF m
<1>3. Halted(m, p)
  BY <1>2, HaltedByMove
<1> HIDE DEF p
<1>4. q \in Match /\ q.verdict = None /\ q.time = m.time /\ ~q.resolving /\ q.moves = 1 - m.moves
  BY <1>1, <1>3 DEF Halted, Match
<1> HIDE DEF q
<1> QED BY <1>1, <1>4, ArmedIsGood DEF m

LEMMA DeclineIsGood ==
  ASSUME IInv, NEW s \in Sides, NEW how \in Settlings, NEW a \in Allowances, Decline(s, how, a)
  PROVE  Good
<1> DEFINE m == SyncMatchClock(match)
           p == Played(PauseMatchClock(m))
           q == [p EXCEPT !.settling = how]
<1>1. Started(m) /\ ~m.resolving /\ match' = ArmPresentationClock(q, a)
  BY DEF Decline, Admitted
<1> HIDE DEF m
<1>2. m \in Match /\ m.verdict = None
  BY <1>1, ReadFirst DEF m
<1>3. Halted(m, p)
  BY <1>2, HaltedByMove
<1> HIDE DEF p
<1>4. q \in Match /\ q.verdict = None /\ q.time = m.time /\ ~q.resolving /\ q.moves = 1 - m.moves
  BY <1>1, <1>3 DEF Halted, Match
<1> HIDE DEF q
<1> QED BY <1>1, <1>4, ArmedIsGood DEF m

LEMMA Finished ==
  ASSUME NEW m \in Match, NEW why \in {"timeout", "play", "disconnect"}, NEW w \in Sides
  PROVE  LET n == Finish(m, why, w) IN
         Sound(n) /\ n.verdict = <<why, w>> /\ n.moves = m.moves
<1> DEFINE v == <<why, w>>
           n == Finish(m, why, w)
<1>1. v \in Verdicts /\ v # None
  BY VerdictAssumption DEF Verdicts
<1>2. n = [m EXCEPT !.verdict = v, !.active = None, !.since = 0]
  BY DEF Finish
<1> HIDE DEF v
<1>3. n \in Match /\ n.verdict = v /\ n.moves = m.moves
  <2> DEFINE z == 0
             e == [m EXCEPT !.verdict = v, !.active = None, !.since = z]
  <2>1. n = e /\ z \in Int
    BY <1>2
  <2> HIDE DEF n, z
  <2>2. e \in Match /\ e.verdict = v /\ e.moves = m.moves
    BY <1>1, <2>1 DEF Match
  <2> QED BY <2>1, <2>2
<1> HIDE DEF n
<1> QED BY <1>1, <1>3 DEF Sound, Started, n, v

LEMMA FinishingMoveIsGood ==
  ASSUME IInv, NEW s \in Sides, NEW w \in Sides, FinishingMove(s, w) PROVE Good
<1> DEFINE m == SyncMatchClock(match)
<1>1. Started(m) /\ match' = Finish(m, "play", w)
  BY DEF FinishingMove
<1> HIDE DEF m
<1>2. /\ Started(match) /\ m \in Match /\ Rest(match, m)
      /\ Who(match) # None => Left(match)[Who(match)] > 0
  BY <1>1, ReadFirst DEF m
<1>3. Sound(match') /\ match'.verdict = <<"play", w>> /\ match'.moves = m.moves
  BY <1>1, <1>2, Finished
<1>4. Ideal!End
  BY <1>2, <1>3, IsEnd DEF Rest
<1> QED BY <1>3, <1>4 DEF Good, IInv, Ideal!ClockNext

LEMMA ContinueInvalidIsGood ==
  ASSUME IInv, NEW w \in Sides, ContinueInvalid(w) PROVE Good
<1>1. Started(match) /\ match.resolving /\ match \in Match /\ Standing(match)
      /\ match' = Finish(match, "play", w)
  BY DEF ContinueInvalid, IInv, Sound
<1>2. Sound(match') /\ match'.verdict = <<"play", w>> /\ match'.moves = match.moves
  BY <1>1, Finished
<1>3. Who(match) = None
  BY <1>1 DEF Standing, Who
<1>4. Ideal!End
  BY <1>1, <1>2, <1>3, IsEnd
<1> QED BY <1>2, <1>4 DEF Good, IInv, Ideal!ClockNext

LEMMA DisconnectIsGood == ASSUME IInv, NEW w \in Sides, Disconnect(w) PROVE Good
<1>1. Started(match) /\ match \in Match /\ match' = Finish(match, "disconnect", w)
  BY DEF Disconnect, IInv, Sound
<1>2. Sound(match') /\ match'.verdict = <<"disconnect", w>> /\ match'.moves = match.moves
  BY <1>1, Finished
<1>3. Ideal!End
  BY <1>1, <1>2, IsEnd
<1> QED BY <1>2, <1>3 DEF Good, IInv, Ideal!ClockNext

LEMMA ContinueKnockoutsIsGood == ASSUME IInv, ContinueKnockouts PROVE Good
<1>1. /\ match \in Match /\ match.verdict = None /\ Standing(match) /\ match.settling = "spins"
      /\ match' = [match EXCEPT !.settling = "knockouts"]
  BY DEF ContinueKnockouts, IInv, Sound, Started
<1>2. /\ match' \in Match /\ match'.verdict = None /\ match'.time = match.time
      /\ match'.active = match.active /\ match'.pending = match.pending
      /\ match'.since = match.since /\ match'.moves = match.moves /\ match'.settling = "knockouts"
      /\ match'.resolving = match.resolving /\ match'.choosing = match.choosing
  BY <1>1 DEF Match, Settlings
<1>3. Sound(match')
  BY <1>1, <1>2 DEF Sound, Standing
<1>4. Who(match') = Who(match)
  BY <1>1, <1>2 DEF Who, Started
<1>5. Grace(match') = Grace(match)
  BY <1>2, <1>4 DEF Grace
<1>6. Left(match') = Left(match)
  BY <1>1, <1>2, <1>4 DEF Left, Started
<1>7. Owing(match) /\ Owing(match')
  BY <1>1, <1>2 DEF Owing, Started
<1> QED BY <1>1, <1>2, <1>3, <1>4, <1>5, <1>6, <1>7, IsStutter DEF Good, IInv, Alike

\* A delayed step arms the next clock without reading the present one: a move
\* of nobody's when input was locked; when a player was to choose meanwhile,
\* what passed since somebody last looked is forgiven.
LEMMA ContinueIsGood ==
  ASSUME IInv, NEW turn \in Sides, NEW choosing \in Sides, NEW a \in Allowances,
         Continue(turn, choosing, a)
  PROVE  Good
<1> DEFINE p == Played(match)
           q == [p EXCEPT !.resolving = FALSE, !.settling = "no", !.turn = turn, !.choosing = choosing]
<1>1. /\ match \in Match /\ match.verdict = None /\ Started(match) /\ Standing(match)
      /\ match.resolving \/ match.settling \in {"spins", "knockouts"}
      /\ match' = ArmPresentationClock(q, a)
  BY DEF Continue, Owed, IInv, Sound, Started
<1>2. p \in Match /\ p.verdict = None /\ p.time = match.time /\ p.moves = 1 - match.moves
  <2>1. 1 - match.moves \in 0..1
    BY <1>1 DEF Match
  <2> QED BY <1>1, <2>1 DEF Match, Played
<1> HIDE DEF p
<1>3. /\ q \in Match /\ q.verdict = None /\ q.time = match.time /\ q.moves = 1 - match.moves
      /\ q.choosing = choosing /\ ~q.resolving /\ q.settling = "no"
  BY <1>2 DEF Match, Settlings
<1> HIDE DEF q
<1>4. /\ Sound(match') /\ Started(match') /\ Rest(q, match')
      /\ Who(match') = choosing /\ Grace(match') = a /\ Left(match') = match.time
  BY <1>1, <1>3, Armed DEF Standing, Started
<1>5. /\ match'.moves = 1 - match.moves /\ match'.verdict = match.verdict /\ ~Owing(match')
      /\ choosing # None
  BY <1>1, <1>3, <1>4, SidesAssumption DEF Rest, Started, Owing
<1>6. CASE match.resolving
  <2>1. Who(match) = None
    BY <1>1, <1>6 DEF Standing, Who
  <2>2. Left(match) = match.time
    BY <1>1, <2>1, NothingToCharge DEF IInv
  <2>3. Ideal!HandOver
    BY <1>1, <1>4, <1>5, <2>1, <2>2, IsHandOver
  <2> QED BY <1>4, <2>3 DEF Good, IInv, Ideal!ClockNext
<1>7. CASE ~match.resolving
  <2> DEFINE who == Who(match)
             n == match.time[who]
  <2>1. who \in Sides /\ who # None
    BY <1>1, <1>7, SidesAssumption DEF Standing, Who, Match
  <2>2. match.time \in [Sides -> 0..Budget] /\ n \in 0..Budget /\ match.since \in Int
    BY <1>1, <2>1 DEF Match
  <2>3. Left(match) = [s \in Sides |-> IF s = who THEN Max0(match.time[s] - Max0(match.since))
                                       ELSE match.time[s]]
    BY <1>1 DEF Left
  <2>4. Left(match)[who] = Max0(n - Max0(match.since))
    BY <2>1, <2>3
  <2> HIDE DEF who
  <2>5. n \in Left(match)[who]..Budget
    BY <2>2, <2>4, TimesAssumption DEF Max0
  <2>6. match.time = [Left(match) EXCEPT ![who] = n]
    BY <2>1, <2>2, <2>3
  <2>7. Owing(match)
    BY <1>1, <1>7 DEF Owing
  <2>8. Ideal!Deliver
    BY <1>1, <1>4, <1>5, <2>1, <2>5, <2>6, <2>7, IsDeliver DEF who
  <2> QED BY <1>4, <2>8 DEF Good, IInv, Ideal!ClockNext
<1> QED BY <1>6, <1>7

-----------------------------------------------------------------------------
LEMMA InitIsGood == Init => IInv /\ Ideal!ClockInit
<1> SUFFICES ASSUME Init PROVE IInv /\ Ideal!ClockInit
  OBVIOUS
<1>1. PICK s \in Sides, a \in Allowances :
        match = ArmPresentationClock(
          [verdict |-> None, turn |-> s, choosing |-> s, resolving |-> FALSE, settling |-> "no",
           time |-> [t \in Sides |-> Budget], active |-> None, pending |-> None, since |-> 0,
           moves |-> 0], a)
  BY DEF Init
<1> DEFINE q == [verdict |-> None, turn |-> s, choosing |-> s, resolving |-> FALSE, settling |-> "no",
                 time |-> [t \in Sides |-> Budget], active |-> None, pending |-> None, since |-> 0,
                 moves |-> 0]
<1>2. q.time \in [Sides -> 0..Budget] /\ \A t \in Sides : q.time[t] > 0
  BY TimesAssumption
<1>3. q \in Match
  BY <1>2 DEF Match, Settlings
<1>4. /\ q.verdict = None /\ ~q.resolving /\ q.choosing = s /\ q.settling = "no" /\ q.moves = 0
      /\ q.time = [t \in Sides |-> Budget] /\ match = ArmPresentationClock(q, a)
  BY <1>1
<1> HIDE DEF q
<1>5. /\ Sound(match) /\ Started(match) /\ Rest(q, match)
      /\ Who(match) = s /\ Grace(match) = a /\ Left(match) = q.time
  BY <1>2, <1>3, <1>4, Armed DEF Started
<1>6. Owing(match) = FALSE /\ match.moves = 0 /\ match.verdict = None
  BY <1>4, <1>5 DEF Owing, Rest, Started
<1> QED BY <1>4, <1>5, <1>6, Mapping DEF IInv, Ideal!ClockInit

LEMMA NextIsGood == ASSUME IInv, [Next]_vars PROVE Good
<1>1. CASE Tick
  BY <1>1, TickIsGood
<1>2. CASE Look
  BY <1>2, LookIsGood DEF Look
<1>3. ASSUME NEW s \in Sides, TimerStart(s) \/ Lock(s) PROVE Good
  BY <1>3, TimerStartIsGood, LockIsGood
<1>4. CASE HandsOver
  BY <1>4, MoveIsGood, ContinueIsGood DEF HandsOver
<1>5. ASSUME NEW s \in Sides, NEW how \in Settlings, NEW a \in Allowances, Decline(s, how, a)
      PROVE  Good
  BY <1>5, DeclineIsGood
<1>6. ASSUME NEW s \in Sides, NEW w \in Sides, FinishingMove(s, w) PROVE Good
  BY <1>6, FinishingMoveIsGood
<1>7. CASE ContinueKnockouts
  BY <1>7, ContinueKnockoutsIsGood
<1>8. ASSUME NEW w \in Sides, ContinueInvalid(w) \/ Disconnect(w) PROVE Good
  BY <1>8, ContinueInvalidIsGood, DisconnectIsGood
<1>9. CASE UNCHANGED vars
  BY <1>9, IsStutter DEF vars, Good, IInv, Alike
<1> QED BY <1>1, <1>2, <1>3, <1>4, <1>5, <1>6, <1>7, <1>8, <1>9 DEF Next

THEOREM Invariance == Spec => []IInv
<1>1. Init => IInv
  BY InitIsGood
<1>2. IInv /\ [Next]_vars => IInv'
  BY NextIsGood DEF Good
<1> QED BY <1>1, <1>2, PTL DEF Spec

\* While a player is to choose, one clock stands for that player; while a battle
\* resolves, none does.
THEOREM ClockStands == Spec => []ClockStandsForChooser
<1>1. IInv => ClockStandsForChooser
  <2> SUFFICES ASSUME IInv, Started(match) PROVE ClockStandsForChooser
    BY DEF ClockStandsForChooser
  <2>1. Standing(match) /\ match.choosing \in Sides /\ match.choosing # None
    BY SidesAssumption DEF IInv, Sound, Match
  <2>2. Thinker = Who(match)
    BY Mapping
  <2> QED BY <2>1, <2>2 DEF ClockStandsForChooser, Standing, Clocked, Who
<1> QED BY <1>1, Invariance, PTL

\* The players' time is the time of a clock that never has to be looked at.
THEOREM Refinement == Spec => ImplementsIdealClock
<1>1. Init => Ideal!ClockInit
  BY InitIsGood
<1>2. IInv /\ [Next]_vars => [Ideal!ClockNext]_(Ideal!clockVars)
  BY NextIsGood DEF Good
<1> QED BY <1>1, <1>2, Invariance, PTL DEF Spec, ImplementsIdealClock, Ideal!ClockSpec
=============================================================================
