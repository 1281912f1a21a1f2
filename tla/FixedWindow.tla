----------------------------- MODULE FixedWindow -----------------------------
(***************************************************************************)
(* What a limiter of attempts per address promises.  An address has a      *)
(* window from its first attempt, of fixed length, with a fixed number of  *)
(* attempts in it; the window vanishes the moment it ends; at most         *)
(* Capacity addresses have one at a time.  There is no table, no order and *)
(* nothing to reclaim.                                                     *)
(***************************************************************************)
EXTENDS Integers, FiniteSets

CONSTANTS Addresses, \* who is limited
          Limit,     \* attempts per window
          Window,    \* length of a window
          Capacity,  \* windows at a time
          Times      \* the times there are

VARIABLES time,      \* limiter time: it never goes back
          windows,   \* the open windows: address, attempts used, end
          answer     \* what the last attempt was told

fwVars == <<time, windows, answer>>

Open(t) == {w \in windows : w.resetAt > t}
OpenOf(a, t) == {w \in Open(t) : w.address = a}

FWInit == time = 0 /\ windows = {} /\ answer = [reason |-> "none"]

\* Time goes by and windows end.
Pass(t) == /\ t \in Times /\ t >= time
           /\ time' = t

Refuse(reason, w) == answer' = [reason |-> reason, remaining |-> 0, resetAt |-> w.resetAt]
Allow(w) == answer' = [reason |-> "allowed", remaining |-> Limit - w.count, resetAt |-> w.resetAt]

\* The first attempt of an address opens a window, if there is room.
First(a, t) == /\ OpenOf(a, t) = {} /\ Cardinality(Open(t)) < Capacity
               /\ LET w == [address |-> a, count |-> 1, resetAt |-> t + Window]
                  IN windows' = Open(t) \cup {w} /\ Allow(w)

\* Without room the attempt is told when the next window ends.
NoRoom(a, t) == /\ OpenOf(a, t) = {} /\ Cardinality(Open(t)) >= Capacity
                /\ windows' = Open(t)
                /\ \E w \in Open(t) : /\ \A v \in Open(t) : w.resetAt <= v.resetAt
                                      /\ Refuse("capacity_exceeded", w)

\* Later attempts use the window up and never move its end.
Again(a, t) == \E w \in OpenOf(a, t) :
  IF w.count < Limit
  THEN LET used == [w EXCEPT !.count = @ + 1]
       IN windows' = (Open(t) \ {w}) \cup {used} /\ Allow(used)
  ELSE windows' = Open(t) /\ Refuse("limit_exceeded", w)

Attempt == \E a \in Addresses, t \in Times :
             Pass(t) /\ (First(a, t) \/ NoRoom(a, t) \/ Again(a, t))
Inspect == \E t \in Times : Pass(t) /\ windows' = Open(t) /\ UNCHANGED answer

FWSpec == FWInit /\ [][Attempt \/ Inspect]_fwVars
=============================================================================
