---------------------------- MODULE MCInventory -----------------------------
(***************************************************************************)
(* What the store keeps of an account, one part at a time; the chests and   *)
(* the decks share nothing but the figures owned, of which a deck only sees *)
(* that they become more, and the installations share nothing with either.  *)
(* Chests: four in a life, three rewards and one figure that no chest holds, *)
(* so that slots and rewards run out. Decks: two figures, and a starter list *)
(* of two plates over the cost limit. Devices: two accounts and three        *)
(* installations, of which two may be pending at a time.                    *)
(***************************************************************************)
EXTENDS Decks, DeviceAccess, TLC

CONSTANTS f1, f2, f3, f4, m1, m2, m3, p1, p2,
          u1, u2, d1, d2, d3

VARIABLE part
allVars == <<chestsVars, decksVars, vars, part>>

MCFigures == {f1, f2, f3, f4}
MCCatalog == <<f1, f2, f3>>
MCMatches == {m1, m2, m3}
MCPlates == {p1, p2}
MCCost == (p1 :> 1) @@ (p2 :> 2)
MCStarterFigures == <<f1>>
MCStarterPlates == <<p1, p2>>
MCUsers == {u1, u2}
MCDevices == {d1, d2, d3}
Symmetry == Permutations(MCMatches) \cup Permutations(MCUsers) \cup Permutations(MCDevices)

NoChests == chests = [k \in Keys |-> None] /\ events = {}
NoDecks == /\ decks = [k \in 1..(MaxDecks + 1) |-> IF k = 1 THEN [figures |-> <<>>, plates |-> <<>>] ELSE None]
           /\ gems = 0 /\ up = FALSE
NoDevices == /\ links = [d \in Devices |-> Null] /\ requests = {} /\ sessions = {}
             /\ quiet = CleanupEvery /\ reply = Null

MCInit ==
  \/ part = "chests" /\ ChestsInit /\ NoDecks /\ NoDevices
  \/ part = "decks" /\ DecksInit /\ NoChests /\ NoDevices
  \/ part = "devices" /\ Init /\ NoChests /\ owned = {} /\ NoDecks

MCNext ==
  /\ UNCHANGED part
  /\ \/ part = "chests" /\ ChestsNext /\ UNCHANGED <<decksVars, vars>>
     \/ part = "decks" /\ DecksNext /\ UNCHANGED <<chests, events, vars>>
     \/ part = "devices" /\ Next /\ UNCHANGED <<chestsVars, decksVars>>

MCSpec == MCInit /\ [][MCNext]_allVars

\* Two figures are enough to tell lists apart.
Small == part = "decks" => owned \subseteq {f1, f2}
=============================================================================
