------------------------------- MODULE Chests -------------------------------
(***************************************************************************)
(* The chests of one account (account-store.mjs).  An account starts with  *)
(* a chest, and each finished match awards at most one, if one of three    *)
(* slots is free.  Its reward is drawn when it is created: the first       *)
(* figure of the catalogue that the account neither owns nor has in        *)
(* another open chest.  The owner starts a chest, waits, and claims it.    *)
(*                                                                         *)
(* A chest is known by what it was awarded for (source_key).  Each         *)
(* operation is one synchronous transaction, startChest's two statements   *)
(* excepted: a crash may fall between them.                                *)
(***************************************************************************)
EXTENDS Integers, FiniteSets, Sequences

CONSTANTS Figures,   \* what can be owned
          Catalog,   \* rewardCatalog, in order
          Matches,   \* finished matches the account asks the result of
          Starter,   \* the source key of the chest an account starts with
          None,
          Unlock     \* chestUnlockMilliseconds, 0 allowed

ASSUME CatalogAssumption == /\ Catalog \in Seq(Figures) /\ Catalog # <<>>
                            /\ \A i, j \in DOMAIN Catalog : Catalog[i] = Catalog[j] => i = j
ASSUME KeyAssumption == Starter \notin Matches
ASSUME FiniteAssumption == IsFiniteSet(Matches)
ASSUME UnlockAssumption == Unlock \in Nat

VARIABLES
  chests,   \* the chest of each source key, or None
  owned,    \* user_figures
  events    \* inventory_events, as pairs of type and source key
chestsVars == <<chests, owned, events>>

Keys == Matches \cup {Starter}
Slots == 0..2
Chest == [state : {"locked", "unlocking", "claimed"}, slot : Slots \cup {None},
          reward : Figures, left : 0..Unlock]
ASSUME ChestNull == None \notin Chest /\ None \notin Slots
Kinds == {"chest_created", "chest_unlock_started", "chest_claimed"}

ChestsTypeOK == /\ chests \in [Keys -> Chest \cup {None}]
                /\ owned \subseteq Figures
                /\ events \subseteq Kinds \X Keys

Rewards == {Catalog[i] : i \in DOMAIN Catalog}
Fresh == Rewards \ owned
Awarded == {k \in Keys : chests[k] # None}
Open == {k \in Awarded : chests[k].state # "claimed"}
Reserved == {chests[k].reward : k \in Open}
FreeSlots == Slots \ {chests[k].slot : k \in Open}

FirstOf(set) == Catalog[CHOOSE i \in DOMAIN Catalog :
                          /\ Catalog[i] \in set
                          /\ \A j \in 1..(i - 1) : Catalog[j] \notin set]
\* Mutant: the rewards of the other open chests are not looked at.
UnreservedReward == IF Fresh # {} THEN FirstOf(Fresh) ELSE Catalog[1]
\* #createChest
Reward == IF Fresh \ Reserved # {} THEN FirstOf(Fresh \ Reserved)
          ELSE IF Fresh # {} THEN FirstOf(Fresh)
          ELSE Catalog[1]
CreateChest(k, slot) ==
  /\ chests' = [chests EXCEPT ![k] = [state |-> "locked", slot |-> slot,
                                      reward |-> Reward, left |-> 0]]
  /\ events' = events \cup {<<"chest_created", k>>}
  /\ UNCHANGED owned

-----------------------------------------------------------------------------
\* createAccount: the starter figures, and a chest in slot 0.
ChestsInit == /\ owned \in SUBSET Figures
              /\ chests = [k \in Keys |->
                   IF k # Starter THEN None
                   ELSE [state |-> "locked", slot |-> 0, left |-> 0,
                         reward |-> IF Fresh # {} THEN FirstOf(Fresh) ELSE Catalog[1]]]
              /\ events = {<<"chest_created", Starter>>}

\* Mutant: only open chests count as awarded.
OpenOnly(m) == m \in Open
AlreadyAwarded(m) == m \in Awarded
\* Mutant: the next slot is the number of chests awarded so far.
CountedSlot == Cardinality(Awarded)
LowestSlot == CHOOSE s \in FreeSlots : \A t \in FreeSlots : s <= t
\* createMatchChest, when a result is asked for and an award is possible
AwardMatch(m) == /\ ~AlreadyAwarded(m) /\ FreeSlots # {}
                 /\ CreateChest(m, LowestSlot)

\* startChest.  The row is updated and the event written outside of a
\* transaction: a crash in between loses the event only.
StartChest(k) ==
  /\ k \in Awarded /\ chests[k].state = "locked"
  /\ chests' = [chests EXCEPT ![k] = [state |-> "unlocking", left |-> Unlock,
                                      slot |-> chests[k].slot, reward |-> chests[k].reward]]
  /\ \/ events' = events \cup {<<"chest_unlock_started", k>>}
     \/ UNCHANGED events
  /\ UNCHANGED owned

\* Mutant: the claimed chest keeps its slot.
KeptSlot(k) == [chests EXCEPT ![k].state = "claimed"]
Claimed(k) == [chests EXCEPT ![k] = [state |-> "claimed", left |-> 0,
                                     slot |-> None, reward |-> chests[k].reward]]
Ready(k) == chests[k].left = 0
\* claimChest.  A figure owned already is not added again.
ClaimChest(k) ==
  /\ k \in Awarded /\ chests[k].state = "unlocking" /\ Ready(k)
  /\ owned' = owned \cup {chests[k].reward}
  /\ chests' = Claimed(k)
  /\ events' = events \cup {<<"chest_claimed", k>>}

\* A unit of time passes.
ChestTick == /\ \E k \in Awarded : chests[k].left > 0
             /\ chests' = [k \in Keys |-> IF k \in Awarded /\ chests[k].left > 0
                                          THEN [chests[k] EXCEPT !.left = @ - 1] ELSE chests[k]]
             /\ UNCHANGED <<owned, events>>

ChestsNext == \/ \E m \in Matches : AwardMatch(m)
              \/ \E k \in Keys : StartChest(k) \/ ClaimChest(k)
              \/ ChestTick
ChestsSpec == ChestsInit /\ [][ChestsNext]_chestsVars

-----------------------------------------------------------------------------
\* Open chests stand in slots of their own and claimed ones in none, so that
\* the unique index on slots never refuses an award (createMatchChest reads
\* the slots before its transaction).
SlotsAreDistinct ==
  /\ \A k \in Open : chests[k].slot \in Slots
  /\ \A k, l \in Open : chests[k].slot = chests[l].slot => k = l
  /\ \A k \in Awarded \ Open : chests[k].slot = None

\* No chest is wasted while there is something left to give: if the account
\* lacks at least as many rewards as it has open chests, then these chests
\* hold different rewards and it owns none of them (#createChest), in
\* whichever order chests are awarded, started and claimed.
EveryChestPays ==
  Cardinality(Fresh) >= Cardinality(Open) =>
    /\ \A k \in Open : chests[k].reward \notin owned
    /\ \A k, l \in Open : chests[k].reward = chests[l].reward => k = l

\* A claimed chest has paid, and the history says so exactly: one creation
\* per award, one claim per claimed chest (the claim is one transaction).
\* The start of an unlock may be missing, never invented.
HistoryIsTrue ==
  /\ \A k \in Awarded \ Open : chests[k].reward \in owned
  /\ \A k \in Keys : /\ <<"chest_created", k>> \in events <=> k \in Awarded
                     /\ <<"chest_claimed", k>> \in events <=> k \in Awarded \ Open
                     /\ <<"chest_unlock_started", k>> \in events =>
                          k \in Awarded /\ chests[k].state # "locked"

\* A chest, once awarded, keeps its reward, goes only forward and is
\* claimed only when its time has passed: asking for a result again or
\* claiming again changes nothing.
Forward == {<<"locked", "unlocking">>, <<"unlocking", "claimed">>}
ChestsGoForward ==
  [][\A k \in Awarded :
       /\ chests'[k] # None /\ chests'[k].reward = chests[k].reward
       /\ \/ chests'[k].state = chests[k].state
          \/ <<chests[k].state, chests'[k].state>> \in Forward
       /\ chests'[k].state = "claimed" /\ k \in Open => chests[k].left = 0]_chestsVars
=============================================================================
