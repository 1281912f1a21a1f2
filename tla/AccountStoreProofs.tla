------------------------- MODULE AccountStoreProofs --------------------------
(***************************************************************************)
(* What the store keeps of accounts: their chests, for every catalogue,    *)
(* every number of matches and every unlock time; their decks, for any     *)
(* figures, plates, costs and limits; and installations, codes and bearers *)
(* for every number of accounts and installations, all limits and lives.   *)
(*                                                                         *)
(* The chests.  EveryChestPays compares two cardinalities and is not       *)
(* inductive.  The invariant behind it needs no counting: either the open  *)
(* chests hold different rewards that the account lacks, or together they  *)
(* hold every reward it lacks.  A pigeonhole argument then gives           *)
(* EveryChestPays.                                                         *)
(*                                                                         *)
(* The devices.  Fine is stated on three tables given as arguments,        *)
(* because a login acts on cleaned, and perhaps aged, tables within one    *)
(* step: cleaning and ageing are shown to keep tables fine, and so is each *)
(* handler's body.                                                         *)
(***************************************************************************)
EXTENDS Decks, DeviceAccess, TLAPS, WellFoundedInduction, FiniteSetTheorems

Distinct == /\ \A k \in Open : chests[k].reward \notin owned
            /\ \A k, l \in Open : chests[k].reward = chests[l].reward => k = l
AllFreshReserved == Fresh \subseteq Reserved
RewardsFit == Distinct \/ AllFreshReserved

ChestsInv == ChestsTypeOK /\ SlotsAreDistinct /\ HistoryIsTrue /\ RewardsFit

-----------------------------------------------------------------------------
\* A set of naturals has a least member.
LEMMA LeastMember ==
  ASSUME NEW T \in SUBSET Nat, T # {}
  PROVE  \E n \in T : \A m \in T : n <= m
<1> DEFINE R == OpToRel(<, Nat)
<1>1. IsWellFoundedOn(R, Nat)
  BY NatLessThanWellFounded, Zenon
<1>2. \A x, y \in Nat : <<y, x>> \notin R => x <= y
  BY DEF OpToRel
<1> HIDE DEF R
<1>3. \E x \in T : \A y \in T : <<y, x>> \notin R
  BY <1>1, WFMin, Zenon
<1> QED BY <1>2, <1>3

\* The first of some rewards of the catalogue is one of them.
LEMMA FirstOfIsIn ==
  ASSUME NEW S \in SUBSET Rewards, S # {}
  PROVE  FirstOf(S) \in S
<1> DEFINE T == {i \in DOMAIN Catalog : Catalog[i] \in S}
           First(i) == Catalog[i] \in S /\ \A j \in 1..(i - 1) : Catalog[j] \notin S
<1>1. DOMAIN Catalog = 1..Len(Catalog) /\ Len(Catalog) \in Nat
  BY CatalogAssumption
<1>2. T \in SUBSET Nat /\ T # {}
  BY <1>1 DEF Rewards
<1>3. PICK n \in T : \A m \in T : n <= m
  BY <1>2, LeastMember
<1>4. n \in DOMAIN Catalog /\ First(n)
  BY <1>1, <1>3
<1>5. First(CHOOSE i \in DOMAIN Catalog : First(i))
  BY <1>4, Zenon
<1> QED BY <1>5 DEF FirstOf

\* The catalogue holds figures and has a first entry.
LEMMA CatalogHolds == Rewards \subseteq Figures /\ Catalog[1] \in Figures
BY CatalogAssumption DEF Rewards

\* The reward of a new chest is a figure, and one that the account neither
\* owns nor has in another open chest if there is such a one.
LEMMA RewardIsFresh ==
  /\ Reward \in Figures
  /\ Fresh \ Reserved # {} => Reward \in Fresh \ Reserved
<1>1. Fresh \in SUBSET Rewards /\ Fresh \ Reserved \in SUBSET Rewards
  BY DEF Fresh
<1>2. Fresh # {} => FirstOf(Fresh) \in Fresh
  BY <1>1, FirstOfIsIn
<1>3. Fresh \ Reserved # {} => FirstOf(Fresh \ Reserved) \in Fresh \ Reserved
  BY <1>1, FirstOfIsIn
<1> QED BY <1>1, <1>2, <1>3, CatalogHolds DEF Reward

\* The slot of a new chest is free.
LEMMA LowestIsFree ==
  ASSUME FreeSlots # {}
  PROVE  LowestSlot \in FreeSlots
<1>1. FreeSlots \in SUBSET Nat
  BY DEF FreeSlots, Slots
<1>2. \E s \in FreeSlots : \A t \in FreeSlots : s <= t
  BY <1>1, LeastMember
<1> QED BY <1>2, Zenon DEF LowestSlot

\* A chest that was awarded has the fields of one.
LEMMA ChestFields ==
  ASSUME ChestsTypeOK, NEW k \in Awarded
  PROVE  /\ k \in Keys /\ chests[k] \in Chest
         /\ chests[k].state \in {"locked", "unlocking", "claimed"}
         /\ chests[k].slot \in Slots \cup {None}
         /\ chests[k].reward \in Figures
         /\ chests[k].left \in 0..Unlock
<1>1. k \in Keys /\ chests[k] \in Chest
  BY DEF ChestsTypeOK, Awarded
<1> QED BY <1>1 DEF Chest

-----------------------------------------------------------------------------
\* The first chest of an account.
LEMMA ChestsInitHolds == ChestsInit => ChestsInv
<1> SUFFICES ASSUME ChestsInit PROVE ChestsInv
  OBVIOUS
<1>1. Starter \in Keys /\ \A k \in Keys : k # Starter => chests[k] = None
  BY DEF ChestsInit, Keys
<1>2. Fresh \in SUBSET Rewards
  BY DEF Fresh
<1>3. Fresh # {} => FirstOf(Fresh) \in Fresh
  BY <1>2, FirstOfIsIn
<1> DEFINE r == IF Fresh # {} THEN FirstOf(Fresh) ELSE Catalog[1]
           c == [state |-> "locked", slot |-> 0, left |-> 0, reward |-> r]
<1>4. r \in Figures
  BY <1>2, <1>3, CatalogHolds
<1>5. chests[Starter] = c
  BY <1>1 DEF ChestsInit
<1>6. c \in Chest
  BY <1>4, UnlockAssumption DEF Chest, Slots
<1>7. chests[Starter].state = "locked" /\ chests[Starter].slot = 0 /\ chests[Starter].reward = r
  BY <1>5
<1> HIDE DEF c
<1>8. Awarded = {Starter}
  BY <1>1, <1>5, <1>6, ChestNull DEF Awarded
<1>9. Open = {Starter}
  BY <1>7, <1>8 DEF Open
<1>10. ChestsTypeOK
  <2>1. chests \in [Keys -> Chest \cup {None}]
    BY <1>1, <1>5, <1>6 DEF ChestsInit
  <2>2. owned \subseteq Figures /\ events \subseteq Kinds \X Keys
    BY <1>1 DEF ChestsInit, Kinds
  <2> QED BY <2>1, <2>2 DEF ChestsTypeOK
<1>11. SlotsAreDistinct
  BY <1>7, <1>8, <1>9 DEF SlotsAreDistinct, Slots
<1>12. HistoryIsTrue
  BY <1>1, <1>7, <1>8, <1>9 DEF HistoryIsTrue, ChestsInit
<1>13. RewardsFit
  <2>1. CASE Fresh # {}
    BY <1>3, <1>7, <1>9, <2>1 DEF RewardsFit, Distinct, Fresh
  <2>2. CASE Fresh = {}
    BY <2>2 DEF RewardsFit, AllFreshReserved
  <2> QED BY <2>1, <2>2
<1> QED BY <1>10, <1>11, <1>12, <1>13 DEF ChestsInv

-----------------------------------------------------------------------------
\* What an award changes.
LEMMA AwardEffect ==
  ASSUME ChestsInv, NEW m \in Matches, AwardMatch(m)
  PROVE  /\ m \in Keys /\ m \notin Awarded
         /\ Awarded' = Awarded \cup {m} /\ Open' = Open \cup {m}
         /\ \A k \in Awarded : chests'[k] = chests[k]
         /\ chests'[m].state = "locked" /\ chests'[m].reward = Reward
         /\ chests'[m].slot = LowestSlot /\ LowestSlot \in FreeSlots
         /\ owned' = owned /\ events' = events \cup {<<"chest_created", m>>}
         /\ ChestsTypeOK'
<1> USE DEF ChestsInv
<1>1. m \in Keys /\ m \notin Awarded /\ FreeSlots # {} /\ CreateChest(m, LowestSlot)
  BY DEF AwardMatch, AlreadyAwarded, Keys
<1>2. LowestSlot \in FreeSlots /\ LowestSlot \in Slots
  BY <1>1, LowestIsFree DEF FreeSlots
<1> DEFINE c == [state |-> "locked", slot |-> LowestSlot, reward |-> Reward, left |-> 0]
<1>3. c \in Chest
  BY <1>2, RewardIsFresh, UnlockAssumption DEF Chest
<1>4. chests' = [chests EXCEPT ![m] = c] /\ owned' = owned
      /\ events' = events \cup {<<"chest_created", m>>}
  BY <1>1 DEF CreateChest
<1>5. c.state = "locked" /\ c.reward = Reward /\ c.slot = LowestSlot
  OBVIOUS
<1> HIDE DEF c
<1>6. chests'[m] = c /\ \A k \in Keys : k # m => chests'[k] = chests[k]
  BY <1>1, <1>4 DEF ChestsTypeOK
<1>7. \A k \in Awarded : chests'[k] = chests[k]
  BY <1>1, <1>6 DEF Awarded
<1>8. Awarded' = Awarded \cup {m}
  BY <1>1, <1>3, <1>6, ChestNull DEF Awarded
<1>9. Open' = Open \cup {m}
  BY <1>1, <1>5, <1>6, <1>7, <1>8 DEF Open
<1>10. ChestsTypeOK'
  <2>1. chests' \in [Keys -> Chest \cup {None}]
    BY <1>3, <1>4 DEF ChestsTypeOK
  <2>2. owned' \subseteq Figures /\ events' \subseteq Kinds \X Keys
    BY <1>1, <1>4 DEF ChestsTypeOK, Kinds
  <2> QED BY <2>1, <2>2 DEF ChestsTypeOK
<1> QED BY <1>1, <1>2, <1>4, <1>5, <1>6, <1>7, <1>8, <1>9, <1>10

\* A chest that is only started, or only waits, keeps its slot and reward.
Kept(k) == /\ chests'[k].slot = chests[k].slot
           /\ chests'[k].reward = chests[k].reward
           /\ chests'[k].state = "claimed" <=> chests[k].state = "claimed"
           /\ chests[k].state # "locked" => chests'[k].state # "locked"

\* What starting a chest changes.
LEMMA StartEffect ==
  ASSUME ChestsInv, NEW k \in Keys, StartChest(k)
  PROVE  /\ k \in Open /\ Awarded' = Awarded /\ \A l \in Awarded : Kept(l)
         /\ chests[k].state = "locked" /\ chests'[k].state = "unlocking"
         /\ \A l \in Awarded : l # k => chests'[l] = chests[l]
         /\ owned' = owned /\ ChestsTypeOK'
         /\ events \subseteq events' /\ events' \subseteq events \cup {<<"chest_unlock_started", k>>}
<1> USE DEF ChestsInv
<1>1. k \in Awarded /\ chests[k].state = "locked" /\ chests[k] \in Chest
  BY ChestFields DEF StartChest
<1> DEFINE c == [state |-> "unlocking", slot |-> chests[k].slot,
                 reward |-> chests[k].reward, left |-> Unlock]
<1>2. c \in Chest
  BY <1>1, UnlockAssumption DEF Chest
<1>3. chests' = [chests EXCEPT ![k] = c]
  BY DEF StartChest
<1>4. c.state = "unlocking" /\ c.slot = chests[k].slot /\ c.reward = chests[k].reward
  OBVIOUS
<1> HIDE DEF c
<1>5. chests'[k] = c /\ \A l \in Keys : l # k => chests'[l] = chests[l]
  BY <1>3 DEF ChestsTypeOK
<1>6. Awarded' = Awarded
  BY <1>1, <1>2, <1>5, ChestNull DEF Awarded
<1>7. \A l \in Awarded : Kept(l)
  BY <1>1, <1>4, <1>5 DEF Kept, Awarded
<1>8. /\ owned' = owned /\ events \subseteq events'
      /\ events' \subseteq events \cup {<<"chest_unlock_started", k>>}
  BY DEF StartChest
<1>9. ChestsTypeOK'
  <2>1. chests' \in [Keys -> Chest \cup {None}]
    BY <1>2, <1>3 DEF ChestsTypeOK
  <2>2. owned' \subseteq Figures /\ events' \subseteq Kinds \X Keys
    BY <1>8 DEF ChestsTypeOK, Kinds
  <2> QED BY <2>1, <2>2 DEF ChestsTypeOK
<1> QED BY <1>1, <1>4, <1>5, <1>6, <1>7, <1>8, <1>9 DEF Open, Awarded

\* What claiming a chest changes.
LEMMA ClaimEffect ==
  ASSUME ChestsInv, NEW k \in Keys, ClaimChest(k)
  PROVE  /\ k \in Open /\ chests[k].state = "unlocking" /\ chests[k].left = 0
         /\ Awarded' = Awarded /\ Open' = Open \ {k}
         /\ \A l \in Awarded : l # k => chests'[l] = chests[l]
         /\ chests'[k].state = "claimed" /\ chests'[k].slot = None
         /\ chests'[k].reward = chests[k].reward
         /\ owned' = owned \cup {chests[k].reward}
         /\ events' = events \cup {<<"chest_claimed", k>>} /\ ChestsTypeOK'
<1> USE DEF ChestsInv
<1>1. /\ k \in Awarded /\ chests[k].state = "unlocking" /\ chests[k].left = 0
      /\ chests[k] \in Chest
  BY ChestFields DEF ClaimChest, Ready
<1> DEFINE c == [state |-> "claimed", slot |-> None,
                 reward |-> chests[k].reward, left |-> 0]
<1>2. c \in Chest
  BY <1>1, UnlockAssumption DEF Chest
<1>3. chests' = [chests EXCEPT ![k] = c]
  BY DEF ClaimChest, Claimed
<1>4. c.state = "claimed" /\ c.slot = None /\ c.reward = chests[k].reward
  OBVIOUS
<1> HIDE DEF c
<1>5. chests'[k] = c /\ \A l \in Keys : l # k => chests'[l] = chests[l]
  BY <1>3 DEF ChestsTypeOK
<1>6. Awarded' = Awarded
  BY <1>1, <1>2, <1>5, ChestNull DEF Awarded
<1>7. Open' = Open \ {k}
  BY <1>4, <1>5, <1>6 DEF Open, Awarded
<1>8. owned' = owned \cup {chests[k].reward} /\ events' = events \cup {<<"chest_claimed", k>>}
  BY DEF ClaimChest
<1>9. ChestsTypeOK'
  <2>1. chests' \in [Keys -> Chest \cup {None}]
    BY <1>2, <1>3 DEF ChestsTypeOK
  <2>2. owned' \subseteq Figures
    BY <1>1, <1>8, ChestFields DEF ChestsTypeOK
  <2>3. events' \subseteq Kinds \X Keys
    BY <1>8 DEF ChestsTypeOK, Kinds
  <2> QED BY <2>1, <2>2, <2>3 DEF ChestsTypeOK
<1> QED BY <1>1, <1>4, <1>5, <1>6, <1>7, <1>8, <1>9 DEF Open, Awarded

\* What a unit of time changes.
LEMMA TickEffect ==
  ASSUME ChestsInv, ChestTick
  PROVE  /\ Awarded' = Awarded /\ \A l \in Awarded : Kept(l)
         /\ \A l \in Awarded : chests'[l].state = chests[l].state
         /\ owned' = owned /\ events' = events /\ ChestsTypeOK'
<1> USE DEF ChestsInv
<1> DEFINE c(k) == [state |-> chests[k].state, slot |-> chests[k].slot,
                    reward |-> chests[k].reward, left |-> chests[k].left - 1]
<1>1. \A k \in Awarded : chests[k].left > 0 =>
         /\ [chests[k] EXCEPT !.left = @ - 1] = c(k) /\ c(k) \in Chest
  <2> SUFFICES ASSUME NEW k \in Awarded, chests[k].left > 0
               PROVE [chests[k] EXCEPT !.left = @ - 1] = c(k) /\ c(k) \in Chest
    OBVIOUS
  <2>1. chests[k] \in Chest
    BY ChestFields
  <2> QED BY <2>1, UnlockAssumption DEF Chest
<1>2. \A k \in Awarded : c(k).state = chests[k].state /\ c(k).slot = chests[k].slot
                         /\ c(k).reward = chests[k].reward
  OBVIOUS
<1> HIDE DEF c
<1>3. \A k \in Keys : chests'[k] = IF k \in Awarded /\ chests[k].left > 0 THEN c(k) ELSE chests[k]
  BY <1>1 DEF ChestTick
<1>4. \A k \in Awarded : Kept(k) /\ chests'[k].state = chests[k].state
  BY <1>2, <1>3 DEF Kept, Awarded
<1>5. \A k \in Keys : chests'[k] \in Chest \cup {None}
  BY <1>1, <1>3 DEF ChestsTypeOK
<1>6. chests' \in [Keys -> Chest \cup {None}]
  BY <1>5 DEF ChestTick
<1>7. \A k \in Keys : chests'[k] # None <=> chests[k] # None
  BY <1>1, <1>3, ChestNull DEF Awarded
<1> QED BY <1>4, <1>6, <1>7 DEF ChestTick, ChestsTypeOK, Awarded

-----------------------------------------------------------------------------
\* If every awarded chest keeps its slot, its reward and whether it is open,
\* and nothing is added to what is owned, slots and rewards stay right.
LEMMA KeptIsFine ==
  ASSUME ChestsInv, Awarded' = Awarded, owned' = owned, \A k \in Awarded : Kept(k)
  PROVE  SlotsAreDistinct' /\ RewardsFit' /\ Open' = Open
<1>1. Open' = Open /\ Open \subseteq Awarded
  BY DEF Open, Kept
<1>2. \A k \in Awarded : chests'[k].slot = chests[k].slot /\ chests'[k].reward = chests[k].reward
  BY DEF Kept
<1>3. SlotsAreDistinct'
  BY <1>1, <1>2 DEF ChestsInv, SlotsAreDistinct
<1>4. Fresh' = Fresh /\ Reserved' = Reserved
  BY <1>1, <1>2 DEF Fresh, Reserved
<1>5. Distinct => Distinct'
  BY <1>1, <1>2 DEF Distinct
<1> QED BY <1>1, <1>3, <1>4, <1>5 DEF ChestsInv, RewardsFit, AllFreshReserved

LEMMA AwardKeeps ==
  ASSUME ChestsInv, NEW m \in Matches, AwardMatch(m)
  PROVE  ChestsInv'
<1>1. /\ m \in Keys /\ m \notin Awarded
      /\ Awarded' = Awarded \cup {m} /\ Open' = Open \cup {m}
      /\ \A k \in Awarded : chests'[k] = chests[k]
      /\ chests'[m].state = "locked" /\ chests'[m].reward = Reward
      /\ chests'[m].slot = LowestSlot /\ LowestSlot \in FreeSlots
      /\ owned' = owned /\ events' = events \cup {<<"chest_created", m>>}
      /\ ChestsTypeOK'
  BY AwardEffect
<1>2. Open \subseteq Awarded /\ m \notin Open
  BY <1>1 DEF Open
<1>3. SlotsAreDistinct'
  <2>1. LowestSlot \in Slots /\ \A k \in Open : chests[k].slot # LowestSlot
    BY <1>1 DEF FreeSlots
  <2>2. \A k \in Open : chests'[k] = chests[k] /\ chests[k].slot \in Slots
    BY <1>1, <1>2 DEF ChestsInv, SlotsAreDistinct
  <2>3. \A k, l \in Open : chests[k].slot = chests[l].slot => k = l
    BY DEF ChestsInv, SlotsAreDistinct
  <2>4. \A k \in Awarded \ Open : chests[k].slot = None
    BY DEF ChestsInv, SlotsAreDistinct
  <2> QED BY <1>1, <1>2, <2>1, <2>2, <2>3, <2>4 DEF SlotsAreDistinct
<1>4. HistoryIsTrue'
  <2>1. \A k \in Awarded' \ Open' : k \in Awarded \ Open /\ chests'[k] = chests[k]
    BY <1>1, <1>2
  <2>2. \A k \in Keys : <<"chest_created", k>> \in events' <=> k \in Awarded'
    BY <1>1 DEF ChestsInv, HistoryIsTrue
  <2>3. \A k \in Keys : <<"chest_claimed", k>> \in events' <=> k \in Awarded' \ Open'
    BY <1>1, <1>2 DEF ChestsInv, HistoryIsTrue
  <2>4. \A k \in Keys : <<"chest_unlock_started", k>> \in events' =>
                          k \in Awarded' /\ chests'[k].state # "locked"
    BY <1>1 DEF ChestsInv, HistoryIsTrue
  <2> QED BY <1>1, <2>1, <2>2, <2>3, <2>4 DEF ChestsInv, HistoryIsTrue
<1>5. RewardsFit'
  <2>1. Fresh' = Fresh
    BY <1>1 DEF Fresh
  <2>2. Reserved' = Reserved \cup {Reward}
    BY <1>1, <1>2 DEF Reserved
  <2>3. CASE AllFreshReserved
    BY <2>1, <2>2, <2>3 DEF RewardsFit, AllFreshReserved
  <2>4. CASE ~AllFreshReserved
    <3>1. Fresh \ Reserved # {} /\ Distinct
      BY <2>4 DEF ChestsInv, RewardsFit, AllFreshReserved
    <3>2. Reward \in Fresh /\ Reward \notin Reserved
      BY <3>1, RewardIsFresh
    <3>3. Reward \notin owned /\ \A k \in Open : chests[k].reward # Reward
      BY <3>2 DEF Fresh, Reserved
    <3>4. Distinct'
      BY <1>1, <1>2, <3>1, <3>3 DEF Distinct
    <3> QED BY <3>4 DEF RewardsFit
  <2> QED BY <2>3, <2>4
<1> QED BY <1>1, <1>3, <1>4, <1>5 DEF ChestsInv

LEMMA StartKeeps ==
  ASSUME ChestsInv, NEW k \in Keys, StartChest(k)
  PROVE  ChestsInv'
<1>1. /\ k \in Open /\ Awarded' = Awarded /\ \A l \in Awarded : Kept(l)
      /\ chests[k].state = "locked" /\ chests'[k].state = "unlocking"
      /\ \A l \in Awarded : l # k => chests'[l] = chests[l]
      /\ owned' = owned /\ ChestsTypeOK'
      /\ events \subseteq events' /\ events' \subseteq events \cup {<<"chest_unlock_started", k>>}
  BY StartEffect
<1>2. SlotsAreDistinct' /\ RewardsFit' /\ Open' = Open
  BY <1>1, KeptIsFine
<1>3. \A l \in Awarded : chests'[l].reward = chests[l].reward
  BY <1>1 DEF Kept
<1>4. \A l \in Keys : /\ <<"chest_created", l>> \in events' <=> <<"chest_created", l>> \in events
                      /\ <<"chest_claimed", l>> \in events' <=> <<"chest_claimed", l>> \in events
                      /\ <<"chest_unlock_started", l>> \in events' =>
                           l = k \/ <<"chest_unlock_started", l>> \in events
  BY <1>1
<1>5. \A l \in Keys : <<"chest_unlock_started", l>> \in events' =>
                        l \in Awarded /\ chests'[l].state # "locked"
  BY <1>1, <1>4 DEF ChestsInv, HistoryIsTrue, Open
<1>6. HistoryIsTrue'
  BY <1>1, <1>2, <1>3, <1>4, <1>5 DEF ChestsInv, HistoryIsTrue
<1> QED BY <1>1, <1>2, <1>6 DEF ChestsInv

LEMMA ClaimKeeps ==
  ASSUME ChestsInv, NEW k \in Keys, ClaimChest(k)
  PROVE  ChestsInv'
<1>1. /\ k \in Open /\ chests[k].state = "unlocking" /\ chests[k].left = 0
      /\ Awarded' = Awarded /\ Open' = Open \ {k}
      /\ \A l \in Awarded : l # k => chests'[l] = chests[l]
      /\ chests'[k].state = "claimed" /\ chests'[k].slot = None
      /\ chests'[k].reward = chests[k].reward
      /\ owned' = owned \cup {chests[k].reward}
      /\ events' = events \cup {<<"chest_claimed", k>>} /\ ChestsTypeOK'
  BY ClaimEffect
<1>2. Open \subseteq Awarded /\ \A l \in Open' : l \in Open /\ l # k /\ chests'[l] = chests[l]
  BY <1>1 DEF Open
<1>3. SlotsAreDistinct'
  <2>0. Open' = Open \ {k} /\ \A l \in Awarded : l # k => chests'[l] = chests[l]
    BY <1>1
  <2>1. \A l \in Awarded \ Open' : l = k \/ (l \in Awarded \ Open /\ chests'[l] = chests[l])
    BY <2>0
  <2>2. \A l \in Open' : chests'[l].slot \in Slots
    BY <1>2 DEF ChestsInv, SlotsAreDistinct
  <2>3. \A l, o \in Open' : chests'[l].slot = chests'[o].slot => l = o
    BY <1>2 DEF ChestsInv, SlotsAreDistinct
  <2>4. \A l \in Awarded' \ Open' : chests'[l].slot = None
    BY <1>1, <2>1 DEF ChestsInv, SlotsAreDistinct
  <2> QED BY <2>2, <2>3, <2>4 DEF SlotsAreDistinct
<1>4. HistoryIsTrue'
  <2>1. \A l \in Awarded' \ Open' : chests'[l].reward \in owned'
    BY <1>1 DEF ChestsInv, HistoryIsTrue
  <2>2. \A l \in Keys : /\ <<"chest_created", l>> \in events' <=> l \in Awarded'
                        /\ <<"chest_claimed", l>> \in events' <=> l \in Awarded' \ Open'
    BY <1>1, <1>2 DEF ChestsInv, HistoryIsTrue
  <2>3. \A l \in Keys : <<"chest_unlock_started", l>> \in events' =>
                          l \in Awarded' /\ chests'[l].state # "locked"
    BY <1>1 DEF ChestsInv, HistoryIsTrue
  <2> QED BY <2>1, <2>2, <2>3 DEF HistoryIsTrue
<1>5. RewardsFit'
  <2>1. CASE Distinct
    <3>1. \A l \in Open' : chests'[l].reward \notin owned'
      BY <1>1, <1>2, <2>1 DEF Distinct
    <3> QED BY <1>2, <2>1, <3>1 DEF Distinct, RewardsFit
  <2>2. CASE AllFreshReserved
    <3> SUFFICES ASSUME NEW f \in Fresh' PROVE f \in Reserved'
      BY DEF RewardsFit, AllFreshReserved
    <3>1. f \in Fresh /\ f # chests[k].reward
      BY <1>1 DEF Fresh
    <3>2. PICK l \in Open : f = chests[l].reward
      BY <2>2, <3>1 DEF AllFreshReserved, Reserved
    <3>3. l \in Open' /\ chests'[l].reward = f
      BY <1>1, <1>2, <3>1, <3>2
    <3> QED BY <3>3 DEF Reserved
  <2> QED BY <2>1, <2>2 DEF ChestsInv, RewardsFit
<1> QED BY <1>1, <1>3, <1>4, <1>5 DEF ChestsInv

LEMMA ChestTickKeeps ==
  ASSUME ChestsInv, ChestTick
  PROVE  ChestsInv'
<1>1. /\ Awarded' = Awarded /\ \A l \in Awarded : Kept(l)
      /\ \A l \in Awarded : chests'[l].state = chests[l].state
      /\ owned' = owned /\ events' = events /\ ChestsTypeOK'
  BY TickEffect
<1>2. SlotsAreDistinct' /\ RewardsFit' /\ Open' = Open
  BY <1>1, KeptIsFine
<1>3. \A l \in Awarded : chests'[l].reward = chests[l].reward
  BY <1>1 DEF Kept
<1>4. HistoryIsTrue'
  BY <1>1, <1>2, <1>3 DEF ChestsInv, HistoryIsTrue
<1> QED BY <1>1, <1>2, <1>4 DEF ChestsInv

LEMMA ChestsStepKeeps == ChestsInv /\ [ChestsNext]_chestsVars => ChestsInv'
<1> SUFFICES ASSUME ChestsInv, [ChestsNext]_chestsVars PROVE ChestsInv'
  OBVIOUS
<1>1. ASSUME NEW m \in Matches, AwardMatch(m) PROVE ChestsInv'
  BY <1>1, AwardKeeps
<1>2. ASSUME NEW k \in Keys, StartChest(k) PROVE ChestsInv'
  BY <1>2, StartKeeps
<1>3. ASSUME NEW k \in Keys, ClaimChest(k) PROVE ChestsInv'
  BY <1>3, ClaimKeeps
<1>4. CASE ChestTick
  BY <1>4, ChestTickKeeps
<1>5. CASE UNCHANGED chestsVars
  <2>1. chests' = chests /\ owned' = owned /\ events' = events
    BY <1>5 DEF chestsVars
  <2>2. Awarded' = Awarded /\ Open' = Open /\ Reserved' = Reserved /\ Fresh' = Fresh
    BY <2>1 DEF Awarded, Open, Reserved, Fresh
  <2>3. ChestsTypeOK' /\ SlotsAreDistinct' /\ HistoryIsTrue'
    BY <2>1, <2>2 DEF ChestsInv, ChestsTypeOK, SlotsAreDistinct, HistoryIsTrue
  <2>4. RewardsFit'
    BY <2>1, <2>2 DEF ChestsInv, RewardsFit, Distinct, AllFreshReserved
  <2> QED BY <2>3, <2>4 DEF ChestsInv
<1> QED BY <1>1, <1>2, <1>3, <1>4, <1>5 DEF ChestsNext

\* The invariant holds in every reachable state.
THEOREM ChestsInvariance == ChestsSpec => []ChestsInv
<1> QED BY ChestsInitHolds, ChestsStepKeeps, PTL DEF ChestsSpec

\* Type correctness of chests, inventory and history.
THEOREM ChestsTypeCorrect == ChestsSpec => []ChestsTypeOK
<1>1. ChestsInv => ChestsTypeOK
  BY DEF ChestsInv
<1> QED BY <1>1, ChestsInvariance, PTL

\* Open chests stand in different slots: no award and no claim ever fails on
\* the unique index of (user, slot).
THEOREM SlotsStayDistinct == ChestsSpec => []SlotsAreDistinct
<1>1. ChestsInv => SlotsAreDistinct
  BY DEF ChestsInv
<1> QED BY <1>1, ChestsInvariance, PTL

\* Claimed chests have paid, and the history of creations and claims is exact.
THEOREM HistoryStaysTrue == ChestsSpec => []HistoryIsTrue
<1>1. ChestsInv => HistoryIsTrue
  BY DEF ChestsInv
<1> QED BY <1>1, ChestsInvariance, PTL

\* If the open chests hold every reward the account lacks, and there are no
\* more chests than such rewards, then each holds a different one of them.
LEMMA Pigeonhole ==
  ASSUME ChestsInv, Cardinality(Fresh) >= Cardinality(Open), AllFreshReserved
  PROVE  Distinct
<1>1. IsFiniteSet(Open)
  <2>1. IsFiniteSet(Keys)
    BY FiniteAssumption, FS_AddElement DEF Keys
  <2>2. Open \in SUBSET Keys
    BY DEF Open, Awarded
  <2> QED BY <2>1, <2>2, FS_Subset
<1> DEFINE f == [k \in Open |-> chests[k].reward]
<1>2. f \in Surjection(Open, Reserved)
  BY DEF Surjection, Reserved
<1>3. /\ IsFiniteSet(Reserved) /\ Cardinality(Reserved) <= Cardinality(Open)
      /\ Cardinality(Reserved) = Cardinality(Open) <=> f \in Injection(Open, Reserved)
  BY <1>1, <1>2, FS_Surjection
<1>4. /\ IsFiniteSet(Fresh) /\ Cardinality(Fresh) <= Cardinality(Reserved)
      /\ Cardinality(Reserved) = Cardinality(Fresh) => Reserved = Fresh
  BY <1>3, FS_Subset DEF AllFreshReserved
<1>5. Cardinality(Open) \in Nat /\ Cardinality(Reserved) \in Nat /\ Cardinality(Fresh) \in Nat
  BY <1>1, <1>3, <1>4, FS_CardinalityType
<1>6. Reserved = Fresh /\ f \in Injection(Open, Reserved)
  BY <1>3, <1>4, <1>5
<1>7. \A k \in Open : chests[k].reward \notin owned
  BY <1>6 DEF Reserved, Fresh
<1>8. \A k, l \in Open : chests[k].reward = chests[l].reward => k = l
  BY <1>6 DEF Injection, IsInjective
<1> QED BY <1>7, <1>8 DEF Distinct

\* While the account lacks at least as many rewards as it has open chests,
\* every open chest will pay a figure of its own.
THEOREM ChestsPay == ChestsSpec => []EveryChestPays
<1>1. ChestsInv => EveryChestPays
  <2> SUFFICES ASSUME ChestsInv, Cardinality(Fresh) >= Cardinality(Open) PROVE Distinct
    BY DEF EveryChestPays, Distinct
  <2> QED BY Pigeonhole DEF ChestsInv, RewardsFit
<1> QED BY <1>1, ChestsInvariance, PTL

\* A chest goes only forward and pays what it promised when it was awarded.
THEOREM ChestsNeverGoBack == ChestsSpec => ChestsGoForward
<1> DEFINE Step(k) ==
             /\ chests'[k] # None /\ chests'[k].reward = chests[k].reward
             /\ \/ chests'[k].state = chests[k].state
                \/ <<chests[k].state, chests'[k].state>> \in Forward
             /\ chests'[k].state = "claimed" /\ k \in Open => chests[k].left = 0
<1>1. ChestsInv /\ [ChestsNext]_chestsVars => [\A k \in Awarded : Step(k)]_chestsVars
  <2> SUFFICES ASSUME ChestsInv, ChestsNext, NEW k \in Awarded PROVE Step(k)
    OBVIOUS
  <2>1. ASSUME NEW m \in Matches, AwardMatch(m) PROVE Step(k)
    <3>1. chests'[k] = chests[k] /\ k \in Awarded'
      BY <2>1, AwardEffect
    <3> QED BY <3>1 DEF Awarded, Open
  <2>2. ASSUME NEW l \in Keys, StartChest(l) PROVE Step(k)
    <3>1. /\ k \in Awarded' /\ Kept(k)
          /\ chests[l].state = "locked" /\ chests'[l].state = "unlocking"
          /\ k # l => chests'[k] = chests[k]
      BY <2>2, StartEffect
    <3>2. k = l \/ chests'[k].state = chests[k].state
      BY <3>1
    <3> QED BY <3>1, <3>2 DEF Awarded, Open, Kept, Forward
  <2>3. ASSUME NEW l \in Keys, ClaimChest(l) PROVE Step(k)
    <3>1. /\ k \in Awarded' /\ chests[l].state = "unlocking" /\ chests[l].left = 0
          /\ chests'[l].state = "claimed" /\ chests'[l].reward = chests[l].reward
          /\ k # l => chests'[k] = chests[k]
      BY <2>3, ClaimEffect
    <3>2. CASE k = l
      BY <3>1, <3>2 DEF Awarded, Forward
    <3>3. CASE k # l
      BY <3>1, <3>3 DEF Awarded, Open
    <3> QED BY <3>2, <3>3
  <2>4. CASE ChestTick
    <3>1. k \in Awarded' /\ Kept(k) /\ chests'[k].state = chests[k].state
      BY <2>4, TickEffect
    <3> QED BY <3>1 DEF Awarded, Open, Kept
  <2> QED BY <2>1, <2>2, <2>3, <2>4 DEF ChestsNext
<1>2. ChestsSpec => [][\A k \in Awarded : Step(k)]_chestsVars
  BY <1>1, ChestsInvariance, PTL DEF ChestsSpec
<1> QED BY <1>2 DEF ChestsGoForward

-----------------------------------------------------------------------------
(***************************************************************************)
(* The decks.  Numbering is the part that is not inductive as it stands:   *)
(* NumbersHaveNoGap speaks of the greatest number, chosen from the rows    *)
(* present.  UpTo names the number up to which there are decks, and LastIs *)
(* and CountIs show that it is what both MAX(deck_no) and the count of     *)
(* rows give, which is why expandDecks may use the one for the other.      *)
(***************************************************************************)
DecksTypeOK == /\ decks \in [1..(MaxDecks + 1) -> Deck \cup {None}]
               /\ owned \subseteq Figures
               /\ up \in BOOLEAN

\* The decks are those with the numbers 1 to n.
UpTo(n) == \A k \in 1..(MaxDecks + 1) : decks[k] # None <=> k <= n

\* What updateDeck checks, or the account started with.
Legal(deck) ==
  /\ IsInjective(deck.figures) /\ Range(deck.figures) \subseteq owned
  /\ \A p \in Plates : Count(deck.plates, p) <= Quantity(p)
  /\ TotalCost(deck.plates) <= MaxCost \/ deck.plates = StarterPlates

DecksInv == /\ DecksTypeOK
        /\ \E n \in Numbers : UpTo(n) /\ (up => InitialDecks <= n)
        /\ \A k \in Present : Legal(decks[k])

-----------------------------------------------------------------------------
\* The limits are naturals, and there is at least one initial deck.
LEMMA Limits == /\ MaxDecks \in Nat /\ InitialDecks \in Nat
                /\ 1 <= InitialDecks /\ InitialDecks <= MaxDecks
                /\ 1 <= MaxDecks
BY DeckLimitAssumption

\* The lists an account starts with are a deck.
LEMMA StarterIsDeck == StarterDeck \in Deck
BY StarterAssumption DEF StarterDeck, Deck

\* A list has a natural number of places with a given entry.
LEMMA CountIsNat ==
  ASSUME NEW S, NEW N \in Nat, NEW list \in Lists(S, N), NEW x
  PROVE  Count(list, x) \in Nat
<1>1. PICK k \in 0..N : list \in [1..k -> S]
  BY DEF Lists
<1>2. IsFiniteSet(1..k)
  BY FS_Interval
<1>3. {i \in DOMAIN list : list[i] = x} \in SUBSET (1..k)
  BY <1>1
<1> QED BY <1>2, <1>3, FS_Subset, FS_CardinalityType DEF Count

\* No plates cost nothing.
LEMMA EmptyCostsNothing == TotalCost(<< >>) = 0
<1> DEFINE fun == [i \in DOMAIN << >> |-> Cost[<< >>[i]]]
           Iterates(g) == g = [s \in SUBSET (DOMAIN fun) |->
              IF s = {} THEN 0
              ELSE LET x == CHOOSE x \in s : TRUE IN fun[x] + g[s \ {x}]]
<1>1. DOMAIN fun = {}
  OBVIOUS
<1>2. Iterates([s \in SUBSET {} |-> 0])
  BY <1>1
<1>3. Iterates(CHOOSE g : Iterates(g))
  BY <1>2, Zenon
<1>4. (CHOOSE g : Iterates(g))[DOMAIN fun] = 0
  BY <1>1, <1>3
<1> QED BY <1>4, Zenon DEF TotalCost, FoldFunction, FoldFunctionOnSet, MapThenFoldSet

\* MAX(deck_no) is the number up to which there are decks.
LEMMA LastIs ==
  ASSUME DecksTypeOK, NEW n \in Numbers, UpTo(n)
  PROVE  Present = 1..n /\ Last = n
<1>1. n \in Nat /\ 1 <= n /\ n <= MaxDecks /\ MaxDecks \in Nat
  BY Limits DEF Numbers
<1>2. Present = 1..n
  BY <1>1 DEF Present, DecksTypeOK, UpTo
<1> DEFINE Greatest(m) == m \in Present /\ \A k \in Present : k <= m
<1>3. Last = CHOOSE m : Greatest(m)
  BY Zenon DEF Last
<1>4. Greatest(n) /\ \A m : Greatest(m) => m = n
  BY <1>1, <1>2
<1>5. Greatest(CHOOSE m : Greatest(m))
  BY <1>4, Zenon
<1> HIDE DEF Greatest
<1> QED BY <1>2, <1>3, <1>4, <1>5

\* So is the count of the rows.
LEMMA CountIs ==
  ASSUME DecksTypeOK, NEW n \in Numbers, UpTo(n)
  PROVE  Cardinality(Present) = n
<1>1. n \in Nat /\ 1 <= n
  BY Limits DEF Numbers
<1>2. Cardinality(1..n) = n
  BY <1>1, FS_Interval
<1> QED BY <1>2, LastIs

-----------------------------------------------------------------------------
LEMMA InitIsLegal == DecksInit => DecksInv
<1> SUFFICES ASSUME DecksInit PROVE DecksInv
  OBVIOUS
<1>1. PICK n \in Numbers :
        decks = [k \in 1..(MaxDecks + 1) |-> IF k <= n THEN StarterDeck ELSE None]
  BY DEF DecksInit
<1>2. owned = Range(StarterFigures) /\ up = FALSE
  BY DEF DecksInit
<1>3. DecksTypeOK
  <2>1. owned \subseteq Figures
    BY <1>2, StarterAssumption DEF Lists, Range
  <2> QED BY <1>1, <1>2, <2>1, StarterIsDeck DEF DecksTypeOK
<1>4. UpTo(n)
  BY <1>1, StarterIsDeck, NoDeckAssumption DEF UpTo
<1>5. Legal(StarterDeck)
  <2>1. \A p \in Plates : Count(StarterPlates, p) \in Nat
    BY StarterAssumption, DeckLimitAssumption, CountIsNat
  <2> QED BY <1>2, <2>1, StarterAssumption DEF Legal, StarterDeck, Quantity
<1>6. \A k \in Present : decks[k] = StarterDeck
  BY <1>1 DEF Present
<1> QED BY <1>2, <1>3, <1>4, <1>5, <1>6 DEF DecksInv

LEMMA EnsureInitialDecksIsLegal == ASSUME DecksInv, EnsureInitialDecks PROVE DecksInv'
<1>1. PICK n \in Numbers : UpTo(n)
  BY DEF DecksInv
<1>2. /\ up' = TRUE /\ owned' = owned
      /\ decks' = [k \in 1..(MaxDecks + 1) |->
                     IF k <= InitialDecks /\ decks[k] = None THEN decks[1] ELSE decks[k]]
  BY DEF EnsureInitialDecks, DecksInv, DecksTypeOK
<1>3. n \in Nat /\ 1 <= n /\ n <= MaxDecks /\ MaxDecks \in Nat
      /\ InitialDecks \in Nat /\ InitialDecks <= MaxDecks
  BY Limits DEF Numbers
<1>4. decks[1] \in Deck /\ 1 \in Present
  BY <1>1, <1>3 DEF UpTo, DecksInv, DecksTypeOK, Present
<1>5. DecksTypeOK'
  BY <1>2, <1>4 DEF DecksInv, DecksTypeOK
<1> DEFINE m == IF InitialDecks <= n THEN n ELSE InitialDecks
<1>6. m \in Numbers /\ InitialDecks <= m
  BY <1>3 DEF Numbers
<1>7. UpTo(m)'
  BY <1>1, <1>2, <1>3, <1>4, NoDeckAssumption DEF UpTo
<1>8. \A k \in Present' : decks'[k] \in {decks[l] : l \in Present}
  BY <1>2, <1>4 DEF Present, DecksInv, DecksTypeOK
<1>9. \A k \in Present' : Legal(decks[k])'
  BY <1>2, <1>8 DEF DecksInv, Legal, Quantity
<1> HIDE DEF m
<1> QED BY <1>5, <1>6, <1>7, <1>9 DEF DecksInv

LEMMA UpdateDeckIsLegal ==
  ASSUME DecksInv, NEW n \in Numbers, NEW figures \in Lists(Figures, MaxFigures),
         NEW plates \in Lists(Plates, MaxPlates), UpdateDeck(n, figures, plates)
  PROVE  DecksInv'
<1> DEFINE new == [figures |-> figures, plates |-> plates]
<1>1. /\ up' = up /\ owned' = owned /\ decks[n] # None
      /\ decks' = [decks EXCEPT ![n] = new]
  BY DEF UpdateDeck
<1>2. n \in 1..(MaxDecks + 1) /\ new \in Deck
  BY Limits DEF Numbers, Deck
<1>3. DecksTypeOK'
  BY <1>1, <1>2 DEF DecksInv, DecksTypeOK
<1>4. Present' = Present /\ n \in Present
  BY <1>1, <1>2, NoDeckAssumption DEF Present, DecksInv, DecksTypeOK
<1>5. \A m : UpTo(m) => UpTo(m)'
  BY <1>1, <1>2, NoDeckAssumption DEF UpTo, DecksInv, DecksTypeOK
<1>6. Legal(new)'
  <2>1. Unchanged(n, plates) => TotalCost(plates) <= MaxCost \/ plates = StarterPlates
    BY <1>4 DEF Unchanged, DecksInv, Legal
  <2> QED BY <1>1, <2>1 DEF UpdateDeck, OwnedPlates, Legal, Quantity
<1>7. \A k \in Present' : Legal(decks[k])'
  <2> SUFFICES ASSUME NEW k \in Present' PROVE Legal(decks[k])'
    OBVIOUS
  <2>1. CASE k = n
    <3>1. decks'[k] = new
      BY <1>1, <1>2, <2>1 DEF DecksInv, DecksTypeOK
    <3> QED BY <1>6, <3>1 DEF Legal
  <2>2. CASE k # n
    <3>1. decks'[k] = decks[k] /\ Legal(decks[k])
      BY <1>1, <1>4, <2>2 DEF DecksInv, DecksTypeOK, Present
    <3> QED BY <1>1, <3>1 DEF Legal, Quantity
  <2> QED BY <2>1, <2>2
<1> QED BY <1>1, <1>3, <1>5, <1>7 DEF DecksInv

LEMMA ExpandDecksIsLegal == ASSUME DecksInv, ExpandDecks PROVE DecksInv'
<1> DEFINE new == [figures |-> << >>, plates |-> << >>]
<1>1. PICK n \in Numbers : UpTo(n) /\ (up => InitialDecks <= n)
  BY DEF DecksInv
<1>2. n \in Nat /\ 1 <= n /\ n < MaxDecks /\ MaxDecks \in Nat /\ Last = n
  BY <1>1, LastIs, CountIs, Limits DEF DecksInv, Numbers, ExpandDecks, RoomForDeck
<1>3. decks' = [decks EXCEPT ![n + 1] = new] /\ owned' = owned /\ up' = up
  BY <1>2 DEF ExpandDecks
<1>4. new \in Deck
  <2>1. \A S : << >> \in [1..0 -> S]
    OBVIOUS
  <2>2. \A S : \A m \in Nat : << >> \in Lists(S, m)
    BY <2>1 DEF Lists
  <2> QED BY <2>2, DeckLimitAssumption DEF Deck
<1>5. DecksTypeOK'
  BY <1>2, <1>3, <1>4 DEF DecksInv, DecksTypeOK
<1>6. n + 1 \in Numbers /\ UpTo(n + 1)'
  BY <1>1, <1>2, <1>3, <1>4, NoDeckAssumption DEF UpTo, Numbers, DecksInv, DecksTypeOK
<1>7. up' => InitialDecks <= n + 1
  BY <1>1, <1>2, <1>3, Limits
<1>8. Legal(new)'
  <2>1. Range(<< >>) = {} /\ IsInjective(<< >>)
    BY DEF Range, IsInjective
  <2>2. \A p \in Plates : Count(<< >>, p) = 0
    BY FS_EmptySet DEF Count
  <2>3. \A p \in Plates : Quantity(p) \in Nat
    BY StarterAssumption, DeckLimitAssumption, CountIsNat DEF Quantity
  <2>4. TotalCost(<< >>) <= MaxCost
    BY EmptyCostsNothing, DeckLimitAssumption
  <2>5. (\A p \in Plates : Quantity(p)' = Quantity(p)) /\ new.figures = << >> /\ new.plates = << >>
    BY DEF Quantity
  <2> HIDE DEF new
  <2> QED BY <2>1, <2>2, <2>3, <2>4, <2>5 DEF Legal
<1>9. \A k \in Present' : Legal(decks[k])'
  <2> SUFFICES ASSUME NEW k \in Present' PROVE Legal(decks[k])'
    OBVIOUS
  <2>1. CASE k = n + 1
    <3>1. decks'[k] = new
      BY <1>2, <1>3, <2>1 DEF DecksInv, DecksTypeOK
    <3> QED BY <1>8, <3>1 DEF Legal
  <2>2. CASE k # n + 1
    <3>1. k \in Present /\ decks'[k] = decks[k]
      BY <1>3, <2>2 DEF DecksInv, DecksTypeOK, Present
    <3>2. Legal(decks[k])
      BY <3>1 DEF DecksInv
    <3> QED BY <1>3, <3>1, <3>2 DEF Legal, Quantity
  <2> QED BY <2>1, <2>2
<1> QED BY <1>5, <1>6, <1>7, <1>9 DEF DecksInv

\* What leaves the decks, and lets the figures owned only grow, keeps them legal.
LEMMA StandingDecksAreLegal ==
  ASSUME DecksInv, decks' = decks, owned \subseteq owned', owned' \subseteq Figures,
         up' \in BOOLEAN, up' => up
  PROVE  DecksInv'
<1>1. DecksTypeOK'
  BY DEF DecksInv, DecksTypeOK
<1>2. \E n \in Numbers : UpTo(n)' /\ (up' => InitialDecks <= n)
  BY DEF DecksInv, UpTo
<1>3. \A k \in Present' : Legal(decks[k])'
  BY DEF DecksInv, Present, Legal, Quantity
<1> QED BY <1>1, <1>2, <1>3 DEF DecksInv

LEMMA NextIsLegal == DecksInv /\ [DecksNext]_<<decksVars, owned>> => DecksInv'
<1> SUFFICES ASSUME DecksInv, [DecksNext]_<<decksVars, owned>> PROVE DecksInv'
  OBVIOUS
<1>1. CASE EnsureInitialDecks
  BY <1>1, EnsureInitialDecksIsLegal
<1>2. CASE StopServer
  BY <1>2, StandingDecksAreLegal DEF StopServer, DecksInv, DecksTypeOK
<1>3. CASE ExpandDecks
  BY <1>3, ExpandDecksIsLegal
<1>4. CASE \E n \in Numbers, figures \in Lists(Figures, MaxFigures),
              plates \in Lists(Plates, MaxPlates) : UpdateDeck(n, figures, plates)
  BY <1>4, UpdateDeckIsLegal
<1>5. CASE \E f \in Figures : AcquireFigure(f)
  BY <1>5, StandingDecksAreLegal DEF AcquireFigure, DecksInv, DecksTypeOK
<1>6. CASE UNCHANGED <<decksVars, owned>>
  BY <1>6, StandingDecksAreLegal DEF decksVars, DecksInv, DecksTypeOK
<1> QED BY <1>1, <1>2, <1>3, <1>4, <1>5, <1>6 DEF DecksNext

\* The strengthened invariant holds for every catalogue, cost and limit.
THEOREM DecksInvariance == DecksSpec => []DecksInv
BY InitIsLegal, NextIsLegal, PTL DEF DecksSpec

\* updateDeck, expandDecks and #ensureInitialDecks, in whatever order a server
\* starts and stops between them, leave only decks of figures and plates the
\* account owns, within the cost limit or the very plates it started with, and
\* numbered without a gap up to a number that is neither below the initial
\* count while the server runs nor above the greatest one.
THEOREM DecksStayLegal == DecksSpec => []DecksAreLegal
<1>1. DecksInv => DecksAreLegal
  <2> SUFFICES ASSUME DecksInv PROVE DecksAreLegal
    OBVIOUS
  <2>1. PICK n \in Numbers : UpTo(n) /\ (up => InitialDecks <= n)
    BY DEF DecksInv
  <2>2. Present = 1..n /\ Last = n /\ n \in Nat /\ n <= MaxDecks
    BY <2>1, LastIs, Limits DEF DecksInv, Numbers
  <2>3. NumbersHaveNoGap
    BY <2>1, <2>2, Limits DEF NumbersHaveNoGap
  <2> QED BY <2>3 DEF DecksAreLegal, DecksInv, Legal
<1> QED BY <1>1, DecksInvariance, PTL

-----------------------------------------------------------------------------
\* Installations, codes and bearers.
Typed(ls, rs, ss) == /\ ls \in [Devices -> Link \cup {Null}]
                     /\ rs \subseteq LinkRow /\ ss \subseteq SessionRow
OwnersHold(ls, ss) == \A s \in ss : ls[s.device] # Null /\ ls[s.device].owner = s.user
CodesWait(ls, rs) == \A r \in rs : r.device \in Pending(ls)
\* An unexpired request of a pending installation has a code to show for it.
LinksHaveCodes(ls, rs) ==
  \A d \in Pending(ls) : ls[d].left > 0 => \E r \in Of(rs, d) : r.left = ls[d].left
Fine(ls, rs, ss) == /\ Typed(ls, rs, ss) /\ OwnersHold(ls, ss)
                    /\ CodesWait(ls, rs) /\ LinksHaveCodes(ls, rs)

IInv == /\ Fine(links, requests, sessions)
        /\ quiet \in 0..CleanupEvery /\ reply \in Answers \cup {Null}

-----------------------------------------------------------------------------
\* The fields of rows, and what ageing makes of them.
LEMMA LinkFields ==
  /\ \A x \in Link : x.owner \in Users \cup {Null} /\ x.left \in 0..LinkLife /\ x # Null
  /\ \A o \in Users \cup {Null}, n \in 0..LinkLife :
       LET x == [owner |-> o, left |-> n] IN x \in Link /\ x.owner = o /\ x.left = n /\ x # Null
BY NullAssumption DEF Link

LEMMA AgedLink ==
  \A x \in Link : LET y == [x EXCEPT !.left = Sooner(@)] IN
    y \in Link /\ y.owner = x.owner /\ y.left = Sooner(x.left) /\ y # Null
BY NullAssumption, LimitAssumption DEF Link, Sooner

LEMMA AgedRow ==
  \A x \in LinkRow : LET y == [x EXCEPT !.left = Sooner(x.left)] IN
    /\ y \in LinkRow /\ y.device = x.device /\ y.n = x.n
    /\ y.reusable = x.reusable /\ y.left = Sooner(x.left)
BY LimitAssumption DEF LinkRow, Sooner

LEMMA AgedSession ==
  \A x \in SessionRow : LET y == [x EXCEPT !.left = Sooner(x.left)] IN
    /\ y \in SessionRow /\ y.device = x.device /\ y.user = x.user
    /\ y.reusable = x.reusable /\ y.left = Sooner(x.left)
BY LimitAssumption DEF SessionRow, Sooner

LEMMA RowFields ==
  /\ \A x \in LinkRow : /\ x.device \in Devices /\ x.n \in CodeNumbers
                        /\ x.left \in 0..LinkLife /\ x.reusable \in BOOLEAN
  /\ \A x \in SessionRow : /\ x.device \in Devices /\ x.user \in Users
                           /\ x.left \in 0..SessionLife /\ x.reusable \in BOOLEAN
BY DEF LinkRow, SessionRow

\* A clean-up keeps tables fine, and leaves no expired code and no pending
\* installation without a live one.
LEMMA CleanIsFine ==
  ASSUME Fine(links, requests, sessions)
  PROVE  /\ Fine(CleanLinks, Alive(requests), Alive(sessions))
         /\ \A d \in Pending(CleanLinks) : Of(Alive(requests), d) # {}
<1> DEFINE ls == CleanLinks
           rs == Alive(requests)
           ss == Alive(sessions)
<1>1. /\ links \in [Devices -> Link \cup {Null}]
      /\ requests \subseteq LinkRow /\ sessions \subseteq SessionRow
  BY DEF Fine, Typed
<1>2. \A d \in Devices : d \in Reclaimed => ls[d] = Null
  BY DEF CleanLinks
<1>3. \A d \in Devices : d \notin Reclaimed => ls[d] = links[d]
  BY DEF CleanLinks
<1>4. rs \subseteq requests /\ ss \subseteq sessions
  BY DEF Alive
<1>5. Typed(ls, rs, ss)
  BY <1>1, <1>4 DEF Typed, CleanLinks
<1>6. OwnersHold(ls, ss)
  <2> SUFFICES ASSUME NEW s \in ss PROVE ls[s.device] # Null /\ ls[s.device].owner = s.user
    BY DEF OwnersHold
  <2>1. s \in sessions /\ s.device \in Devices /\ s.user \in Users
    BY <1>1, <1>4, RowFields
  <2>2. links[s.device] # Null /\ links[s.device].owner = s.user
    BY <2>1 DEF Fine, OwnersHold
  <2>3. s.device \notin Reclaimed
    BY <2>1, <2>2, NullAssumption DEF Reclaimed, Pending
  <2> QED BY <1>3, <2>1, <2>2, <2>3
<1>7. CodesWait(ls, rs)
  <2> SUFFICES ASSUME NEW r \in rs PROVE r.device \in Pending(ls)
    BY DEF CodesWait
  <2>1. r \in requests /\ r.device \in Devices /\ r.device \in Pending(links)
    BY <1>1, <1>4, RowFields DEF Fine, CodesWait
  <2>2. r \in Of(rs, r.device)
    BY DEF Of
  <2>3. r.device \notin Reclaimed
    BY <2>2 DEF Reclaimed
  <2> QED BY <1>3, <2>1, <2>3 DEF Pending
<1>8. \A d \in Pending(ls) : d \in Devices /\ d \notin Reclaimed /\ d \in Pending(links) /\ ls[d] = links[d]
  BY <1>2, <1>3 DEF Pending
<1>9. LinksHaveCodes(ls, rs)
  <2> SUFFICES ASSUME NEW d \in Pending(ls), ls[d].left > 0
               PROVE  \E r \in Of(rs, d) : r.left = ls[d].left
    BY DEF LinksHaveCodes
  <2>1. PICK r \in Of(requests, d) : r.left = links[d].left
    BY <1>8 DEF Fine, LinksHaveCodes
  <2>2. r \in Of(rs, d)
    BY <1>8, <2>1 DEF Of, Alive
  <2> QED BY <1>8, <2>1, <2>2
<1>10. ASSUME NEW d \in Pending(ls) PROVE Of(rs, d) # {}
  <2>1. d \in Pending(links) /\ d \notin Reclaimed /\ links[d] \in Link
    BY <1>1, <1>8 DEF Pending
  <2>2. CASE links[d].left = 0
    BY <2>1, <2>2 DEF Reclaimed
  <2>3. CASE links[d].left # 0
    BY <1>8, <1>9, <2>1, <2>3, LinkFields DEF LinksHaveCodes
  <2> QED BY <2>2, <2>3
<1> QED BY <1>5, <1>6, <1>7, <1>9, <1>10 DEF Fine

\* The passing of time keeps tables fine.
LEMMA AgeIsFine ==
  ASSUME NEW ls, NEW rs, NEW ss, Fine(ls, rs, ss)
  PROVE  Fine(AgedLinks(ls), Aged(rs), Aged(ss))
<1> DEFINE lt == AgedLinks(ls)
<1>1. /\ ls \in [Devices -> Link \cup {Null}]
      /\ rs \subseteq LinkRow /\ ss \subseteq SessionRow
  BY DEF Fine, Typed
<1>2. \A d \in Devices : /\ ls[d] = Null <=> lt[d] = Null
                         /\ lt[d] \in Link \cup {Null}
                         /\ ls[d] # Null => /\ lt[d].owner = ls[d].owner
                                            /\ lt[d].left = Sooner(ls[d].left)
  BY <1>1, AgedLink DEF AgedLinks
<1>3. lt \in [Devices -> Link \cup {Null}]
  BY <1>2 DEF AgedLinks
<1> HIDE DEF lt
<1>4. \A q \in Aged(rs) : \E r \in rs : /\ q \in LinkRow /\ q.device = r.device
                                        /\ q.left = Sooner(r.left)
  BY <1>1, AgedRow DEF Aged
<1>5. \A q \in Aged(ss) : \E s \in ss : /\ q \in SessionRow /\ q.device = s.device
                                        /\ q.user = s.user
  BY <1>1, AgedSession DEF Aged
<1>6. Pending(lt) = Pending(ls)
  BY <1>2 DEF Pending
<1>7. Typed(lt, Aged(rs), Aged(ss))
  BY <1>3, <1>4, <1>5 DEF Typed
<1>8. OwnersHold(lt, Aged(ss))
  <2> SUFFICES ASSUME NEW q \in Aged(ss) PROVE lt[q.device] # Null /\ lt[q.device].owner = q.user
    BY DEF OwnersHold
  <2>1. PICK s \in ss : q.device = s.device /\ q.user = s.user /\ s.device \in Devices
    BY <1>1, <1>5, RowFields
  <2> QED BY <1>2, <2>1 DEF Fine, OwnersHold
<1>9. CodesWait(lt, Aged(rs))
  BY <1>4, <1>6 DEF Fine, CodesWait
<1>10. LinksHaveCodes(lt, Aged(rs))
  <2> SUFFICES ASSUME NEW d \in Pending(ls), lt[d].left > 0
               PROVE  \E q \in Of(Aged(rs), d) : q.left = lt[d].left
    BY <1>6 DEF LinksHaveCodes
  <2>1. d \in Devices /\ ls[d] \in Link /\ lt[d].left = Sooner(ls[d].left)
    BY <1>1, <1>2 DEF Pending
  <2>2. ls[d].left > 0
    BY <2>1, LinkFields, LimitAssumption DEF Sooner
  <2>3. PICK r \in Of(rs, d) : r.left = ls[d].left
    BY <2>2 DEF Fine, LinksHaveCodes
  <2>4. r \in rs /\ r \in LinkRow /\ r.device = d
    BY <1>1 DEF Of
  <2>5. [r EXCEPT !.left = Sooner(r.left)] \in Of(Aged(rs), d)
    BY <2>4, AgedRow DEF Of, Aged
  <2> QED BY <2>1, <2>3, <2>4, <2>5, AgedRow
<1> QED BY <1>7, <1>8, <1>9, <1>10 DEF Fine, lt

-----------------------------------------------------------------------------
\* A login that changes no row keeps fine tables fine.
LEMMA StayIsFine ==
  ASSUME NEW ls, NEW rs, NEW ss, Fine(ls, rs, ss), RowsStay(ls, rs, ss)
  PROVE  Fine(links', requests', sessions')
BY DEF RowsStay

\* #createGameSession keeps fine tables fine.
LEMMA GameSessionIsFine ==
  ASSUME NEW ls, NEW rs, NEW ss, NEW d \in Devices, Fine(ls, rs, ss),
         ls[d] # Null, ls[d].owner # Null, GameSession(d, ls, rs, ss)
  PROVE  Fine(links', requests', sessions') /\ reply' \in Answers \cup {Null}
<1> DEFINE s == [device |-> d, user |-> ls[d].owner, left |-> SessionLife, reusable |-> TRUE]
<1>1. ls[d] \in Link /\ ls[d].owner \in Users
  BY LinkFields DEF Fine, Typed
<1>2. s \in SessionRow /\ s.device = d /\ s.user = ls[d].owner
  BY <1>1, LimitAssumption DEF SessionRow
<1>3. /\ reply' \in {"token", "error"}
      /\ \/ RowsStay(ls, rs, ss)
         \/ RowsStay(ls, rs, ss \cup {s})
  BY DEF GameSession
<1> HIDE DEF s
<1>4. Fine(ls, rs, ss \cup {s})
  <2>1. Typed(ls, rs, ss \cup {s})
    BY <1>2 DEF Fine, Typed
  <2>2. OwnersHold(ls, ss \cup {s})
    BY <1>2 DEF Fine, OwnersHold
  <2> QED BY <2>1, <2>2 DEF Fine
<1> QED BY <1>3, <1>4, StayIsFine DEF Answers

\* Opening or refreshing the link of a pending installation with a new code.
LEMMA LinkCodeIsFine ==
  ASSUME NEW ls, NEW rs, NEW ss, NEW d \in Devices, Fine(ls, rs, ss),
         ls[d] = Null \/ d \in Pending(ls), LinkCode(d, ls, rs, ss)
  PROVE  Fine(links', requests', sessions') /\ reply' \in Answers \cup {Null}
<1> DEFINE r(n) == [device |-> d, n |-> n, left |-> LinkLife, reusable |-> TRUE]
           x == [owner |-> Null, left |-> LinkLife]
           lt == [ls EXCEPT ![d] = x]
<1>1. /\ reply' \in {"code", "capacity", "limit", "error"}
      /\ \/ RowsStay(ls, rs, ss)
         \/ \E n \in CodeNumbers : RowsStay(lt, rs \cup {r(n)}, ss)
  BY DEF LinkCode
<1>2. ASSUME NEW n \in CodeNumbers PROVE Fine(lt, rs \cup {r(n)}, ss)
  <2>1. LinkLife \in 0..LinkLife /\ LinkLife > 0
    BY LimitAssumption
  <2>2. r(n) \in LinkRow /\ r(n).device = d /\ r(n).left = LinkLife
    BY <2>1 DEF LinkRow
  <2>3. x \in Link /\ x.owner = Null /\ x.left = LinkLife /\ x # Null
    BY <2>1, LinkFields
  <2> HIDE DEF r, x
  <2>4. ls \in [Devices -> Link \cup {Null}] /\ rs \subseteq LinkRow /\ ss \subseteq SessionRow
    BY DEF Fine, Typed
  <2>5. lt[d] = x /\ \A e \in Devices : e # d => lt[e] = ls[e]
    BY <2>4
  <2>6. lt \in [Devices -> Link \cup {Null}]
    BY <2>3, <2>4
  <2> HIDE DEF lt
  <2>7. Pending(lt) = Pending(ls) \cup {d}
    BY <2>3, <2>5 DEF Pending
  <2>8. OwnersHold(lt, ss)
    <3> SUFFICES ASSUME NEW s \in ss PROVE lt[s.device] # Null /\ lt[s.device].owner = s.user
      BY DEF OwnersHold
    <3>1. s.device \in Devices /\ s.user \in Users
      BY <2>4, RowFields
    <3>2. ls[s.device] # Null /\ ls[s.device].owner = s.user
      BY DEF Fine, OwnersHold
    <3>3. s.device # d
      BY <3>1, <3>2, NullAssumption DEF Pending
    <3> QED BY <2>5, <3>1, <3>2, <3>3
  <2>9. CodesWait(lt, rs \cup {r(n)})
    BY <2>2, <2>7 DEF Fine, CodesWait
  <2>10. LinksHaveCodes(lt, rs \cup {r(n)})
    <3> SUFFICES ASSUME NEW e \in Pending(lt), lt[e].left > 0
                 PROVE  \E q \in Of(rs \cup {r(n)}, e) : q.left = lt[e].left
      BY DEF LinksHaveCodes
    <3>1. CASE e = d
      BY <2>2, <2>3, <2>5, <3>1 DEF Of
    <3>2. CASE e # d
      <4>1. e \in Pending(ls) /\ lt[e] = ls[e]
        BY <2>5, <2>7, <3>2 DEF Pending
      <4>2. PICK q \in Of(rs, e) : q.left = ls[e].left
        BY <4>1 DEF Fine, LinksHaveCodes
      <4> QED BY <4>1, <4>2 DEF Of
    <3> QED BY <3>1, <3>2
  <2> QED BY <2>2, <2>4, <2>6, <2>8, <2>9, <2>10 DEF Fine, Typed
<1> QED BY <1>1, <1>2, StayIsFine DEF Answers

LEMMA LogInIsFine ==
  ASSUME NEW ls, NEW rs, NEW ss, NEW d \in Devices, Fine(ls, rs, ss), LogIn(d, ls, rs, ss)
  PROVE  Fine(links', requests', sessions') /\ reply' \in Answers \cup {Null}
BY GameSessionIsFine, LinkCodeIsFine DEF LogIn

\* The tables a login acts on: cleaned, and perhaps aged a unit.
LEMMA LoginTables ==
  ASSUME NEW d \in Devices, BeginDeviceLogin(d)
  PROVE  \/ LogIn(d, CleanLinks, Alive(requests), Alive(sessions))
         \/ LogIn(d, AgedLinks(CleanLinks), Aged(Alive(requests)), Aged(Alive(sessions)))
BY DEF BeginDeviceLogin, LoginCleans

LEMMA LoginKeeps ==
  ASSUME IInv, NEW d \in Devices, BeginDeviceLogin(d)
  PROVE  IInv'
<1>1. Fine(CleanLinks, Alive(requests), Alive(sessions))
  BY CleanIsFine DEF IInv
<1>2. Fine(AgedLinks(CleanLinks), Aged(Alive(requests)), Aged(Alive(sessions)))
  BY <1>1, AgeIsFine
<1>3. Fine(links', requests', sessions') /\ reply' \in Answers \cup {Null}
  BY <1>1, <1>2, LoginTables, LogInIsFine
<1>4. quiet' = 0
  BY DEF BeginDeviceLogin, LoginCleans
<1> QED BY <1>3, <1>4, LimitAssumption DEF IInv

\* An installation that gets an owner has no codes left, and only bearers of
\* that owner.
LEMMA LinkedIsFine ==
  ASSUME IInv, NEW d \in Devices, NEW u \in Users, NEW ss \in SUBSET sessions,
         \A s \in ss : s.device = d => s.user = u
  PROVE  Fine(Linked(d, u), Without(requests, d), ss)
<1> DEFINE x == [owner |-> u, left |-> 0]
           lt == Linked(d, u)
<1>1. x \in Link /\ x.owner = u /\ x # Null
  BY LinkFields, LimitAssumption
<1> HIDE DEF x
<1>2. /\ links \in [Devices -> Link \cup {Null}]
      /\ requests \subseteq LinkRow /\ sessions \subseteq SessionRow
  BY DEF IInv, Fine, Typed
<1>3. lt \in [Devices -> Link \cup {Null}]
  BY <1>1, <1>2 DEF Linked, x
<1>4. lt[d] = x /\ \A e \in Devices : e # d => lt[e] = links[e]
  BY <1>2 DEF Linked, x
<1> HIDE DEF lt
<1>5. Pending(lt) = Pending(links) \ {d}
  BY <1>1, <1>4, NullAssumption DEF Pending
<1>6. Typed(lt, Without(requests, d), ss)
  BY <1>2, <1>3 DEF Typed, Without
<1>7. OwnersHold(lt, ss)
  BY <1>1, <1>2, <1>4, RowFields DEF OwnersHold, IInv, Fine
<1>8. CodesWait(lt, Without(requests, d))
  BY <1>2, <1>5, RowFields DEF CodesWait, Without, Of, IInv, Fine
<1>9. LinksHaveCodes(lt, Without(requests, d))
  <2> SUFFICES ASSUME NEW e \in Pending(lt), lt[e].left > 0
               PROVE  \E q \in Of(Without(requests, d), e) : q.left = lt[e].left
    BY DEF LinksHaveCodes
  <2>1. e \in Pending(links) /\ e # d /\ lt[e] = links[e]
    BY <1>4, <1>5 DEF Pending
  <2>2. PICK q \in Of(requests, e) : q.left = links[e].left
    BY <2>1 DEF IInv, Fine, LinksHaveCodes
  <2> QED BY <2>1, <2>2 DEF Of, Without
<1> QED BY <1>6, <1>7, <1>8, <1>9 DEF Fine, lt

LEMMA LinkKeeps ==
  ASSUME IInv, NEW r \in requests, NEW u \in Users, LinkDevice(r, u)
  PROVE  IInv'
<1>1. r.device \in Devices /\ r.device \in Pending(links)
  BY DEF LinkDevice, Pending
<1>2. \A s \in sessions : s.device # r.device
  BY <1>1, NullAssumption, RowFields DEF IInv, Fine, Typed, OwnersHold, Pending
<1>3. Fine(Linked(r.device, u), Without(requests, r.device), sessions)
  BY <1>1, <1>2, LinkedIsFine
<1>4. /\ RowsStay(Linked(r.device, u), Without(requests, r.device), sessions)
      /\ reply' = Null /\ quiet' = quiet
  BY DEF LinkDevice, AllRequests
<1> QED BY <1>3, <1>4, StayIsFine DEF IInv, Answers

LEMMA RestartKeeps ==
  ASSUME IInv, Restart
  PROVE  IInv'
<1>1. quiet' \in 0..CleanupEvery /\ reply' \in Answers \cup {Null}
  BY LimitAssumption DEF Restart, Answers
<1>2. Fine(links', requests', sessions')
  <2>1. CASE RowsStay(links, requests, sessions)
    BY <2>1, StayIsFine DEF IInv
  <2>2. ASSUME NEW d \in Devices, NEW u \in Users,
               RowsStay(Linked(d, u), Without(requests, d), OwnSessions(d, u))
        PROVE  Fine(links', requests', sessions')
    <3>1. /\ OwnSessions(d, u) \in SUBSET sessions
          /\ \A s \in OwnSessions(d, u) : s.device = d => s.user = u
      BY DEF OwnSessions
    <3>2. Fine(Linked(d, u), Without(requests, d), OwnSessions(d, u))
      BY <3>1, LinkedIsFine
    <3> QED BY <2>2, <3>2, StayIsFine
  <2> QED BY <2>1, <2>2 DEF Restart
<1> QED BY <1>1, <1>2 DEF IInv

LEMMA RevokeKeeps ==
  ASSUME IInv, NEW u \in Users, NEW d \in Devices, RevokeDevice(u, d)
  PROVE  IInv'
<1> DEFINE lt == Removed(d)
<1>1. /\ links \in [Devices -> Link \cup {Null}]
      /\ requests \subseteq LinkRow /\ sessions \subseteq SessionRow
  BY DEF IInv, Fine, Typed
<1>2. lt \in [Devices -> Link \cup {Null}] /\ lt[d] = Null
      /\ \A e \in Devices : e # d => lt[e] = links[e]
  BY <1>1 DEF Removed
<1> HIDE DEF lt
<1>3. RowsStay(lt, Without(requests, d), Without(sessions, d)) /\ reply' = Null /\ quiet' = quiet
  BY <1>2 DEF RevokeDevice, lt
<1>4. Pending(lt) = Pending(links) \ {d}
  BY <1>2 DEF Pending
<1>5. Typed(lt, Without(requests, d), Without(sessions, d))
  BY <1>1, <1>2 DEF Typed, Without
<1>6. OwnersHold(lt, Without(sessions, d))
  BY <1>1, <1>2, RowFields DEF OwnersHold, Without, Of, IInv, Fine
<1>7. CodesWait(lt, Without(requests, d))
  BY <1>1, <1>4, RowFields DEF CodesWait, Without, Of, IInv, Fine
<1>8. LinksHaveCodes(lt, Without(requests, d))
  <2> SUFFICES ASSUME NEW e \in Pending(lt), lt[e].left > 0
               PROVE  \E q \in Of(Without(requests, d), e) : q.left = lt[e].left
    BY DEF LinksHaveCodes
  <2>1. e \in Pending(links) /\ e # d /\ lt[e] = links[e]
    BY <1>2, <1>4 DEF Pending
  <2>2. PICK q \in Of(requests, e) : q.left = links[e].left
    BY <2>1 DEF IInv, Fine, LinksHaveCodes
  <2> QED BY <2>1, <2>2 DEF Of, Without
<1>9. Fine(lt, Without(requests, d), Without(sessions, d))
  BY <1>5, <1>6, <1>7, <1>8 DEF Fine
<1> QED BY <1>3, <1>9, StayIsFine DEF IInv, Answers

LEMMA HousekeepKeeps ==
  ASSUME IInv, Housekeep
  PROVE  IInv'
<1>1. Fine(CleanLinks, Alive(requests), Alive(sessions))
  BY CleanIsFine DEF IInv
<1>2. Fine(links', requests', sessions')
  BY <1>1, StayIsFine DEF Housekeep
<1> QED BY <1>2, LimitAssumption DEF IInv, Housekeep, Answers

LEMMA TickKeeps ==
  ASSUME IInv, Tick
  PROVE  IInv'
<1>1. Fine(AgedLinks(links), Aged(requests), Aged(sessions))
  BY AgeIsFine DEF IInv
<1>2. Fine(links', requests', sessions')
  BY <1>1, StayIsFine DEF Tick
<1>3. quiet' \in 0..CleanupEvery /\ reply' \in Answers \cup {Null}
  BY LimitAssumption DEF IInv, Tick, Answers
<1> QED BY <1>2, <1>3 DEF IInv

LEMMA InitHolds == Init => IInv
<1> SUFFICES ASSUME Init PROVE IInv
  OBVIOUS
<1>1. 0 \in 0..LinkLife /\ LinkLife \in 0..LinkLife /\ SessionLife \in 0..SessionLife
  BY LimitAssumption
<1>2. links \in [Devices -> Link \cup {Null}]
      /\ \A d \in Pending(links) : links[d].left = LinkLife
  <2>1. ASSUME NEW x \in {Null} \cup [owner : {Null}, left : {LinkLife}]
                                \cup [owner : Users, left : {0}]
        PROVE  /\ x \in Link \cup {Null}
               /\ x # Null /\ x.owner = Null => x.left = LinkLife
    BY <1>1, NullAssumption DEF Link
  <2> QED BY <2>1 DEF Init, Pending
<1>3. ASSUME NEW r \in requests
      PROVE  r \in LinkRow /\ r.device \in Pending(links) /\ r.left = LinkLife
  <2>1. r \in [device : Pending(links), n : 1..MaxLinks, left : {LinkLife}, reusable : {FALSE}]
    BY DEF Init
  <2>2. 1..MaxLinks \subseteq CodeNumbers
    BY LimitAssumption DEF CodeNumbers
  <2> QED BY <1>1, <2>1, <2>2 DEF LinkRow, Pending
<1>4. ASSUME NEW s \in sessions
      PROVE  s \in SessionRow /\ links[s.device] # Null /\ links[s.device].owner = s.user
  <2>1. s \in [device : Devices, user : Users, left : {SessionLife}, reusable : {FALSE}]
        /\ links[s.device] # Null /\ links[s.device].owner = s.user
    BY DEF Init
  <2> QED BY <1>1, <2>1 DEF SessionRow
<1>5. LinksHaveCodes(links, requests)
  <2> SUFFICES ASSUME NEW d \in Pending(links)
               PROVE  \E r \in Of(requests, d) : r.left = links[d].left
    BY DEF LinksHaveCodes
  <2>1. PICK r \in Of(requests, d) : TRUE
    BY DEF Init
  <2> QED BY <1>2, <1>3, <2>1 DEF Of
<1>6. Fine(links, requests, sessions)
  BY <1>2, <1>3, <1>4, <1>5 DEF Fine, Typed, OwnersHold, CodesWait
<1> QED BY <1>6, LimitAssumption DEF IInv, Init

LEMMA StepKeeps == IInv /\ [Next]_vars => IInv'
<1> SUFFICES ASSUME IInv, [Next]_vars PROVE IInv'
  OBVIOUS
<1>1. ASSUME NEW d \in Devices, BeginDeviceLogin(d) PROVE IInv'
  BY <1>1, LoginKeeps
<1>2. ASSUME NEW r \in requests, NEW u \in Users, LinkDevice(r, u) PROVE IInv'
  BY <1>2, LinkKeeps
<1>3. ASSUME NEW u \in Users, NEW d \in Devices, RevokeDevice(u, d) PROVE IInv'
  BY <1>3, RevokeKeeps
<1>4. CASE Restart
  BY <1>4, RestartKeeps
<1>5. CASE Housekeep
  BY <1>5, HousekeepKeeps
<1>6. CASE Tick
  BY <1>6, TickKeeps
<1>7. CASE UNCHANGED vars
  BY <1>7 DEF vars, IInv
<1> QED BY <1>1, <1>2, <1>3, <1>4, <1>5, <1>6, <1>7 DEF Next

\* The invariant holds in every reachable state.
THEOREM Invariance == Spec => []IInv
BY InitHolds, StepKeeps, PTL DEF Spec

\* Type correctness of the tables.
THEOREM TypeCorrect == Spec => []TypeOK
<1>1. IInv => TypeOK
  BY DEF IInv, Fine, Typed, TypeOK
<1> QED BY <1>1, Invariance, PTL

\* A bearer always belongs to the account its installation is linked to, and
\* only installations nobody owns have codes to confirm.
THEOREM BearersAreOwners == Spec => []CredentialsMatchOwner
<1>1. IInv => CredentialsMatchOwner
  BY DEF IInv, Fine, OwnersHold, CodesWait, CredentialsMatchOwner
<1> QED BY <1>1, Invariance, PTL

\* Only a login is answered.
LEMMA OnlyLoginsAnswer ==
  ASSUME Next, reply' \in Answers
  PROVE  \E d \in Devices : BeginDeviceLogin(d)
BY NullAssumption DEF Next, LinkDevice, RevokeDevice, Restart, Housekeep, Tick

\* A refusal for capacity counts pending installations, and each of them had
\* a live code when the login cleaned up.
LEMMA CapacityIsJust ==
  ASSUME IInv, NEW d \in Devices, BeginDeviceLogin(d), reply' = "capacity"
  PROVE  Cardinality({e \in Devices : Of(Alive(requests), e) # {}}) >= MaxPending
<1> DEFINE Holders == {e \in Devices : Of(Alive(requests), e) # {}}
<1>1. ASSUME NEW ls, NEW rs, NEW ss, LogIn(d, ls, rs, ss)
      PROVE  Cardinality(Pending(ls)) >= MaxPending
  BY <1>1 DEF LogIn, GameSession, LinkCode
<1>2. Fine(CleanLinks, Alive(requests), Alive(sessions))
      /\ \A e \in Pending(CleanLinks) : Of(Alive(requests), e) # {}
  BY CleanIsFine DEF IInv
<1>3. Pending(AgedLinks(CleanLinks)) = Pending(CleanLinks)
  <2>1. \A e \in Devices : CleanLinks[e] \in Link \cup {Null}
    BY <1>2 DEF Fine, Typed
  <2>2. \A e \in Devices : /\ AgedLinks(CleanLinks)[e] = Null <=> CleanLinks[e] = Null
                           /\ CleanLinks[e] # Null =>
                                AgedLinks(CleanLinks)[e].owner = CleanLinks[e].owner
    BY <2>1, AgedLink DEF AgedLinks
  <2> QED BY <2>2 DEF Pending
<1>4. Cardinality(Pending(CleanLinks)) >= MaxPending
  BY <1>1, <1>3, LoginTables
<1>5. Pending(CleanLinks) \in SUBSET Holders
  BY <1>2 DEF Pending
<1>6. IsFiniteSet(Holders)
  BY DeviceAssumption, FS_Subset
<1>7. Cardinality(Pending(CleanLinks)) <= Cardinality(Holders) /\ IsFiniteSet(Pending(CleanLinks))
  BY <1>5, <1>6, FS_Subset
<1>8. Cardinality(Holders) \in Nat /\ Cardinality(Pending(CleanLinks)) \in Nat /\ MaxPending \in Nat
  BY <1>6, <1>7, FS_CardinalityType, LimitAssumption
<1> HIDE DEF Holders
<1>9. Cardinality(Holders) >= MaxPending
  BY <1>4, <1>7, <1>8
<1> QED BY <1>9 DEF Holders

\* An installation is refused for capacity only while enough others really
\* hold a live code, whatever was abandoned before.
THEOREM RefusalsAreJust == Spec => RefusalIsJust
<1>1. IInv /\ [Next]_vars =>
        [reply' = "capacity" =>
           Cardinality({d \in Devices : Of(Alive(requests), d) # {}}) >= MaxPending]_vars
  <2> SUFFICES ASSUME IInv, Next, reply' = "capacity"
               PROVE  Cardinality({d \in Devices : Of(Alive(requests), d) # {}}) >= MaxPending
    OBVIOUS
  <2>1. PICK e \in Devices : BeginDeviceLogin(e)
    BY OnlyLoginsAnswer DEF Answers
  <2> QED BY <2>1, CapacityIsJust
<1> QED BY <1>1, Invariance, PTL DEF Spec, RefusalIsJust
-----------------------------------------------------------------------------
(***************************************************************************)
(* What a step leaves of the codes and bearers that are still good.        *)
(***************************************************************************)
\* Each good code of rs is still in rt, no more than a unit older.
CodesStay(rs, rt) ==
  \A r \in Alive(rs) :
    \E q \in rt : q.device = r.device /\ q.n = r.n /\ r.left - q.left \in {0, 1}
BearersStay(ss, st) ==
  \A s \in Alive(ss) :
    \E q \in st : /\ q.device = s.device /\ q.user = s.user
                 /\ q.reusable = s.reusable /\ s.left - q.left \in {0, 1}

\* Nothing that is good is lost by keeping more, or by ageing what is good.
LEMMA KeptRowsStay ==
  ASSUME NEW rs \in SUBSET LinkRow, NEW ss \in SUBSET SessionRow, NEW rt, NEW st
  PROVE  /\ Alive(rs) \subseteq rt \/ Aged(Alive(rs)) \subseteq rt => CodesStay(rs, rt)
         /\ Alive(ss) \subseteq st \/ Aged(Alive(ss)) \subseteq st => BearersStay(ss, st)
<1>1. \A n : n \in 0..LinkLife \/ n \in 0..SessionLife => n \in Int
  BY LimitAssumption
<1>2. \A n \in Int : n > 0 => n - Sooner(n) = 1
  BY DEF Sooner
<1>3. ASSUME NEW r \in Alive(rs)
      PROVE  /\ r \in LinkRow /\ r.left - r.left = 0
             /\ LET q == [r EXCEPT !.left = Sooner(r.left)] IN
                /\ q.device = r.device /\ q.n = r.n /\ r.left - q.left = 1
                /\ q \in Aged(Alive(rs))
  <2>1. r \in LinkRow /\ r.left > 0
    BY DEF Alive
  <2>2. r.left \in Int
    BY <1>1, <2>1, RowFields
  <2>3. [r EXCEPT !.left = Sooner(r.left)] \in Aged(Alive(rs))
    BY DEF Aged
  <2> QED BY <1>2, <2>1, <2>2, <2>3, AgedRow
<1>4. ASSUME NEW s \in Alive(ss)
      PROVE  /\ s \in SessionRow /\ s.left - s.left = 0
             /\ LET q == [s EXCEPT !.left = Sooner(s.left)] IN
                /\ q.device = s.device /\ q.user = s.user /\ q.reusable = s.reusable
                /\ s.left - q.left = 1 /\ q \in Aged(Alive(ss))
  <2>1. s \in SessionRow /\ s.left > 0
    BY DEF Alive
  <2>2. s.left \in Int
    BY <1>1, <2>1, RowFields
  <2>3. [s EXCEPT !.left = Sooner(s.left)] \in Aged(Alive(ss))
    BY DEF Aged
  <2> QED BY <1>2, <2>1, <2>2, <2>3, AgedSession
<1>5. Alive(rs) \subseteq rt \/ Aged(Alive(rs)) \subseteq rt => CodesStay(rs, rt)
  BY <1>3 DEF CodesStay
<1>6. Alive(ss) \subseteq st \/ Aged(Alive(ss)) \subseteq st => BearersStay(ss, st)
  BY <1>4 DEF BearersStay
<1> QED BY <1>5, <1>6

\* A login adds to the tables it acts on.
LEMMA LogInAdds ==
  ASSUME NEW ls, NEW rs, NEW ss, NEW d \in Devices, LogIn(d, ls, rs, ss)
  PROVE  rs \subseteq requests' /\ ss \subseteq sessions'
BY DEF LogIn, GameSession, LinkCode, RowsStay

\* What CredentialsStand says of one step.
CodesStand ==
  \A r \in Alive(requests) :
    \/ \E q \in requests' : q.device = r.device /\ q.n = r.n /\ r.left - q.left \in {0, 1}
    \/ links'[r.device].owner # Null
BearersStand ==
  \A s \in Alive(sessions) :
    \/ \E q \in sessions' : /\ q.device = s.device /\ q.user = s.user
                            /\ q.reusable = s.reusable /\ s.left - q.left \in {0, 1}
    \/ links'[s.device] = Null \/ links'[s.device].owner # s.user

\* An installation that gets an owner ends its own codes and nothing else, and
\* only bearers of another account.
LEMMA LinkingStands ==
  ASSUME IInv, NEW d \in Devices, NEW u \in Users,
         \/ RowsStay(Linked(d, u), Without(requests, d), sessions)
         \/ RowsStay(Linked(d, u), Without(requests, d), OwnSessions(d, u))
  PROVE  CodesStand /\ BearersStand
<1>1. /\ links \in [Devices -> Link \cup {Null}]
      /\ requests \subseteq LinkRow /\ sessions \subseteq SessionRow
  BY DEF IInv, Fine, Typed
<1>2. links'[d].owner = u /\ u # Null
  BY <1>1, NullAssumption DEF RowsStay, Linked
<1>3. CodesStand
  <2> SUFFICES ASSUME NEW r \in Alive(requests), r.device # d
               PROVE  \E q \in requests' : /\ q.device = r.device /\ q.n = r.n
                                          /\ r.left - q.left \in {0, 1}
    BY <1>2 DEF CodesStand
  <2>1. r \in requests /\ r \in requests'
    BY DEF Alive, RowsStay, Without, Of
  <2>2. r.left \in Int
    BY <1>1, <2>1, RowFields, LimitAssumption
  <2> QED BY <2>1, <2>2
<1>4. BearersStand
  <2> SUFFICES ASSUME NEW s \in Alive(sessions), ~(links'[s.device].owner # s.user)
               PROVE  \E q \in sessions' : /\ q.device = s.device /\ q.user = s.user
                                          /\ q.reusable = s.reusable /\ s.left - q.left \in {0, 1}
    BY DEF BearersStand
  <2>1. s \in sessions /\ s \in sessions'
    BY <1>2 DEF Alive, RowsStay, OwnSessions
  <2>2. s.left \in Int
    BY <1>1, <2>1, RowFields, LimitAssumption
  <2> QED BY <2>1, <2>2
<1> QED BY <1>3, <1>4

LEMMA StepStands == IInv /\ [Next]_vars => CodesStand /\ BearersStand
<1> SUFFICES ASSUME IInv, [Next]_vars PROVE CodesStand /\ BearersStand
  OBVIOUS
<1>1. /\ links \in [Devices -> Link \cup {Null}]
      /\ requests \subseteq LinkRow /\ sessions \subseteq SessionRow
  BY DEF IInv, Fine, Typed
<1>2. CodesStay(requests, requests') /\ BearersStay(sessions, sessions')
        => CodesStand /\ BearersStand
  BY DEF CodesStay, BearersStay, CodesStand, BearersStand
<1>3. ASSUME \/ Alive(requests) \subseteq requests' /\ Alive(sessions) \subseteq sessions'
             \/ /\ Aged(Alive(requests)) \subseteq requests'
                /\ Aged(Alive(sessions)) \subseteq sessions'
      PROVE  CodesStand /\ BearersStand
  BY <1>1, <1>2, <1>3, KeptRowsStay
<1>4. ASSUME NEW d \in Devices, BeginDeviceLogin(d) PROVE CodesStand /\ BearersStand
  BY <1>3, <1>4, LoginTables, LogInAdds
<1>5. ASSUME NEW r \in requests, NEW u \in Users, LinkDevice(r, u)
      PROVE  CodesStand /\ BearersStand
  <2>1. r.device \in Devices /\ RowsStay(Linked(r.device, u), Without(requests, r.device), sessions)
    BY <1>5 DEF LinkDevice, AllRequests, Pending
  <2> QED BY <2>1, LinkingStands
<1>6. CASE Restart
  <2>1. CASE RowsStay(links, requests, sessions)
    BY <1>3, <2>1 DEF RowsStay, Alive
  <2>2. ASSUME NEW d \in Devices, NEW u \in Users,
               RowsStay(Linked(d, u), Without(requests, d), OwnSessions(d, u))
        PROVE  CodesStand /\ BearersStand
    BY <2>2, LinkingStands
  <2> QED BY <1>6, <2>1, <2>2 DEF Restart
<1>7. ASSUME NEW u \in Users, NEW d \in Devices, RevokeDevice(u, d)
      PROVE  CodesStand /\ BearersStand
  <2>1. Removed(d)[d] = Null
    BY <1>1 DEF Removed
  <2>2. RowsStay(Removed(d), Without(requests, d), Without(sessions, d))
    BY <1>7, <2>1 DEF RevokeDevice
  <2>3. \A r \in requests : r.device # d
    BY <1>7, NullAssumption DEF RevokeDevice, IInv, Fine, CodesWait, Pending
  <2>4. Alive(requests) \subseteq requests'
    BY <2>2, <2>3 DEF Alive, RowsStay, Without, Of
  <2>5. CodesStand
    BY <1>1, <2>4, KeptRowsStay DEF CodesStay, CodesStand
  <2>6. BearersStand
    <3> SUFFICES ASSUME NEW s \in Alive(sessions), s.device # d
                 PROVE  \E q \in sessions' : /\ q.device = s.device /\ q.user = s.user
                                            /\ q.reusable = s.reusable /\ s.left - q.left \in {0, 1}
      BY <2>1, <2>2 DEF BearersStand, RowsStay
    <3>1. s \in sessions /\ s \in sessions'
      BY <2>2 DEF Alive, RowsStay, Without, Of
    <3>2. s.left \in Int
      BY <1>1, <3>1, RowFields, LimitAssumption
    <3> QED BY <3>1, <3>2
  <2> QED BY <2>5, <2>6
<1>8. CASE Housekeep
  BY <1>3, <1>8 DEF Housekeep, RowsStay
<1>9. CASE Tick
  <2>1. Aged(Alive(requests)) \subseteq requests' /\ Aged(Alive(sessions)) \subseteq sessions'
    BY <1>9 DEF Tick, RowsStay, Aged, Alive
  <2> QED BY <1>3, <2>1
<1>10. CASE UNCHANGED vars
  BY <1>3, <1>10 DEF vars, Alive
<1> QED BY <1>4, <1>5, <1>6, <1>7, <1>8, <1>9, <1>10 DEF Next

\* A code on an open consent page and a bearer in use stay good until they
\* expire, the installation changes hands or it is removed: a login reuses them,
\* a clean-up spares them, and other installations' logins, links, removals and
\* restarts do not touch them.
THEOREM CredentialsStayGood == Spec => CredentialsStand
<1>1. IInv /\ [Next]_vars => [CodesStand /\ BearersStand]_vars
  BY StepStands
<1> QED BY <1>1, Invariance, PTL DEF Spec, CredentialsStand, CodesStand, BearersStand

\* A login fails on a unique index only over a row that has run out.
LEMMA ErrorsAreExpiries ==
  ASSUME NEW ls, NEW rs, NEW ss, Fine(ls, rs, ss), NEW d \in Devices,
         LogIn(d, ls, rs, ss), reply' = "error"
  PROVE  \E r \in Reusable(requests') \cup Reusable(sessions') : r.left = 0
<1>1. rs \subseteq LinkRow /\ ss \subseteq SessionRow
  BY DEF Fine, Typed
<1>2. CASE GameSession(d, ls, rs, ss)
  <2>1. /\ LiveSession(ss, d, ls[d].owner) = {} /\ Reusable(Of(ss, d)) # {}
        /\ sessions' = ss
    BY <1>2 DEF GameSession, RowsStay
  <2>2. PICK s \in ss : s.device = d /\ s.reusable
    BY <2>1 DEF Reusable, Of
  <2>3. s.user = ls[d].owner
    BY <2>2 DEF Fine, OwnersHold
  <2>4. ~(s.left > 0)
    BY <2>1, <2>2, <2>3 DEF LiveSession, Reusable, Alive, Of
  <2>5. s.left = 0
    BY <1>1, <2>2, <2>4, RowFields, LimitAssumption
  <2> QED BY <2>1, <2>2, <2>5 DEF Reusable
<1>3. CASE LinkCode(d, ls, rs, ss)
  <2>1. /\ Reusable(Alive(Of(rs, d))) = {} /\ Reusable(Of(rs, d)) # {}
        /\ requests' = rs
    BY <1>3 DEF LinkCode, RowsStay
  <2>2. PICK r \in rs : r.device = d /\ r.reusable
    BY <2>1 DEF Reusable, Of
  <2>3. ~(r.left > 0)
    BY <2>1, <2>2 DEF Reusable, Alive, Of
  <2>4. r.left = 0
    BY <1>1, <2>2, <2>3, RowFields, LimitAssumption
  <2> QED BY <2>1, <2>2, <2>4 DEF Reusable
<1> QED BY <1>2, <1>3 DEF LogIn

\* The unique indexes fail a login only when the one reusable code or bearer of
\* the installation has just run out between the two readings of the clock.
THEOREM ErrorsNeedExpiry == Spec => OnlyExpiryFailsALogin
<1>1. ASSUME IInv, Next, reply' = "error"
      PROVE  \E r \in Reusable(requests') \cup Reusable(sessions') : r.left = 0
  <2>1. PICK d \in Devices : BeginDeviceLogin(d)
    BY <1>1, OnlyLoginsAnswer DEF Answers
  <2>2. /\ Fine(CleanLinks, Alive(requests), Alive(sessions))
        /\ Fine(AgedLinks(CleanLinks), Aged(Alive(requests)), Aged(Alive(sessions)))
    BY <1>1, CleanIsFine, AgeIsFine DEF IInv
  <2> QED BY <1>1, <2>1, <2>2, LoginTables, ErrorsAreExpiries
<1>2. IInv /\ [Next]_vars =>
        [reply' = "error" => \E r \in Reusable(requests') \cup Reusable(sessions') : r.left = 0]_vars
  BY <1>1
<1> QED BY <1>2, Invariance, PTL DEF Spec, OnlyExpiryFailsALogin
=============================================================================
