------------------------------- MODULE Decks --------------------------------
(***************************************************************************)
(* The decks of one account (account-store.mjs): lists of figures and      *)
(* plates the account owns, edited by whole replacement, and expanded for  *)
(* gems.  At every start of the server ensureInitialDecks gives accounts   *)
(* of an earlier version, which may have a single deck, the initial number *)
(* of decks.  Each operation is one synchronous transaction; figures come  *)
(* in by chests (module Chests), plates only with the account.  A deck's   *)
(* name is left out.  The chests stand still here: all a deck sees of them *)
(* is that owned grows.                                                    *)
(***************************************************************************)
EXTENDS Chests, Functions

CONSTANTS Plates,                   \* plateMasters
          Cost,                     \* of a plate
          StarterFigures, StarterPlates,  \* the lists an account starts with
          InitialDecks, MaxDecks,   \* INITIAL_DECK_COUNT, MAXIMUM_DECK_COUNT
          MaxFigures, MaxPlates,    \* MAXIMUM_DECK_FIGURES, MAXIMUM_DECK_PLATES
          MaxCost,                  \* MAXIMUM_DECK_PLATE_COST
          GemCost,                  \* DECK_EXPANSION_GEM_COST
          StartGems                 \* the most gems an account has

Lists(set, n) == UNION {[1..k -> set] : k \in 0..n}
Count(list, x) == Cardinality({i \in DOMAIN list : list[i] = x})
TotalCost(list) == FoldFunction(+, 0, [i \in DOMAIN list |-> Cost[list[i]]])

ASSUME CostAssumption == Cost \in [Plates -> Nat]
ASSUME StarterAssumption == /\ StarterFigures \in Lists(Figures, MaxFigures)
                            /\ IsInjective(StarterFigures)
                            /\ StarterPlates \in Lists(Plates, MaxPlates)
ASSUME DeckLimitAssumption == /\ 1 <= InitialDecks /\ InitialDecks <= MaxDecks
                          /\ {InitialDecks, MaxDecks, MaxFigures, MaxPlates, MaxCost, GemCost, StartGems} \subseteq Nat

Deck == [figures : Lists(Figures, MaxFigures), plates : Lists(Plates, MaxPlates)]
ASSUME NoDeckAssumption == None \notin Deck

VARIABLES
  decks,   \* the deck of each number, or None
  gems,
  up       \* the server has started
decksVars == <<decks, gems, up>>

Numbers == 1..MaxDecks

StarterDeck == [figures |-> StarterFigures, plates |-> StarterPlates]
Present == {n \in DOMAIN decks : decks[n] # None}
Last == CHOOSE n \in Present : \A k \in Present : k <= n
\* user_plates: one row for each starter plate with its count
Quantity(p) == Count(StarterPlates, p)

\* An account of any version, with the decks it got and bought there.
DecksInit ==
  /\ \E n \in Numbers :
       decks = [k \in 1..(MaxDecks + 1) |-> IF k <= n THEN StarterDeck ELSE None]
  /\ owned = Range(StarterFigures)
  /\ gems \in 0..StartGems
  /\ up = FALSE

\* ensureInitialDecks, when the server starts
EnsureInitialDecks ==
  /\ ~up /\ up' = TRUE
  /\ decks' = [n \in DOMAIN decks |->
                 IF n <= InitialDecks /\ decks[n] = None THEN decks[1] ELSE decks[n]]
  /\ UNCHANGED <<owned, gems>>
StopServer == up /\ up' = FALSE /\ UNCHANGED <<decks, owned, gems>>

\* Mutant: a plate owned once may be listed as often as one likes.
ListedPlates(list) == \A i \in DOMAIN list : Quantity(list[i]) > 0
OwnedPlates(list) == \A p \in Plates : Count(list, p) <= Quantity(p)
\* Mutant: the same plates in another order count as unchanged.
SamePlates(n, list) == \A p \in Plates : Count(list, p) = Count(decks[n].plates, p)
Unchanged(n, list) == list = decks[n].plates
\* updateDeck
UpdateDeck(n, figures, plates) ==
  /\ up /\ decks[n] # None
  /\ Range(figures) \subseteq owned /\ IsInjective(figures)
  /\ OwnedPlates(plates)
  /\ TotalCost(plates) <= MaxCost \/ Unchanged(n, plates)
  /\ decks' = [decks EXCEPT ![n] = [figures |-> figures, plates |-> plates]]
  /\ UNCHANGED <<owned, gems, up>>

\* Mutant: the deck count is compared with the limit after the fact.
OneTooMany == Cardinality(Present) <= MaxDecks
RoomForDeck == Cardinality(Present) < MaxDecks
Affordable == gems >= GemCost
\* expandDecks
ExpandDecks ==
  /\ up /\ RoomForDeck /\ Affordable
  /\ decks' = [decks EXCEPT ![Last + 1] = [figures |-> << >>, plates |-> << >>]]
  /\ gems' = gems - GemCost
  /\ UNCHANGED <<owned, up>>

\* claimChest brings in a figure (module Chests).
AcquireFigure(f) == up /\ owned' = owned \cup {f} /\ UNCHANGED <<decks, gems, up>>

DecksNext ==
  \/ EnsureInitialDecks \/ StopServer \/ ExpandDecks
  \/ \E n \in Numbers, figures \in Lists(Figures, MaxFigures),
        plates \in Lists(Plates, MaxPlates) : UpdateDeck(n, figures, plates)
  \/ \E f \in Figures : AcquireFigure(f)

DecksSpec == DecksInit /\ [][DecksNext]_<<decksVars, owned>>

-----------------------------------------------------------------------------
\* Decks are numbered without a gap, so that MAX(deck_no) + 1 is the next
\* number and within what updateDeck accepts, although expandDecks counts
\* rows; and a running server has completed the initial decks.
NumbersHaveNoGap ==
  /\ Present = 1..Last /\ Last <= MaxDecks
  /\ up => Last >= InitialDecks

\* Whatever a deck went through (edits, an over-cost list kept, copies at a
\* start), it holds distinct figures and no more plates of a kind than the
\* account owns, as battleDeck sends it into a match; the exception for a
\* preserved loadout lets no other list through: a deck over the cost limit has
\* the very plates an account starts with; and the numbers have no gap.
DecksAreLegal ==
  /\ \A n \in Present :
       /\ IsInjective(decks[n].figures) /\ Range(decks[n].figures) \subseteq owned
       /\ \A p \in Plates : Count(decks[n].plates, p) <= Quantity(p)
       /\ TotalCost(decks[n].plates) <= MaxCost \/ decks[n].plates = StarterPlates
  /\ NumbersHaveNoGap
=============================================================================
