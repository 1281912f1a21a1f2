---------------------------- MODULE CenterProofs ----------------------------
(***************************************************************************)
(* Where the figures stand, for any number of figures, points and Waits    *)
(* and any order of movements, swaps, battles and steps of knockouts.      *)
(*                                                                         *)
(* BoardIsSound is not inductive: a Center in which only the upper figure  *)
(* has made room stands open, and only a figure that is still to leave     *)
(* closes it.  Filling says that there is one: of that side, not cursed    *)
(* (a cursed one leaves the game instead), and so about to enter it.       *)
(***************************************************************************)
EXTENDS Center, TLAPS, WellFoundedInduction, FiniteSetTheorems

Board == [pos : [Figures -> Nat], wait : [Figures -> Nat],
          faint : SUBSET Figures, cursed : SUBSET Figures, battled : SUBSET Figures]
Marks(b) == b.faint \cup b.cursed \cup b.battled
Own(p) == Points \cup {Bench(p), Lower(p), Upper(p), Out(p)}

\* No two figures in one place, each in a place of its own, marks on the field only.
Stands(b) == /\ b \in Board
             /\ \A p, q \in Figures : b.pos[p] = b.pos[q] => p = q
             /\ \A p \in Figures : b.pos[p] \in Own(p)
             /\ Marks(b) \subseteq OnField(b)

\* The Center of p's side has a figure below and none above.
Gaping(b, p) == (\E q \in Figures : b.pos[q] = Lower(p)) /\ (\A q \in Figures : b.pos[q] # Upper(p))
Filling(b, left) == \A p \in Figures : Gaping(b, p) => \E q \in left : SameSide(p, q) /\ q \notin b.cursed

\* Between two choices of the players.
Settled(b) == Stands(b) /\ b.faint = {} /\ Filling(b, {})
AllSettled(boards) == \A b \in boards : Settled(b)

StagedOK(b, s) == /\ s \in [left : SUBSET Figures, pick : Figures, opponent : Figures,
                            step : {"remove", "bench", "shift", "knockout"}]
                  /\ s.pick \in s.left /\ s.step = StepOf(b, s.pick)
                  /\ b.faint = s.left /\ Filling(b, s.left)

CenterInv == /\ Stands(board)
             /\ mover \in Figures \cup {Nobody}
             /\ staged = Nobody => Settled(board)
             /\ staged # Nobody => mover # Nobody /\ StagedOK(board, staged)

-----------------------------------------------------------------------------
\* The numbers of the places are all different, but for the two places that the
\* figures of a side share.
LEMMA Places ==
  ASSUME NEW p \in Figures, NEW q \in Figures
  PROVE  /\ Points \subseteq Nat /\ {Bench(p), Lower(p), Upper(p), Out(p)} \subseteq Nat
         /\ {Bench(p), Lower(p), Upper(p), Out(p)} \cap Points = {}
         /\ Bench(p) = Bench(q) => p = q
         /\ Out(p) = Out(q) => p = q
         /\ Bench(p) # Lower(q) /\ Bench(p) # Upper(q) /\ Bench(p) # Out(q)
         /\ Lower(p) # Upper(q) /\ Lower(p) # Out(q) /\ Upper(p) # Out(q)
         /\ Lower(p) = Lower(q) <=> SameSide(p, q)
         /\ Upper(p) = Upper(q) <=> SameSide(p, q)
<1>1. Blacks \in Nat /\ Whites \in Nat /\ Field \in Nat
  BY BoardAssumption
<1>2. p \in Int /\ q \in Int /\ 0 <= p /\ 0 <= q /\ p < Blacks + Whites /\ q < Blacks + Whites
  BY <1>1 DEF Figures
<1>3. \A r : r \in Points <=> r \in Int /\ 0 <= r /\ r < Field
  BY <1>1 DEF Points
<1>4. Points \subseteq Nat /\ {Bench(p), Lower(p), Upper(p), Out(p)} \subseteq Nat
  BY <1>1, <1>2, <1>3 DEF Bench, Lower, Upper, Out
<1>5. {Bench(p), Lower(p), Upper(p), Out(p)} \cap Points = {}
  BY <1>1, <1>2, <1>3 DEF Bench, Lower, Upper, Out
<1>6. (Bench(p) = Bench(q) => p = q) /\ (Out(p) = Out(q) => p = q)
  BY <1>1, <1>2 DEF Bench, Out
<1>7. Bench(p) # Lower(q) /\ Bench(p) # Upper(q) /\ Bench(p) # Out(q)
  BY <1>1, <1>2 DEF Bench, Lower, Upper, Out
<1>8. Lower(p) # Upper(q) /\ Lower(p) # Out(q) /\ Upper(p) # Out(q)
  BY <1>1, <1>2 DEF Lower, Upper, Out
<1>9. (Lower(p) = Lower(q) <=> SameSide(p, q)) /\ (Upper(p) = Upper(q) <=> SameSide(p, q))
  BY <1>1, <1>2 DEF Lower, Upper, SameSide
<1> QED BY <1>4, <1>5, <1>6, <1>7, <1>8, <1>9

LEMMA Sides ==
  ASSUME NEW p \in Figures, NEW q \in Figures, NEW r \in Figures
  PROVE  /\ SameSide(p, p)
         /\ SameSide(p, q) => SameSide(q, p)
         /\ SameSide(p, q) /\ SameSide(q, r) => SameSide(p, r)
BY DEF SameSide

LEMMA NobodyIsNoFigure == Nobody \notin Figures /\ Nobody \notin Nat
BY BoardAssumption DEF Figures

LEMMA FieldIs ==
  ASSUME NEW b, NEW p
  PROVE  p \in OnField(b) <=> p \in Figures /\ b.pos[p] \in Points
BY DEF OnField

\* Who is at a place.
LEMMA AtIs ==
  ASSUME NEW b, Stands(b), NEW place
  PROVE  /\ At(b, place) \in Figures \cup {Nobody}
         /\ At(b, place) = Nobody <=> \A q \in Figures : b.pos[q] # place
         /\ \A q \in Figures : At(b, place) = q <=> b.pos[q] = place
<1>1. DOMAIN b.pos = Figures /\ \A p, q \in Figures : b.pos[p] = b.pos[q] => p = q
  BY DEF Stands, Board
<1>2. place \in Range(b.pos) <=> \E q \in Figures : b.pos[q] = place
  BY <1>1 DEF Range
<1>3. CASE \A q \in Figures : b.pos[q] # place
  BY <1>2, <1>3, NobodyIsNoFigure DEF At
<1>4. CASE \E q \in Figures : b.pos[q] = place
  <2>1. PICK q \in Figures : b.pos[q] = place
    BY <1>4
  <2>2. At(b, place) = CHOOSE r \in Figures : b.pos[r] = place
    BY <1>2, <1>4 DEF At
  <2>3. At(b, place) \in Figures /\ b.pos[At(b, place)] = place
    BY <2>1, <2>2
  <2> QED BY <1>1, <2>1, <2>3, NobodyIsNoFigure
<1> QED BY <1>3, <1>4

\* A figure goes to a free place of its own, and marks do not grow.
LEMMA PutStands ==
  ASSUME NEW b, Stands(b), NEW r \in Board, NEW q \in Figures, NEW place \in Own(q),
         r.pos = [b.pos EXCEPT ![q] = place],
         \A x \in Figures : x # q => b.pos[x] # place,
         Marks(r) \subseteq OnField(b), place \in Points \/ q \notin Marks(r)
  PROVE  Stands(r)
<1>1. b.pos \in [Figures -> Nat] /\ (\A x, y \in Figures : b.pos[x] = b.pos[y] => x = y)
      /\ (\A x \in Figures : b.pos[x] \in Own(x))
  BY DEF Stands, Board
<1>2. r.pos[q] = place /\ \A x \in Figures : x # q => r.pos[x] = b.pos[x]
  BY <1>1
<1>3. \A x, y \in Figures : r.pos[x] = r.pos[y] => x = y
  BY <1>1, <1>2
<1>4. \A x \in Figures : r.pos[x] \in Own(x)
  BY <1>1, <1>2
<1>5. Marks(r) \subseteq OnField(r)
  BY <1>2, FieldIs
<1> QED BY <1>3, <1>4, <1>5 DEF Stands

-----------------------------------------------------------------------------
\* Benches and places out of the game are each of one figure, a Center of a side.
LEMMA OwnPlaces ==
  ASSUME NEW b, Stands(b), NEW p \in Figures, NEW x \in Figures
  PROVE  /\ x # p => b.pos[x] # Bench(p) /\ b.pos[x] # Out(p)
         /\ b.pos[x] = Lower(p) \/ b.pos[x] = Upper(p) =>
              SameSide(p, x) /\ Lower(x) = Lower(p) /\ Upper(x) = Upper(p) /\ x \notin OnField(b)
<1>1. b.pos[x] \in Own(x)
  BY DEF Stands
<1>2. x # p => b.pos[x] # Bench(p) /\ b.pos[x] # Out(p)
  BY <1>1, Places DEF Own
<1>3. ASSUME b.pos[x] = Lower(p) \/ b.pos[x] = Upper(p)
      PROVE  SameSide(p, x) /\ Lower(x) = Lower(p) /\ Upper(x) = Upper(p) /\ x \notin OnField(b)
  <2>1. b.pos[x] \notin Points
    BY <1>3, Places
  <2>2. b.pos[x] # Bench(x) /\ b.pos[x] # Out(x)
    BY <1>3, Places
  <2>3. b.pos[x] = Lower(x) \/ b.pos[x] = Upper(x)
    BY <1>1, <2>1, <2>2 DEF Own
  <2>4. Lower(x) = Lower(p) \/ Upper(x) = Upper(p)
    BY <1>3, <2>3, Places
  <2> QED BY <2>1, <2>4, Places, Sides, FieldIs
<1> QED BY <1>2, <1>3

\* Whom a knockout of p makes room from, and what is then free.
LEMMA RoomIs ==
  ASSUME NEW b, Stands(b), NEW p \in Figures
  PROVE  /\ Sinking(b, p) \in Figures \cup {Nobody} /\ Released(b, p) \in Figures \cup {Nobody}
         /\ Sinking(b, p) = Nobody => Released(b, p) = Nobody
         /\ Sinking(b, p) # Nobody =>
              /\ p \notin b.cursed /\ b.pos[Sinking(b, p)] = Upper(p)
              /\ SameSide(p, Sinking(b, p)) /\ Sinking(b, p) \notin OnField(b)
              /\ Lower(p) \in Own(Sinking(b, p))
              /\ Released(b, p) = Nobody => \A x \in Figures : b.pos[x] # Lower(p)
         /\ Released(b, p) # Nobody =>
              /\ b.pos[Released(b, p)] = Lower(p)
              /\ SameSide(p, Released(b, p)) /\ Released(b, p) \notin OnField(b)
         /\ Sinking(b, p) = Nobody /\ p \notin b.cursed => \A x \in Figures : b.pos[x] # Upper(p)
<1>1. \A place : /\ At(b, place) \in Figures \cup {Nobody}
                 /\ At(b, place) = Nobody <=> \A q \in Figures : b.pos[q] # place
                 /\ \A q \in Figures : At(b, place) = q <=> b.pos[q] = place
  BY AtIs
<1>2. Sinking(b, p) \in Figures \cup {Nobody} /\ Released(b, p) \in Figures \cup {Nobody}
  BY <1>1 DEF Sinking, Released
<1>3. Sinking(b, p) = Nobody => Released(b, p) = Nobody
  BY DEF Released
<1>4. Sinking(b, p) = Nobody /\ p \notin b.cursed => \A x \in Figures : b.pos[x] # Upper(p)
  BY <1>1 DEF Sinking
<1>5. ASSUME Sinking(b, p) # Nobody
      PROVE  /\ p \notin b.cursed /\ b.pos[Sinking(b, p)] = Upper(p)
             /\ SameSide(p, Sinking(b, p)) /\ Sinking(b, p) \notin OnField(b)
             /\ Lower(p) \in Own(Sinking(b, p))
             /\ Released(b, p) = Nobody => \A x \in Figures : b.pos[x] # Lower(p)
  <2>1. p \notin b.cursed /\ Sinking(b, p) = At(b, Upper(p)) /\ Released(b, p) = At(b, Lower(p))
    BY <1>5 DEF Sinking, Released
  <2>2. Sinking(b, p) \in Figures /\ b.pos[Sinking(b, p)] = Upper(p)
    BY <1>1, <1>5, <2>1
  <2>3. SameSide(p, Sinking(b, p)) /\ Sinking(b, p) \notin OnField(b)
        /\ Lower(Sinking(b, p)) = Lower(p)
    BY <2>2, OwnPlaces
  <2>4. Released(b, p) = Nobody => \A x \in Figures : b.pos[x] # Lower(p)
    BY <1>1, <2>1
  <2> QED BY <2>1, <2>2, <2>3, <2>4 DEF Own
<1>6. ASSUME Released(b, p) # Nobody
      PROVE  /\ b.pos[Released(b, p)] = Lower(p)
             /\ SameSide(p, Released(b, p)) /\ Released(b, p) \notin OnField(b)
  <2>1. Released(b, p) = At(b, Lower(p))
    BY <1>6 DEF Released
  <2>2. Released(b, p) \in Figures /\ b.pos[Released(b, p)] = Lower(p)
    BY <1>1, <1>6, <2>1
  <2> QED BY <2>2, OwnPlaces
<1> QED BY <1>2, <1>3, <1>4, <1>5, <1>6

\* The lower figure goes to its bench.
LEMMA FreedIs ==
  ASSUME NEW b, Stands(b), NEW p \in Figures, Released(b, p) # Nobody
  PROVE  /\ Stands(Freed(b, p))
         /\ Freed(b, p).pos = [b.pos EXCEPT ![Released(b, p)] = Bench(Released(b, p))]
         /\ Freed(b, p).faint = b.faint /\ Freed(b, p).cursed = b.cursed
         /\ Freed(b, p).battled = b.battled
<1> DEFINE q == Released(b, p)
           r == Freed(b, p)
<1>1. q \in Figures /\ q \notin OnField(b)
  BY RoomIs
<1>2. q \notin Marks(b) /\ b \in Board
  BY <1>1 DEF Stands
<1>3. r = [[b EXCEPT !.faint = @ \ {q}, !.cursed = @ \ {q}, !.battled = @ \ {q}]
             EXCEPT !.pos[q] = Bench(q), !.wait[q] = IF q \in Immune THEN @ ELSE 2]
  BY DEF Freed, Cleared
<1> HIDE DEF q, r
<1>4. Bench(q) \in Nat /\ Bench(q) \in Own(q)
  BY <1>1, Places DEF Own
<1>5. /\ r \in Board /\ r.pos = [b.pos EXCEPT ![q] = Bench(q)]
      /\ r.faint = b.faint \ {q} /\ r.cursed = b.cursed \ {q} /\ r.battled = b.battled \ {q}
  BY <1>1, <1>2, <1>3, <1>4 DEF Board
<1>6. r.faint = b.faint /\ r.cursed = b.cursed /\ r.battled = b.battled
  BY <1>2, <1>5 DEF Marks
<1>7. Marks(r) = Marks(b)
  BY <1>6 DEF Marks
<1>8. \A x \in Figures : x # q => b.pos[x] # Bench(q)
  BY <1>1, OwnPlaces
<1>9. Stands(r)
  BY <1>1, <1>2, <1>4, <1>5, <1>7, <1>8, PutStands DEF Stands
<1> QED BY <1>5, <1>6, <1>9 DEF q, r

\* The upper figure goes down.
LEMMA SunkIs ==
  ASSUME NEW b, Stands(b), NEW p \in Figures, Sinking(b, p) # Nobody, Released(b, p) = Nobody
  PROVE  /\ Stands(Sunk(b, p))
         /\ Sunk(b, p).pos = [b.pos EXCEPT ![Sinking(b, p)] = Lower(p)]
         /\ Sunk(b, p).faint = b.faint /\ Sunk(b, p).cursed = b.cursed
         /\ Sunk(b, p).battled = b.battled
<1> DEFINE s == Sinking(b, p)
           r == Sunk(b, p)
<1>1. /\ s \in Figures /\ s \notin OnField(b) /\ Lower(p) \in Own(s)
      /\ \A x \in Figures : b.pos[x] # Lower(p)
  BY RoomIs
<1>2. s \notin Marks(b) /\ b \in Board
  BY <1>1 DEF Stands
<1>3. r = [b EXCEPT !.pos[s] = Lower(p)]
  BY DEF Sunk
<1> HIDE DEF s, r
<1>4. Lower(p) \in Nat
  BY Places
<1>5. /\ r \in Board /\ r.pos = [b.pos EXCEPT ![s] = Lower(p)]
      /\ r.faint = b.faint /\ r.cursed = b.cursed /\ r.battled = b.battled
  BY <1>1, <1>2, <1>3, <1>4 DEF Board
<1>6. Marks(r) = Marks(b)
  BY <1>5 DEF Marks
<1>7. Stands(r)
  BY <1>1, <1>2, <1>5, <1>6, PutStands DEF Stands
<1> QED BY <1>5, <1>7 DEF s, r

\* p leaves the field for a free place: above in its Center, or out of the game.
Entered(b, p, place) == [Cleared(b, p) EXCEPT !.pos[p] = place]
Gone(b, p, place) == [Cleared(b, p) EXCEPT !.pos[p] = place, !.wait[p] = 0]

LEMMA LeftIs ==
  ASSUME NEW b, Stands(b), NEW p \in Figures, NEW r, NEW place \in {Upper(p), Out(p)},
         \A x \in Figures : b.pos[x] # place,
         r = Entered(b, p, place) \/ r = Gone(b, p, place)
  PROVE  /\ Stands(r) /\ r.pos = [b.pos EXCEPT ![p] = place]
         /\ r.faint = b.faint \ {p} /\ r.cursed = b.cursed \ {p}
<1>1. b \in Board /\ place \in Nat /\ place \in Own(p)
  BY Places DEF Stands, Own
<1> DEFINE c == Cleared(b, p)
<1>2. /\ c \in Board /\ c.pos = b.pos
      /\ c.faint = b.faint \ {p} /\ c.cursed = b.cursed \ {p} /\ c.battled = b.battled \ {p}
  BY <1>1 DEF Board, Cleared
<1> HIDE DEF c
<1>3. r = [c EXCEPT !.pos[p] = place] \/ r = [c EXCEPT !.pos[p] = place, !.wait[p] = 0]
  BY DEF c, Entered, Gone
<1>4. /\ r \in Board /\ r.pos = [b.pos EXCEPT ![p] = place]
      /\ r.faint = b.faint \ {p} /\ r.cursed = b.cursed \ {p} /\ r.battled = b.battled \ {p}
  <2>1. r.pos = [c.pos EXCEPT ![p] = place] /\ r.faint = c.faint /\ r.cursed = c.cursed
        /\ r.battled = c.battled
    BY <1>2, <1>3 DEF Board
  <2>2. r \in Board
    <3>1. CASE r = [c EXCEPT !.pos[p] = place]
      BY <1>1, <1>2, <3>1 DEF Board
    <3>2. CASE r = [c EXCEPT !.pos[p] = place, !.wait[p] = 0]
      BY <1>1, <1>2, <3>2 DEF Board
    <3> QED BY <1>3, <3>1, <3>2
  <2> QED BY <1>2, <2>1, <2>2
<1>5. Marks(r) = Marks(b) \ {p} /\ Marks(b) \subseteq OnField(b)
  BY <1>4 DEF Marks, Stands
<1>6. Stands(r)
  BY <1>1, <1>4, <1>5, PutStands
<1> QED BY <1>4, <1>6

LEMMA EnteredIs ==
  ASSUME NEW b, Stands(b), NEW p \in Figures, \A x \in Figures : b.pos[x] # Upper(p)
  PROVE  /\ Stands(Entered(b, p, Upper(p)))
         /\ Entered(b, p, Upper(p)).pos = [b.pos EXCEPT ![p] = Upper(p)]
         /\ Entered(b, p, Upper(p)).faint = b.faint \ {p}
         /\ Entered(b, p, Upper(p)).cursed = b.cursed \ {p}
<1> DEFINE r == Entered(b, p, Upper(p))
<1>1. /\ Stands(r) /\ r.pos = [b.pos EXCEPT ![p] = Upper(p)]
      /\ r.faint = b.faint \ {p} /\ r.cursed = b.cursed \ {p}
  BY LeftIs
<1> QED BY <1>1

\* A figure in the Center belongs to that side.
LEMMA GapingIs ==
  ASSUME NEW b, Stands(b), NEW r, Stands(r), NEW p \in Figures,
         \A x \in Figures : SameSide(p, x) => r.pos[x] = b.pos[x]
  PROVE  Gaping(r, p) => Gaping(b, p)
<1> SUFFICES ASSUME Gaping(r, p) PROVE Gaping(b, p)
  OBVIOUS
<1>1. PICK q \in Figures : r.pos[q] = Lower(p)
  BY DEF Gaping
<1>2. b.pos[q] = Lower(p)
  BY <1>1, OwnPlaces
<1>3. ASSUME NEW x \in Figures, b.pos[x] = Upper(p) PROVE FALSE
  <2>1. r.pos[x] = Upper(p)
    BY <1>3, OwnPlaces
  <2> QED BY <2>1 DEF Gaping
<1> QED BY <1>2, <1>3 DEF Gaping

\* p leaves the field, and the others that stand there stay.  Where p was to
\* close its Center it has, and where another figure was it still is to.
LEMMA RelocatedIs ==
  ASSUME NEW b, Stands(b), NEW p \in OnField(b)
  PROVE  /\ Stands(Relocated(b, p)) /\ Fits(b, p)
         /\ Relocated(b, p).faint = b.faint \ {p} /\ Relocated(b, p).cursed = b.cursed \ {p}
         /\ OnField(Relocated(b, p)) = OnField(b) \ {p}
         /\ \A left : Filling(b, left) => Filling(Relocated(b, p), left \ {p})
<1> DEFINE r == Relocated(b, p)
           s == Sinking(b, p)
           q == Released(b, p)
<1>1. p \in Figures /\ b.pos[p] \in Points
  BY FieldIs
<1>2. Fits(b, p)
  <2>1. \A x \in Figures : b.pos[x] # Out(p)
    BY <1>1, OwnPlaces, Places
  <2>2. q # Nobody => \A x \in Figures : b.pos[x] # Bench(q)
    <3> SUFFICES ASSUME q # Nobody, NEW x \in Figures PROVE b.pos[x] # Bench(q)
      OBVIOUS
    <3>1. q \in Figures /\ b.pos[q] = Lower(p)
      BY <1>1, RoomIs
    <3> QED BY <1>1, <3>1, OwnPlaces, Places
  <2> QED BY <2>1, <2>2, AtIs DEF Fits
<1>3. CASE p \in b.cursed
  <2>1. r = Gone(b, p, Out(p))
    BY <1>3 DEF Relocated, Gone
  <2>2. \A x \in Figures : b.pos[x] # Out(p)
    BY <1>1, OwnPlaces, Places
  <2>3. /\ Stands(r) /\ r.pos = [b.pos EXCEPT ![p] = Out(p)]
        /\ r.faint = b.faint \ {p} /\ r.cursed = b.cursed \ {p}
    BY <1>1, <2>1, <2>2, LeftIs
  <2>4. r.pos[p] = Out(p) /\ \A x \in Figures : x # p => r.pos[x] = b.pos[x]
    BY <1>1, <2>3 DEF Stands, Board
  <2> HIDE DEF r
  <2>5. \A x : x \in OnField(r) <=> x \in OnField(b) \ {p}
    BY <1>1, <2>4, Places, FieldIs
  <2>6. ASSUME NEW left, Filling(b, left), NEW a \in Figures, Gaping(r, a)
        PROVE  \E x \in left \ {p} : SameSide(a, x) /\ x \notin r.cursed
    <3>1. Gaping(b, a)
      <4>1. Out(p) # Lower(a) /\ b.pos[p] # Upper(a)
        BY <1>1, Places
      <4> QED BY <2>4, <2>6, <4>1 DEF Gaping
    <3> QED BY <1>3, <2>3, <2>6, <3>1 DEF Filling
  <2> QED BY <1>2, <2>3, <2>5, <2>6 DEF r, Filling
<1>4. CASE p \notin b.cursed
  <2> DEFINE f == Freed(b, p)
             c == Sunk(f, p)
  <2>1. /\ Stands(f) /\ f.faint = b.faint /\ f.cursed = b.cursed
        /\ \A x \in Figures : f.pos[x] = IF x = q THEN Bench(q) ELSE b.pos[x]
    <3>1. CASE q = Nobody
      BY <3>1, NobodyIsNoFigure DEF Freed
    <3>2. CASE q # Nobody
      <4>1. /\ Stands(f) /\ f.pos = [b.pos EXCEPT ![q] = Bench(q)]
            /\ f.faint = b.faint /\ f.cursed = b.cursed
        BY <1>1, <3>2, FreedIs
      <4>2. b.pos \in [Figures -> Nat]
        BY DEF Stands, Board
      <4> HIDE DEF f, q
      <4> QED BY <4>1, <4>2
    <3> QED BY <3>1, <3>2
  <2>2. \A x \in Figures : f.pos[x] = Upper(p) <=> b.pos[x] = Upper(p)
    <3>1. ASSUME q # Nobody PROVE Bench(q) # Upper(p) /\ b.pos[q] # Upper(p)
      <4>1. q \in Figures /\ b.pos[q] = Lower(p)
        BY <1>1, <3>1, RoomIs
      <4> QED BY <1>1, <4>1, Places
    <3> QED BY <2>1, <3>1, NobodyIsNoFigure
  <2>3. Sinking(f, p) = s
    <3>1. Sinking(f, p) = At(f, Upper(p)) /\ s = At(b, Upper(p))
      BY <1>4, <2>1 DEF Sinking
    <3> HIDE DEF f, s
    <3>2. CASE \A x \in Figures : b.pos[x] # Upper(p)
      BY <2>1, <2>2, <3>1, <3>2, AtIs
    <3>3. CASE \E x \in Figures : b.pos[x] = Upper(p)
      BY <2>1, <2>2, <3>1, <3>3, AtIs
    <3> QED BY <3>2, <3>3
  <2>4. s # Nobody => \A x \in Figures : f.pos[x] # Lower(p)
    <3>1. CASE q = Nobody
      BY <1>1, <2>1, <3>1, RoomIs, NobodyIsNoFigure
    <3>2. CASE q # Nobody
      <4>1. q \in Figures /\ b.pos[q] = Lower(p) /\ Bench(q) # Lower(p)
        BY <1>1, <3>2, RoomIs, Places
      <4>2. \A x \in Figures : x # q => b.pos[x] # Lower(p)
        BY <4>1 DEF Stands
      <4> QED BY <2>1, <4>1, <4>2
    <3> QED BY <3>1, <3>2
  <2>5. s # Nobody => Released(f, p) = Nobody
    BY <2>1, <2>3, <2>4, AtIs DEF Released
  <2>6. /\ Stands(c) /\ c.faint = b.faint /\ c.cursed = b.cursed
        /\ \A x \in Figures : c.pos[x] = IF x = s THEN Lower(p) ELSE f.pos[x]
    <3>1. CASE s = Nobody
      BY <2>1, <2>3, <3>1, NobodyIsNoFigure DEF Sunk
    <3>2. CASE s # Nobody
      <4>1. /\ Stands(c) /\ c.pos = [f.pos EXCEPT ![s] = Lower(p)]
            /\ c.faint = b.faint /\ c.cursed = b.cursed
        BY <1>1, <2>1, <2>3, <2>5, <3>2, SunkIs
      <4> QED BY <2>1, <4>1 DEF Stands, Board
    <3> QED BY <3>1, <3>2
  <2>7. r = Entered(c, p, Upper(p))
    BY <1>4 DEF Relocated, Entered
  <2> HIDE DEF r, c, f
  <2>8. \A x \in Figures : c.pos[x] # Upper(p)
    <3>1. CASE s = Nobody
      BY <1>1, <1>4, <2>2, <2>6, <3>1, RoomIs, NobodyIsNoFigure
    <3>2. CASE s # Nobody
      <4>1. s \in Figures /\ b.pos[s] = Upper(p) /\ Lower(p) # Upper(p)
        BY <1>1, <3>2, RoomIs, Places
      <4>2. \A x \in Figures : x # s => b.pos[x] # Upper(p)
        BY <4>1 DEF Stands
      <4> QED BY <2>2, <2>6, <4>1, <4>2
    <3> QED BY <3>1, <3>2
  <2>9. /\ Stands(r) /\ r.pos = [c.pos EXCEPT ![p] = Upper(p)]
        /\ r.faint = b.faint \ {p} /\ r.cursed = b.cursed \ {p}
    <3>1. Stands(c) /\ c.faint = b.faint /\ c.cursed = b.cursed /\ Upper(p) \in {Upper(p), Out(p)}
      BY <2>6
    <3>2. /\ Stands(r) /\ r.pos = [c.pos EXCEPT ![p] = Upper(p)]
          /\ r.faint = c.faint \ {p} /\ r.cursed = c.cursed \ {p}
      BY <1>1, <2>7, <2>8, <3>1, EnteredIs
    <3> QED BY <3>1, <3>2
  <2>10. r.pos[p] = Upper(p) /\ \A x \in Figures : x # p => r.pos[x] = c.pos[x]
    BY <1>1, <2>6, <2>9 DEF Stands, Board
  <2>11. \A x \in Figures : x # p /\ x # s /\ x # q => r.pos[x] = b.pos[x]
    BY <2>1, <2>6, <2>10
  <2>12. \A x \in {s, q} \ {Nobody} : /\ x \in Figures /\ x # p /\ SameSide(p, x) /\ x \notin OnField(b)
                                      /\ r.pos[x] \notin Points
    <3>1. \A x \in {s, q} \ {Nobody} : x \in Figures /\ SameSide(p, x) /\ x \notin OnField(b)
      BY <1>1, RoomIs
    <3>2. \A x \in {s, q} \ {Nobody} : r.pos[x] \in {Lower(p), Bench(x)}
      BY <2>1, <2>6, <2>10, <3>1
    <3> QED BY <1>1, <3>1, <3>2, Places
  <2>13. \A x : x \in OnField(r) <=> x \in OnField(b) \ {p}
    BY <1>1, <2>10, <2>11, <2>12, Places, FieldIs, NobodyIsNoFigure
  <2>14. ASSUME NEW left, Filling(b, left), NEW a \in Figures, Gaping(r, a)
         PROVE  \E x \in left \ {p} : SameSide(a, x) /\ x \notin r.cursed
    <3>1. ~SameSide(p, a)
      BY <1>1, <2>10, <2>14, Places DEF Gaping
    <3>2. \A x \in Figures : SameSide(a, x) => x # p /\ x # s /\ x # q
      BY <1>1, <2>12, <3>1, Sides, NobodyIsNoFigure
    <3>3. Gaping(b, a)
      BY <2>9, <2>11, <2>14, <3>2, GapingIs
    <3>4. PICK x \in left : SameSide(a, x) /\ x \notin b.cursed
      BY <2>14, <3>3 DEF Filling
    <3>5. x # p
      BY <1>1, <3>1, <3>4, Sides
    <3> QED BY <2>9, <3>4, <3>5
  <2> QED BY <1>2, <2>9, <2>13, <2>14 DEF r, Filling
<1> QED BY <1>3, <1>4

\* Room is made for p, who will close the Center it opens.
LEMMA MadeRoomIs ==
  ASSUME NEW b, Stands(b), NEW p \in Figures, NEW left \in SUBSET Figures, p \in left, Filling(b, left)
  PROVE  /\ Stands(MadeRoom(b, p)) /\ Filling(MadeRoom(b, p), left)
         /\ MadeRoom(b, p).faint = b.faint
<1> DEFINE r == MadeRoom(b, p)
           s == Sinking(b, p)
           q == Released(b, p)
<1>1. CASE q # Nobody
  <2>1. /\ Stands(r) /\ r.pos = [b.pos EXCEPT ![q] = Bench(q)] /\ q \in Figures
        /\ r.faint = b.faint /\ r.cursed = b.cursed
    BY <1>1, FreedIs, RoomIs DEF MadeRoom
  <2>2. r.pos[q] = Bench(q) /\ \A x \in Figures : x # q => r.pos[x] = b.pos[x]
    BY <2>1 DEF Stands, Board
  <2> HIDE DEF r
  <2>3. ASSUME NEW a \in Figures, Gaping(r, a) PROVE Gaping(b, a)
    <3>1. Bench(q) # Lower(a) /\ Bench(q) # Upper(a) /\ b.pos[q] = Lower(p) /\ Lower(p) # Upper(a)
      BY <1>1, <2>1, RoomIs, Places
    <3> QED BY <2>1, <2>2, <2>3, <3>1 DEF Gaping
  <2> QED BY <2>1, <2>3 DEF r, Filling
<1>2. CASE q = Nobody /\ s = Nobody
  BY <1>2 DEF MadeRoom, Sunk
<1>3. CASE q = Nobody /\ s # Nobody
  <2>1. /\ Stands(r) /\ r.pos = [b.pos EXCEPT ![s] = Lower(p)] /\ s \in Figures
        /\ r.faint = b.faint /\ r.cursed = b.cursed /\ p \notin b.cursed /\ SameSide(p, s)
    BY <1>3, SunkIs, RoomIs DEF MadeRoom
  <2>2. \A x \in Figures : x # s => r.pos[x] = b.pos[x]
    BY <2>1 DEF Stands, Board
  <2> HIDE DEF r
  <2>3. ASSUME NEW a \in Figures, Gaping(r, a)
        PROVE  \E x \in left : SameSide(a, x) /\ x \notin r.cursed
    <3>1. CASE SameSide(a, p)
      BY <2>1, <3>1
    <3>2. CASE ~SameSide(a, p)
      <4>1. \A x \in Figures : SameSide(a, x) => x # s
        BY <2>1, <3>2, Sides
      <4>2. Gaping(b, a)
        BY <2>1, <2>2, <2>3, <4>1, GapingIs
      <4> QED BY <2>1, <4>2 DEF Filling
    <3> QED BY <3>1, <3>2
  <2> QED BY <2>1, <2>3 DEF r, Filling
<1> QED BY <1>1, <1>2, <1>3

-----------------------------------------------------------------------------
LEMMA LeastMember ==
  ASSUME NEW T \in SUBSET Nat, T # {}
  PROVE  \E n \in T : \A m \in T : n <= m
<1> DEFINE R == OpToRel(<, Nat)
<1>1. IsWellFoundedOn(R, Nat)
  BY NatLessThanWellFounded, Zenon
<1>2. \A x, y \in Nat : <<y, x>> \notin R => x <= y
  BY DEF OpToRel
<1> HIDE DEF R
<1>3. \E x \in T : \A y \in T : <<y, x>> \notin R
  BY <1>1, WFMin, Zenon
<1> QED BY <1>2, <1>3

\* The boards after each step: there is a function that follows the recursion.
LEMMA BoardsFollow ==
  ASSUME NEW b, NEW targets \in Seq(Figures)
  PROVE  /\ Boards(b, targets)[0] = b
         /\ \A n \in 1..Len(targets) :
              Boards(b, targets)[n] = Relocated(Boards(b, targets)[n - 1], targets[n])
<1> DEFINE Follows(g, m) == g = [n \in 0..m |-> IF n = 0 THEN b ELSE Relocated(g[n - 1], targets[n])]
           Wrong == {m \in Nat : ~\E g : Follows(g, m)}
<1>1. ASSUME NEW m \in Nat, m \in Wrong, \A n \in Wrong : m <= n PROVE FALSE
  <2>1. CASE m = 0
    <3> DEFINE g == [n \in 0..0 |-> b]
    <3>1. \A n \in 0..0 : n = 0
      OBVIOUS
    <3>2. Follows(g, 0)
      BY <3>1
    <3> QED BY <1>1, <2>1, <3>2
  <2>2. CASE m # 0
    <3>1. m - 1 \in Nat /\ m - 1 \notin Wrong
      BY <1>1, <2>2
    <3>2. PICK h : Follows(h, m - 1)
      BY <3>1
    <3> DEFINE g == [n \in 0..m |-> IF n = m THEN Relocated(h[m - 1], targets[m]) ELSE h[n]]
    <3>3. \A n \in 0..m : g[n] = IF n = 0 THEN b ELSE Relocated(g[n - 1], targets[n])
      <4> SUFFICES ASSUME NEW n \in 0..m PROVE g[n] = IF n = 0 THEN b ELSE Relocated(g[n - 1], targets[n])
        OBVIOUS
      <4>1. CASE n = m
        <5>1. n - 1 \in 0..m /\ n - 1 # m /\ n # 0
          BY <2>2, <4>1
        <5> QED BY <4>1, <5>1
      <4>2. CASE n # m
        <5>1. n \in 0..(m - 1) /\ (n # 0 => n - 1 \in 0..m /\ n - 1 # m)
          BY <4>2
        <5>2. h[n] = IF n = 0 THEN b ELSE Relocated(h[n - 1], targets[n])
          BY <3>2, <5>1
        <5> QED BY <4>2, <5>1, <5>2
      <4> QED BY <4>1, <4>2
    <3>4. Follows(g, m)
      BY <3>3
    <3> QED BY <1>1, <3>4
  <2> QED BY <2>1, <2>2
<1>2. Len(targets) \in Nat /\ Wrong = {}
  <2>1. Wrong \in SUBSET Nat
    OBVIOUS
  <2> HIDE DEF Wrong
  <2>2. Wrong = {}
    BY <1>1, <2>1, LeastMember
  <2> QED BY <2>2
<1>3. \E g : Follows(g, Len(targets))
  BY <1>2
<1>4. Follows(CHOOSE g : Follows(g, Len(targets)), Len(targets))
  BY <1>3, Zenon
<1>5. Boards(b, targets) = CHOOSE g : Follows(g, Len(targets))
  BY Zenon DEF Boards
<1>6. Follows(Boards(b, targets), Len(targets))
  BY <1>4, <1>5
<1> DEFINE f == Boards(b, targets)
<1>7. f = [n \in 0..Len(targets) |-> IF n = 0 THEN b ELSE Relocated(f[n - 1], targets[n])]
  BY <1>6
<1> HIDE DEF f
<1>8. \A n \in 0..Len(targets) : f[n] = IF n = 0 THEN b ELSE Relocated(f[n - 1], targets[n])
  BY <1>7
<1>9. 0 \in 0..Len(targets) /\ \A n \in 1..Len(targets) : n \in 0..Len(targets) /\ n # 0
  BY <1>2
<1> QED BY <1>8, <1>9 DEF f

\* A list of some figures, each of them once.
Enumerates(targets, set) == /\ targets \in Seq(Figures)
                            /\ \A p : p \in set <=> \E i \in 1..Len(targets) : targets[i] = p
                            /\ \A i, j \in 1..Len(targets) : targets[i] = targets[j] => i = j

Increasing(t, set) == /\ t \in [1..Cardinality(set) -> set]
                      /\ \A i, j \in DOMAIN t : i < j => t[i] < t[j]

\* Any figures can be put in the order of their numbers.
LEMMA IncreasingExists ==
  ASSUME NEW n \in Nat, NEW set \in SUBSET (0..(n - 1))
  PROVE  IsFiniteSet(set) /\ \E t : Increasing(t, set)
<1> DEFINE Fails(m) == \E S \in SUBSET (0..(m - 1)) : ~\E t : Increasing(t, S)
           Wrong == {m \in Nat : Fails(m)}
<1>1. \A m \in Nat : \A S \in SUBSET (0..(m - 1)) : IsFiniteSet(S)
  <2> SUFFICES ASSUME NEW m \in Nat, NEW S \in SUBSET (0..(m - 1)) PROVE IsFiniteSet(S)
    OBVIOUS
  <2>1. IsFiniteSet(0..(m - 1))
    BY FS_Interval
  <2> QED BY <2>1, FS_Subset
<1>2. ASSUME NEW m \in Nat, m \in Wrong, \A k \in Wrong : m <= k PROVE FALSE
  <2>1. PICK S \in SUBSET (0..(m - 1)) : ~\E t : Increasing(t, S)
    BY <1>2
  <2>2. IsFiniteSet(S)
    BY <1>1
  <2>3. CASE m = 0
    <3>1. S = {}
      BY <2>3
    <3>2. Cardinality(S) = 0
      BY <3>1, FS_EmptySet
    <3> DEFINE t == [i \in 1..0 |-> 0]
    <3>3. Increasing(t, S)
      BY <3>1, <3>2 DEF Increasing
    <3> QED BY <2>1, <3>3
  <2>4. CASE m # 0
    <3> DEFINE R == S \ {m - 1}
               c == Cardinality(R)
    <3>1. m - 1 \in Nat /\ R \in SUBSET (0..((m - 1) - 1))
      <4>1. \A k \in 0..(m - 1) : k # m - 1 => k \in 0..((m - 1) - 1)
        BY <2>4
      <4> QED BY <2>4, <4>1
    <3>2. PICK h : Increasing(h, R)
      <4>1. m - 1 \notin Wrong
        <5> HIDE DEF Wrong
        <5>1. m - 1 < m
          BY <3>1
        <5> QED BY <1>2, <3>1, <5>1
      <4>2. ~Fails(m - 1)
        BY <3>1, <4>1
      <4> HIDE DEF R
      <4> QED BY <3>1, <4>2
    <3>3. m - 1 \in S
      <4>1. m - 1 \notin S => R = S
        OBVIOUS
      <4> QED BY <2>1, <3>2, <4>1
    <3>4. IsFiniteSet(R) /\ Cardinality(R) = Cardinality(S) - 1
      BY <2>2, <3>3, FS_RemoveElement
    <3>5. c \in Nat /\ Cardinality(S) \in Nat /\ Cardinality(S) = c + 1
      BY <2>2, <3>4, FS_CardinalityType
    <3>6. \A r \in R : r \in Nat /\ r < m - 1
      BY <3>1
    <3> HIDE DEF c, R
    <3>7. h \in [1..c -> R] /\ \A i, j \in 1..c : i < j => h[i] < h[j]
      BY <3>2 DEF Increasing, c
    <3> DEFINE t == [i \in 1..(c + 1) |-> IF i = c + 1 THEN m - 1 ELSE h[i]]
    <3>8. t \in [1..(c + 1) -> S]
      <4>1. \A i \in 1..(c + 1) : i # c + 1 => i \in 1..c /\ h[i] \in S
        BY <3>5, <3>7 DEF R
      <4> QED BY <3>3, <4>1
    <3>9. \A i, j \in 1..(c + 1) : i < j => t[i] < t[j]
      <4> SUFFICES ASSUME NEW i \in 1..(c + 1), NEW j \in 1..(c + 1), i < j PROVE t[i] < t[j]
        OBVIOUS
      <4>1. i \in 1..c /\ t[i] = h[i] /\ h[i] \in R
        BY <3>5, <3>7
      <4>2. CASE j = c + 1
        BY <3>6, <4>1, <4>2
      <4>3. CASE j # c + 1
        <5>1. j \in 1..c /\ t[j] = h[j]
          BY <3>5, <4>3
        <5> QED BY <3>7, <4>1, <5>1
      <4> QED BY <4>2, <4>3
    <3>10. Increasing(t, S)
      BY <3>5, <3>8, <3>9 DEF Increasing
    <3> QED BY <2>1, <3>10
  <2> QED BY <2>3, <2>4
<1>3. Wrong = {}
  <2>1. Wrong \in SUBSET Nat
    OBVIOUS
  <2> HIDE DEF Wrong
  <2> QED BY <1>2, <2>1, LeastMember
<1>4. \E t : Increasing(t, set)
  BY <1>3
<1> QED BY <1>1, <1>4

LEMMA InOrderIs ==
  ASSUME NEW set \in SUBSET Figures
  PROVE  Enumerates(InOrder(set), set) /\ IsFiniteSet(set) /\ Len(InOrder(set)) = Cardinality(set)
<1> DEFINE t == InOrder(set)
           c == Cardinality(set)
<1>1. Blacks + Whites \in Nat /\ set \in SUBSET (0..((Blacks + Whites) - 1)) /\ set \subseteq Nat
  BY BoardAssumption DEF Figures
<1>2. IsFiniteSet(set) /\ \E u : Increasing(u, set)
  BY <1>1, IncreasingExists
<1>3. t = CHOOSE u \in [1..c -> set] : \A i, j \in DOMAIN u : i < j => u[i] < u[j]
  BY Zenon DEF InOrder
<1>4. t \in [1..c -> set] /\ \A i, j \in DOMAIN t : i < j => t[i] < t[j]
  BY <1>2, <1>3, Zenon DEF Increasing
<1>5. c \in Nat
  BY <1>2, FS_CardinalityType
<1> HIDE DEF t, c
<1>6. Len(t) = c /\ t \in Seq(set) /\ t \in Seq(Figures)
  BY <1>4, <1>5
<1>7. \A i, j \in 1..c : t[i] = t[j] => i = j
  <2> SUFFICES ASSUME NEW i \in 1..c, NEW j \in 1..c, t[i] = t[j], i # j PROVE FALSE
    OBVIOUS
  <2>1. i < j \/ j < i
    BY <1>5
  <2>2. t[i] < t[j] \/ t[j] < t[i]
    BY <1>4, <2>1
  <2>3. t[i] \in Nat /\ t[j] \in Nat
    BY <1>1, <1>4
  <2> QED BY <2>2, <2>3
<1>8. t \in Injection(1..c, set)
  BY <1>4, <1>7 DEF Injection, IsInjective
<1>9. Cardinality(1..c) = c
  BY <1>5, FS_Interval
<1>10. t \in Surjection(1..c, set)
  BY <1>2, <1>8, <1>9, FS_Injection, Zenon DEF c
<1>11. \A p : p \in set <=> \E i \in 1..c : t[i] = p
  BY <1>4, <1>10 DEF Surjection
<1> QED BY <1>2, <1>6, <1>7, <1>11 DEF Enumerates, t, c

\* What is left after the first n steps, f the boards between them.
StandsAfter(b, targets, f, n) ==
  LET gone == {targets[i] : i \in 1..n}
  IN /\ Stands(f[n]) /\ OnField(f[n]) = OnField(b) \ gone
     /\ f[n].faint = b.faint \ gone /\ f[n].cursed = b.cursed \ gone
     /\ \A left : Filling(b, left) => Filling(f[n], left \ gone)

\* Those who leave stand on the field until their step, and it always fits.
LEMMA BoardsStand ==
  ASSUME NEW b, Stands(b), NEW set \in SUBSET OnField(b), NEW targets, Enumerates(targets, set),
         NEW n \in 0..Len(targets)
  PROVE  StandsAfter(b, targets, Boards(b, targets), n)
<1> DEFINE gone(m) == {targets[i] : i \in 1..m}
           f == Boards(b, targets)
           Good(m) == /\ Stands(f[m]) /\ OnField(f[m]) = OnField(b) \ gone(m)
                      /\ f[m].faint = b.faint \ gone(m) /\ f[m].cursed = b.cursed \ gone(m)
                      /\ \A left : Filling(b, left) => Filling(f[m], left \ gone(m))
           Wrong == {m \in Nat : m \in 0..Len(targets) /\ ~Good(m)}
<1>1. targets \in Seq(Figures) /\ Len(targets) \in Nat
  BY DEF Enumerates
<1>2. f[0] = b /\ \A m \in 1..Len(targets) : f[m] = Relocated(f[m - 1], targets[m])
  BY <1>1, BoardsFollow
<1> HIDE DEF f
<1>3. Good(0)
  <2>1. gone(0) = {}
    OBVIOUS
  <2>2. \A left : left \ {} = left
    OBVIOUS
  <2> HIDE DEF gone
  <2> QED BY <1>2, <2>1, <2>2
<1>4. ASSUME NEW m \in Wrong, \A k \in Wrong : m <= k PROVE FALSE
  <2>1. m \in 1..Len(targets) /\ m - 1 \in 0..Len(targets) /\ m - 1 \in Nat /\ m - 1 < m
    <3>1. m # 0
      BY <1>3
    <3> QED BY <1>1, <3>1
  <2>2. Good(m - 1)
    <3> HIDE DEF Good
    <3>1. m - 1 \notin Wrong
      <4> HIDE DEF Wrong
      <4>1. m \in Nat
        BY DEF Wrong
      <4> QED BY <1>4, <2>1, <4>1
    <3> QED BY <2>1, <3>1
  <2> DEFINE p == targets[m]
             c == f[m - 1]
             r == f[m]
  <2>3. p \in OnField(b) /\ p \notin gone(m - 1)
    <3>1. p \in OnField(b)
      BY <2>1 DEF Enumerates
    <3>2. \A i \in 1..(m - 1) : i \in 1..Len(targets) /\ i # m
      BY <1>1, <2>1
    <3> QED BY <2>1, <3>1, <3>2 DEF Enumerates
  <2>4. gone(m) = gone(m - 1) \cup {p}
    <3>1. \A i : i \in 1..m <=> i \in 1..(m - 1) \/ i = m
      BY <2>1
    <3> QED BY <3>1
  <2> HIDE DEF p, gone
  <2>5. Stands(c) /\ p \in OnField(c)
    BY <2>2, <2>3
  <2>6. r = Relocated(c, p)
    BY <1>2, <2>1 DEF p
  <2>7. /\ Stands(r) /\ r.faint = c.faint \ {p} /\ OnField(r) = OnField(c) \ {p}
        /\ r.cursed = c.cursed \ {p}
        /\ \A left : Filling(c, left) => Filling(r, left \ {p})
    BY <2>5, <2>6, RelocatedIs
  <2>8. \A left : left \ gone(m) = (left \ gone(m - 1)) \ {p}
    BY <2>4
  <2>9. OnField(r) = OnField(b) \ gone(m) /\ r.faint = b.faint \ gone(m)
        /\ r.cursed = b.cursed \ gone(m)
    BY <2>2, <2>7, <2>8
  <2>10. ASSUME NEW left, Filling(b, left) PROVE Filling(r, left \ gone(m))
    <3>1. Filling(c, left \ gone(m - 1))
      BY <2>2, <2>10
    <3> QED BY <2>7, <2>8, <3>1
  <2>11. Good(m)
    BY <2>7, <2>9, <2>10
  <2> QED BY <2>11
<1>5. Wrong = {}
  <2>1. Wrong \in SUBSET Nat
    OBVIOUS
  <2> HIDE DEF Wrong
  <2> QED BY <1>4, <2>1, LeastMember
<1>6. Good(n)
  <2> HIDE DEF Good
  <2> QED BY <1>1, <1>5
<1> QED BY <1>6 DEF f, StandsAfter

\* Once all who are faint have left, the board is settled.
LEMMA BatchSettles ==
  ASSUME NEW b, Stands(b), NEW targets, Enumerates(targets, b.faint), Filling(b, b.faint)
  PROVE  /\ Plannable(b, targets) /\ Settled(Batch(b, targets))
         /\ OnField(Batch(b, targets)) = OnField(b) \ b.faint
<1> DEFINE gone(m) == {targets[i] : i \in 1..m}
           f == Boards(b, targets)
<1>1. targets \in Seq(Figures) /\ Len(targets) \in Nat
  BY DEF Enumerates
<1>2. b.faint \in SUBSET OnField(b)
  BY DEF Stands, Marks
<1>3. \A m \in 0..Len(targets) :
         /\ Stands(f[m]) /\ OnField(f[m]) = OnField(b) \ gone(m)
         /\ f[m].faint = b.faint \ gone(m)
         /\ \A left : Filling(b, left) => Filling(f[m], left \ gone(m))
  <2> DEFINE set == b.faint
  <2>1. set \in SUBSET OnField(b) /\ Enumerates(targets, set)
    BY <1>2
  <2> HIDE DEF set
  <2>2. \A m \in 0..Len(targets) : StandsAfter(b, targets, f, m)
    BY <2>1, BoardsStand
  <2> HIDE DEF f
  <2> QED BY <2>2 DEF StandsAfter
<1>4. gone(Len(targets)) = b.faint
  BY DEF Enumerates
<1>5. Batch(b, targets) = f[Len(targets)]
  BY DEF Batch
<1>6. ASSUME NEW m \in 1..Len(targets)
      PROVE  /\ IsInjective(f[m - 1].pos)
             /\ targets[m] \in OnField(f[m - 1]) \cap f[m - 1].faint /\ Fits(f[m - 1], targets[m])
  <2>1. m - 1 \in 0..Len(targets) /\ \A i \in 1..(m - 1) : i \in 1..Len(targets) /\ i # m
    BY <1>1
  <2>2. targets[m] \in b.faint /\ targets[m] \notin gone(m - 1)
    BY <2>1 DEF Enumerates
  <2> HIDE DEF f, gone
  <2>3. Stands(f[m - 1]) /\ targets[m] \in OnField(f[m - 1]) /\ targets[m] \in f[m - 1].faint
    BY <1>2, <1>3, <2>1, <2>2
  <2>4. Fits(f[m - 1], targets[m])
    BY <2>3, RelocatedIs
  <2>5. IsInjective(f[m - 1].pos)
    BY <2>3 DEF Stands, Board, IsInjective
  <2> QED BY <2>3, <2>4, <2>5
<1>7. Plannable(b, targets)
  BY <1>6 DEF Plannable
<1> HIDE DEF f, gone
<1>8. Len(targets) \in 0..Len(targets)
  BY <1>1
<1>9. Settled(f[Len(targets)]) /\ OnField(f[Len(targets)]) = OnField(b) \ b.faint
  <2>1. Filling(f[Len(targets)], b.faint \ b.faint) /\ b.faint \ b.faint = {}
    BY <1>3, <1>4, <1>8
  <2> QED BY <1>3, <1>4, <1>8, <2>1 DEF Settled
<1> QED BY <1>5, <1>7, <1>9

-----------------------------------------------------------------------------
\* What else is done to a board between two choices.
LEMMA SettledIs ==
  ASSUME NEW b
  PROVE  Settled(b) <=> Stands(b) /\ b.faint = {} /\ \A p \in Figures : ~Gaping(b, p)
BY DEF Settled, Filling

LEMMA SamePlaces ==
  ASSUME NEW b, Stands(b), NEW r \in Board, r.pos = b.pos, Marks(r) \subseteq OnField(b)
  PROVE  /\ Stands(r) /\ OnField(r) = OnField(b)
         /\ \A p \in Figures : Gaping(r, p) <=> Gaping(b, p)
<1>1. OnField(r) = OnField(b)
  BY DEF OnField
<1>2. \A p \in Figures : Gaping(r, p) <=> Gaping(b, p)
  BY DEF Gaping
<1> QED BY <1>1, <1>2 DEF Stands

LEMMA TurnEndedSettles == ASSUME NEW b, Settled(b) PROVE Settled(TurnEnded(b))
<1> DEFINE r == TurnEnded(b)
<1>1. Stands(b) /\ b \in Board
  BY DEF Settled, Stands
<1>2. \A p \in Figures : (IF b.wait[p] > 0 THEN b.wait[p] - 1 ELSE 0) \in Nat
  BY <1>1 DEF Board
<1>3. /\ r \in Board /\ r.pos = b.pos
      /\ r.faint = b.faint /\ r.cursed = b.cursed /\ r.battled = b.battled
  BY <1>1, <1>2 DEF TurnEnded, Board
<1> HIDE DEF r
<1>4. Marks(r) \subseteq OnField(b)
  BY <1>1, <1>3 DEF Stands, Marks
<1> QED BY <1>1, <1>3, <1>4, SamePlaces, SettledIs DEF r

LEMMA WaitingIs ==
  ASSUME NEW b, Stands(b), NEW set, NEW n \in Nat
  PROVE  /\ Stands(Waiting(b, set, n)) /\ OnField(Waiting(b, set, n)) = OnField(b)
         /\ Waiting(b, set, n).faint = b.faint
         /\ \A left : Filling(b, left) => Filling(Waiting(b, set, n), left)
<1> DEFINE r == Waiting(b, set, n)
<1>1. b \in Board
  BY DEF Stands
<1>2. \A p \in Figures : (IF n > 0 /\ p \in set \ Immune THEN n ELSE b.wait[p]) \in Nat
  BY <1>1 DEF Board
<1>3. /\ r \in Board /\ r.pos = b.pos
      /\ r.faint = b.faint /\ r.cursed = b.cursed /\ r.battled = b.battled
  BY <1>1, <1>2 DEF Waiting, Board
<1> HIDE DEF r
<1>4. Marks(r) \subseteq OnField(b)
  BY <1>3 DEF Stands, Marks
<1>5. Stands(r) /\ OnField(r) = OnField(b) /\ \A p \in Figures : Gaping(r, p) <=> Gaping(b, p)
  BY <1>3, <1>4, SamePlaces
<1> QED BY <1>3, <1>5 DEF r, Filling

LEMMA FaintedIs ==
  ASSUME NEW b, Settled(b), NEW set \in SUBSET OnField(b)
  PROVE  /\ Stands(Fainted(b, set)) /\ OnField(Fainted(b, set)) = OnField(b)
         /\ Fainted(b, set).faint = set /\ Filling(Fainted(b, set), set)
<1> DEFINE r == Fainted(b, set)
<1>1. Stands(b) /\ b \in Board /\ b.faint = {} /\ set \subseteq Figures
      /\ (\A p \in Figures : ~Gaping(b, p))
  BY SettledIs DEF Stands, OnField
<1>2. /\ r \in Board /\ r.pos = b.pos
      /\ r.faint = set /\ r.cursed = b.cursed /\ r.battled = b.battled
  BY <1>1 DEF Fainted, Board
<1> HIDE DEF r
<1>3. Marks(r) \subseteq OnField(b)
  BY <1>1, <1>2 DEF Stands, Marks
<1>4. Stands(r) /\ OnField(r) = OnField(b) /\ \A p \in Figures : ~Gaping(r, p)
  BY <1>1, <1>2, <1>3, SamePlaces
<1> QED BY <1>2, <1>4 DEF r, Filling

LEMMA SurroundedSettles ==
  ASSUME NEW b, Settled(b), NEW set \in SUBSET OnField(b)
  PROVE  Settled(Surrounded(b, set)) /\ OnField(Surrounded(b, set)) = OnField(b) \ set
<1> DEFINE c == Fainted(b, set)
<1>1. Stands(c) /\ OnField(c) = OnField(b) /\ c.faint = set /\ Filling(c, set)
  BY FaintedIs
<1>2. set \in SUBSET Figures
  BY DEF OnField
<1>3. Enumerates(InOrder(set), set)
  BY <1>2, InOrderIs
<1> HIDE DEF c
<1>4. Settled(Batch(c, InOrder(set))) /\ OnField(Batch(c, InOrder(set))) = OnField(c) \ set
  BY <1>1, <1>3, BatchSettles
<1> QED BY <1>1, <1>4 DEF Surrounded, c

LEMMA SurroundingsSettle ==
  ASSUME NEW boards, AllSettled(boards)
  PROVE  AllSettled(Surroundings(boards)) /\ AllSettled(Settling(boards))
<1>1. ASSUME NEW all, AllSettled(all) PROVE AllSettled(Surroundings(all))
  <2> SUFFICES ASSUME NEW b \in all, NEW set \in Surrounds(b) PROVE Settled(Surrounded(b, set))
    BY DEF AllSettled, Surroundings
  <2>1. Settled(b) /\ set \in SUBSET OnField(b)
    BY <1>1 DEF AllSettled, Surrounds
  <2> QED BY <2>1, SurroundedSettles
<1>2. AllSettled(Surroundings(boards))
  BY <1>1
<1> QED BY <1>1, <1>2 DEF Settling

LEMMA EndedSettles ==
  ASSUME NEW boards, AllSettled(boards)
  PROVE  AllSettled(Ended(boards))
<1>1. AllSettled(Settling(boards))
  BY SurroundingsSettle
<1> QED BY <1>1, TurnEndedSettles DEF AllSettled, Ended

\* Who is left of two has battled, and one of them may have got a Wait.
LEMMA MarkedSettles ==
  ASSUME NEW b, Settled(b), NEW pair
  PROVE  AllSettled(MarkedBoards(b, pair))
<1>1. ASSUME NEW a, Settled(a) PROVE Settled(Marked(a, pair))
  <2> DEFINE c == Marked(a, pair)
  <2>1. Stands(a) /\ a \in Board /\ a.faint = {} /\ (\A p \in Figures : ~Gaping(a, p))
    BY <1>1, SettledIs DEF Stands
  <2>2. OnField(a) \subseteq Figures
    BY DEF OnField
  <2>3. /\ c \in Board /\ c.pos = a.pos
        /\ c.faint = {} /\ c.cursed = a.cursed /\ c.battled = a.battled \cup (pair \cap OnField(a))
    BY <2>1, <2>2 DEF Marked, Board
  <2> HIDE DEF c
  <2>4. Marks(c) \subseteq OnField(a)
    BY <2>1, <2>3 DEF Stands, Marks
  <2>5. Settled(c)
    BY <2>1, <2>3, <2>4, SamePlaces, SettledIs
  <2> QED BY <2>5 DEF c
<1>2. ASSUME NEW p, NEW n \in AttackWaits PROVE Settled(Waiting(b, {p}, n))
  <2>1. n \in Nat /\ Stands(b) /\ b.faint = {} /\ Filling(b, {})
    BY BoardAssumption DEF Settled
  <2> QED BY <2>1, WaitingIs DEF Settled
<1>3. ASSUME NEW c \in MarkedBoards(b, pair) PROVE Settled(c)
  <2>1. CASE c = Marked(b, pair)
    BY <1>1, <2>1
  <2>2. CASE \E p \in pair, n \in AttackWaits : c = Marked(Waiting(b, {p}, n), pair)
    BY <1>1, <1>2, <2>2
  <2> QED BY <2>1, <2>2 DEF MarkedBoards
<1> QED BY <1>3 DEF AllSettled

LEMMA SettlementsSettle ==
  ASSUME NEW boards, AllSettled(boards), NEW pair
  PROVE  AllSettled(Settlements(boards, pair))
<1>1. AllSettled(UNION {MarkedBoards(b, pair) : b \in boards})
  BY MarkedSettles DEF AllSettled
<1> QED BY <1>1, EndedSettles DEF Settlements

LEMMA WaitsSettle ==
  ASSUME NEW b, Settled(b)
  PROVE  AllSettled(Waits(b))
<1>1. ASSUME NEW set, NEW n \in AttackWaits PROVE Settled(Waiting(b, set, n))
  BY BoardAssumption, WaitingIs DEF Settled
<1> QED BY <1>1 DEF AllSettled, Waits

LEMMA MovedSettles ==
  ASSUME NEW b, Settled(b), NEW p \in Figures, b.pos[p] \in Points \cup {Bench(p)}, NEW to \in Free(b)
  PROVE  Settled(Moved(b, p, to)) /\ p \in OnField(Moved(b, p, to))
<1> DEFINE r == Moved(b, p, to)
<1>1. /\ Stands(b) /\ b \in Board /\ b.pos \in [Figures -> Nat] /\ b.faint = {}
      /\ \A x \in Figures : ~Gaping(b, x)
  BY SettledIs DEF Stands, Board
<1>2. to \in Points /\ \A x \in Figures : b.pos[x] # to
  BY <1>1 DEF Free, Range
<1>3. to \in Nat /\ to \in Own(p)
  BY <1>2, Places DEF Own
<1>4. /\ r \in Board /\ r.pos = [b.pos EXCEPT ![p] = to]
      /\ r.faint = {} /\ r.cursed = b.cursed /\ r.battled \subseteq b.battled
  BY <1>1, <1>3 DEF Moved, Board
<1> HIDE DEF r
<1>5. Marks(r) \subseteq OnField(b)
  BY <1>1, <1>4 DEF Stands, Marks
<1>6. Stands(r)
  BY <1>1, <1>2, <1>3, <1>4, <1>5, PutStands
<1>7. r.pos[p] = to /\ \A x \in Figures : x # p => r.pos[x] = b.pos[x]
  BY <1>1, <1>4
<1>8. ASSUME NEW a \in Figures, Gaping(r, a) PROVE FALSE
  <2>1. to # Lower(a) /\ b.pos[p] # Upper(a)
    BY <1>2, Places
  <2>2. Gaping(b, a)
    BY <1>7, <1>8, <2>1 DEF Gaping
  <2> QED BY <1>1, <2>2
<1>9. Settled(r) /\ p \in OnField(r)
  BY <1>2, <1>4, <1>6, <1>7, <1>8, SettledIs, FieldIs
<1> QED BY <1>9 DEF r

\* Two figures change places; one that goes to the bench goes to its own.
LEMMA SwappedSettles ==
  ASSUME NEW b, Settled(b), NEW p \in Figures, NEW q \in Figures, p # q,
         \A r \in {p, q} : b.pos[r] \in Points \cup {Bench(r)}
  PROVE  Settled(Swapped(b, p, q))
<1> DEFINE place(r, to) == IF to \in Points THEN to ELSE Bench(r)
           toBench == {r \in {p, q} : b.pos[IF r = p THEN q ELSE p] \notin Points}
           c == Swapped(b, p, q)
<1>1. /\ Stands(b) /\ b \in Board /\ b.pos \in [Figures -> Nat] /\ b.faint = {}
      /\ \A x \in Figures : ~Gaping(b, x)
  BY SettledIs DEF Stands, Board
<1>2. /\ place(p, b.pos[q]) \in Points \cup {Bench(p)} /\ place(q, b.pos[p]) \in Points \cup {Bench(q)}
      /\ place(p, b.pos[q]) \in Nat /\ place(q, b.pos[p]) \in Nat
  BY <1>1, Places
<1>3. c = [b EXCEPT !.pos[p] = place(p, b.pos[q]), !.pos[q] = place(q, b.pos[p]),
                    !.cursed = @ \ toBench,
                    !.battled = IF {p, q} \subseteq OnField(b) THEN @ ELSE @ \ {p, q}]
  BY Zenon DEF Swapped
<1>4. /\ c.pos = [[b.pos EXCEPT ![p] = place(p, b.pos[q])] EXCEPT ![q] = place(q, b.pos[p])]
      /\ c.faint = {} /\ c.cursed = b.cursed \ toBench
      /\ c.battled = IF {p, q} \subseteq OnField(b) THEN b.battled ELSE b.battled \ {p, q}
  <2> HIDE DEF place, toBench, c
  <2> QED BY <1>1, <1>3 DEF Board
<1>5. c \in Board
  <2> HIDE DEF place, toBench, c
  <2> QED BY <1>1, <1>2, <1>3 DEF Board
<1>6. /\ c.pos[p] = place(p, b.pos[q]) /\ c.pos[q] = place(q, b.pos[p])
      /\ \A x \in Figures \ {p, q} : c.pos[x] = b.pos[x]
  <2> HIDE DEF place, c
  <2> QED BY <1>1, <1>4
<1> HIDE DEF c
<1>7. \A x \in Figures : c.pos[x] \in Own(x)
  BY <1>1, <1>2, <1>6 DEF Stands, Own
<1>8. \A x \in Figures \ {p, q} : b.pos[x] # b.pos[p] /\ b.pos[x] # b.pos[q]
                                  /\ b.pos[x] # Bench(p) /\ b.pos[x] # Bench(q)
  BY <1>1, OwnPlaces DEF Stands
<1>9. c.pos[p] # c.pos[q]
  BY <1>1, <1>6, Places DEF Stands
<1>10. \A x, y \in Figures : c.pos[x] = c.pos[y] => x = y
  <2>1. \A x \in Figures \ {p, q} : c.pos[x] # c.pos[p] /\ c.pos[x] # c.pos[q]
    BY <1>6, <1>8
  <2> QED BY <1>1, <1>6, <1>9, <2>1 DEF Stands
<1>11. Marks(c) \subseteq OnField(c)
  <2> SUFFICES ASSUME NEW x \in Marks(c) PROVE x \in OnField(c)
    OBVIOUS
  <2>1. x \in b.cursed \cup b.battled /\ x \in OnField(b)
    BY <1>1, <1>4 DEF Marks, Stands
  <2>2. x \in Figures /\ b.pos[x] \in Points
    BY <2>1, FieldIs
  <2>3. CASE x \notin {p, q}
    BY <1>6, <2>2, <2>3, FieldIs
  <2>4. CASE x \in {p, q}
    <3> DEFINE y == IF x = p THEN q ELSE p
    <3>1. b.pos[y] \in Points
      <4>1. CASE x \in c.cursed
        BY <1>4, <2>4, <4>1
      <4>2. CASE x \in c.battled
        <5>1. {p, q} \subseteq OnField(b)
          BY <1>4, <2>4, <4>2
        <5> QED BY <2>4, <5>1, FieldIs
      <4> QED BY <1>4, <4>1, <4>2 DEF Marks
    <3>2. c.pos[x] = b.pos[y]
      BY <1>6, <2>4, <3>1
    <3> QED BY <2>2, <3>1, <3>2, FieldIs
  <2> QED BY <2>3, <2>4
<1>12. Stands(c)
  BY <1>5, <1>7, <1>10, <1>11 DEF Stands
<1>13. ASSUME NEW a \in Figures, Gaping(c, a) PROVE FALSE
  <2>1. c.pos[p] # Lower(a) /\ c.pos[q] # Lower(a) /\ b.pos[p] # Upper(a) /\ b.pos[q] # Upper(a)
    BY <1>2, <1>6, Places
  <2>2. Gaping(b, a)
    BY <1>6, <1>13, <2>1 DEF Gaping
  <2> QED BY <1>1, <2>2
<1>14. Settled(c)
  BY <1>4, <1>12, <1>13, SettledIs
<1> QED BY <1>14 DEF c

\* Figures of the field go back to their benches.
LEMMA BenchedSettles ==
  ASSUME NEW b, Settled(b), NEW set \in SUBSET OnField(b)
  PROVE  Settled(Benched(b, set))
<1> DEFINE r == Benched(b, set)
<1>1. /\ Stands(b) /\ b \in Board /\ b.pos \in [Figures -> Nat] /\ b.faint = {}
      /\ \A x \in Figures : ~Gaping(b, x)
  BY SettledIs DEF Stands, Board
<1>2. \A x \in Figures : (IF x \in set THEN Bench(x) ELSE b.pos[x]) \in Nat
  BY <1>1, Places
<1>3. /\ r \in Board /\ r.faint = {} /\ r.cursed = b.cursed \ set /\ r.battled = b.battled \ set
  BY <1>1, <1>2 DEF Benched, Board
<1>4. \A x \in Figures : r.pos[x] = IF x \in set THEN Bench(x) ELSE b.pos[x]
  BY <1>1 DEF Benched, Board
<1> HIDE DEF r
<1>5. \A x \in Figures : r.pos[x] \in Own(x)
  BY <1>1, <1>4 DEF Stands, Own
<1>6. \A x, y \in Figures : r.pos[x] = r.pos[y] => x = y
  <2> SUFFICES ASSUME NEW x \in Figures, NEW y \in Figures, r.pos[x] = r.pos[y], x # y PROVE FALSE
    OBVIOUS
  <2>1. Bench(x) # Bench(y) /\ b.pos[x] # b.pos[y] /\ b.pos[x] # Bench(y) /\ b.pos[y] # Bench(x)
    BY <1>1, OwnPlaces, Places DEF Stands
  <2> QED BY <1>4, <2>1
<1>7. Marks(r) \subseteq OnField(r)
  BY <1>1, <1>3, <1>4, FieldIs DEF Stands, Marks
<1>8. ASSUME NEW a \in Figures, Gaping(r, a) PROVE FALSE
  <2>1. \A x \in set : x \in Figures /\ Bench(x) # Lower(a) /\ b.pos[x] # Upper(a)
    BY Places, FieldIs
  <2>2. Gaping(b, a)
    BY <1>4, <1>8, <2>1 DEF Gaping
  <2> QED BY <1>1, <2>2
<1>9. Settled(r)
  BY <1>3, <1>5, <1>6, <1>7, <1>8, SettledIs DEF Stands
<1> QED BY <1>9 DEF r

\* A curse stays on the field with the figure that has it.
LEMMA CursedSettles ==
  ASSUME NEW b, Settled(b), NEW p \in OnField(b)
  PROVE  Settled([b EXCEPT !.cursed = @ \cup {p}])
<1> DEFINE r == [b EXCEPT !.cursed = @ \cup {p}]
<1>1. Stands(b) /\ b \in Board /\ b.faint = {} /\ (\A x \in Figures : ~Gaping(b, x))
  BY SettledIs DEF Stands
<1>2. p \in Figures
  BY DEF OnField
<1>3. /\ r \in Board /\ r.pos = b.pos
      /\ r.faint = {} /\ r.cursed = b.cursed \cup {p} /\ r.battled = b.battled
  BY <1>1, <1>2 DEF Board
<1> HIDE DEF r
<1>4. Marks(r) \subseteq OnField(b)
  BY <1>1, <1>3 DEF Stands, Marks
<1>5. Settled(r)
  BY <1>1, <1>3, <1>4, SamePlaces, SettledIs
<1> QED BY <1>5 DEF r

\* A movement that may be a Grudge, and the attack of two who still stand.
LEMMA ArrivalsSettle ==
  ASSUME NEW b, Settled(b)
  PROVE  AllSettled(Arrivals(b))
<1> DEFINE choices == IF OnField(b) \subseteq OnField(board) THEN {} ELSE OnField(b)
           boards == {b} \cup {[b EXCEPT !.cursed = @ \cup {q}] : q \in choices}
<1>1. AllSettled(boards)
  BY CursedSettles DEF AllSettled
<1> HIDE DEF boards
<1>2. AllSettled(Surroundings(boards))
  BY <1>1, SurroundingsSettle
<1> QED BY <1>2 DEF Arrivals, boards

LEMMA BegunSettles ==
  ASSUME Settled(board), NEW p, NEW q
  PROVE  /\ AllSettled(Woken) /\ AllSettled(Begun(p, q))
         /\ \A b \in Begun(p, q) : {p, q} \subseteq OnField(b)
<1> DEFINE going == {b \in Woken : {p, q} \subseteq OnField(b)}
<1>1. AllSettled({board})
  BY DEF AllSettled
<1>2. AllSettled(Woken)
  BY <1>1, SurroundingsSettle DEF Woken
<1>3. AllSettled(going)
  BY <1>2 DEF AllSettled
<1>4. Begun(p, q) = IF extra THEN {b \in Settling(going) : {p, q} \subseteq OnField(b)} ELSE going
  BY DEF Begun
<1>5. \A b \in going : {p, q} \subseteq OnField(b)
  OBVIOUS
<1> HIDE DEF going
<1>6. AllSettled(Settling(going))
  BY <1>3, SurroundingsSettle
<1> QED BY <1>2, <1>3, <1>4, <1>5, <1>6 DEF AllSettled

\* The winner's leap, and who falls after it.
LEMMA LandingsSettle ==
  ASSUME NEW b, Settled(b), NEW winner \in OnField(b), NEW loser
  PROVE  AllSettled(Landings(b, winner, loser))
<1> DEFINE leapt == {Moved(b, winner, to) : to \in Free(b)}
           felled == UNION {{Surrounded(c, set) : set \in Surrounds(c) \cap SUBSET {loser}} : c \in leapt}
           fought == UNION {MarkedBoards(c, {winner, loser}) : c \in Surroundings(felled)}
<1>1. AllSettled(leapt)
  BY MovedSettles, FieldIs DEF AllSettled
<1>2. AllSettled(felled)
  <2> SUFFICES ASSUME NEW c \in leapt, NEW set \in Surrounds(c) PROVE Settled(Surrounded(c, set))
    BY DEF AllSettled
  <2> HIDE DEF leapt
  <2>1. Settled(c) /\ set \in SUBSET OnField(c)
    BY <1>1 DEF AllSettled, Surrounds
  <2> QED BY <2>1, SurroundedSettles
<1>3. Landings(b, winner, loser) = Surroundings(fought)
  BY Zenon DEF Landings
<1> HIDE DEF felled
<1>4. AllSettled(Surroundings(felled))
  BY <1>2, SurroundingsSettle
<1>5. AllSettled(fought)
  BY <1>4, MarkedSettles DEF AllSettled
<1> HIDE DEF fought
<1> QED BY <1>3, <1>5, SurroundingsSettle

-----------------------------------------------------------------------------
LEMMA InitStands == CenterInit => CenterInv
<1> SUFFICES ASSUME CenterInit PROVE CenterInv
  OBVIOUS
<1>1. /\ board = [pos |-> [p \in Figures |-> Bench(p)], wait |-> [p \in Figures |-> 0],
                  faint |-> {}, cursed |-> {}, battled |-> {}]
      /\ mover = Nobody /\ staged = Nobody
  BY DEF CenterInit
<1>2. board \in Board /\ Marks(board) = {} /\ board.faint = {}
      /\ \A p \in Figures : board.pos[p] = Bench(p)
  BY <1>1, Places DEF Board, Marks
<1>3. Stands(board)
  BY <1>2, Places DEF Stands, Own
<1>4. \A p \in Figures : ~Gaping(board, p)
  BY <1>2, Places DEF Gaping
<1>5. Settled(board)
  BY <1>2, <1>3, <1>4, SettledIs
<1> QED BY <1>1, <1>3, <1>5 DEF CenterInv

\* Between two choices the invariant is that the board is settled.
LEMMA SettledHolds ==
  ASSUME Settled(board'), mover' \in Figures \cup {Nobody}, staged' = Nobody
  PROVE  CenterInv'
<1>1. Stands(board)' /\ Settled(board)'
  BY DEF Settled
<1> QED BY <1>1 DEF CenterInv

LEMMA FinishHolds ==
  ASSUME NEW boards, AllSettled(boards), NEW pair, Finish(boards, pair)
  PROVE  CenterInv'
<1>1. board' \in Settlements(boards, pair) /\ mover' = Nobody /\ staged' = Nobody
  BY DEF Finish
<1>2. Settled(board')
  BY <1>1, SettlementsSettle DEF AllSettled
<1> QED BY <1>1, <1>2, SettledHolds

LEMMA StageIs ==
  ASSUME NEW b, NEW left \in SUBSET Figures, NEW opponent \in Figures, Stage(b, left, opponent)
  PROVE  /\ board' = b /\ staged' # Nobody
         /\ staged' \in [left : SUBSET Figures, pick : Figures, opponent : Figures,
                         step : {"remove", "bench", "shift", "knockout"}]
         /\ staged'.left = left /\ staged'.pick \in left /\ staged'.step = StepOf(b, staged'.pick)
<1>1. PICK p \in left : staged' = [left |-> left, pick |-> p, step |-> StepOf(b, p), opponent |-> opponent]
  BY DEF Stage
<1>2. StepOf(b, p) \in {"remove", "bench", "shift", "knockout"}
  BY DEF StepOf
<1>3. p \in Figures
  OBVIOUS
<1>4. staged' \in [left : SUBSET Figures, pick : Figures, opponent : Figures,
                   step : {"remove", "bench", "shift", "knockout"}]
  BY <1>1, <1>2, <1>3
<1>5. staged' # Nobody
  BY <1>4, BoardAssumption
<1>6. staged'.left = left /\ staged'.pick = p /\ staged'.step = StepOf(b, p)
  BY <1>1
<1> QED BY <1>4, <1>5, <1>6 DEF Stage

LEMMA StageHolds ==
  ASSUME NEW b, Stands(b), NEW left \in SUBSET Figures, b.faint = left, Filling(b, left),
         mover' \in Figures, NEW opponent \in Figures, Stage(b, left, opponent)
  PROVE  CenterInv'
<1>1. StagedOK(b, staged') /\ staged' # Nobody /\ board' = b
  BY StageIs DEF StagedOK
<1>2. mover' # Nobody
  BY NobodyIsNoFigure
<1> QED BY <1>1, <1>2 DEF CenterInv

\* One of them, and then the others.
LEMMA FirstOfAll ==
  ASSUME NEW left \in SUBSET Figures, NEW p \in left, NEW rest, Enumerates(rest, left \ {p})
  PROVE  Enumerates(<<p>> \o rest, left)
<1> DEFINE all == <<p>> \o rest
<1>1. rest \in Seq(Figures) /\ p \in Figures /\ Len(rest) \in Nat
  BY DEF Enumerates
<1>2. /\ all \in Seq(Figures) /\ Len(all) = Len(rest) + 1 /\ all[1] = p
      /\ \A i \in 1..Len(rest) : all[i + 1] = rest[i]
  BY <1>1
<1> HIDE DEF all
<1>3. \A i \in 1..Len(all) : i = 1 \/ \E j \in 1..Len(rest) : i = j + 1
  <2> SUFFICES ASSUME NEW i \in 1..Len(all), i # 1 PROVE i - 1 \in 1..Len(rest) /\ i = (i - 1) + 1
    OBVIOUS
  <2> QED BY <1>1, <1>2
<1>4. 1 \in 1..Len(all) /\ \A j \in 1..Len(rest) : j + 1 \in 1..Len(all) /\ j + 1 # 1
  BY <1>1, <1>2
<1>5. \A r : r \in left <=> \E i \in 1..Len(all) : all[i] = r
  <2> SUFFICES ASSUME NEW r PROVE r \in left <=> \E i \in 1..Len(all) : all[i] = r
    OBVIOUS
  <2>1. r \in left <=> r = p \/ \E j \in 1..Len(rest) : rest[j] = r
    BY DEF Enumerates
  <2>2. (\E i \in 1..Len(all) : all[i] = r) <=> r = p \/ \E j \in 1..Len(rest) : rest[j] = r
    BY <1>2, <1>3, <1>4
  <2> QED BY <2>1, <2>2
<1>6. \A i, j \in 1..Len(all) : all[i] = all[j] => i = j
  <2> SUFFICES ASSUME NEW i \in 1..Len(all), NEW j \in 1..Len(all), all[i] = all[j] PROVE i = j
    OBVIOUS
  <2>1. \A k \in 1..Len(rest) : rest[k] # p
    BY DEF Enumerates
  <2>2. (i = 1) <=> (j = 1)
    BY <1>2, <1>3, <2>1
  <2>3. CASE i # 1 /\ j # 1
    <3>1. PICK k \in 1..Len(rest), l \in 1..Len(rest) : i = k + 1 /\ j = l + 1
      BY <1>3, <2>3
    <3>2. rest[k] = rest[l]
      BY <1>2, <3>1
    <3> QED BY <3>1, <3>2 DEF Enumerates
  <2> QED BY <2>2, <2>3
<1> QED BY <1>2, <1>5, <1>6 DEF Enumerates, all

\* The plan for those who are left always fits, in the order the engine takes.
LEMMA LeavingFits ==
  ASSUME CenterInv, staged # Nobody
  PROVE  /\ Enumerates(Leaving, staged.left) /\ StillFits
         /\ Settled(Batch(board, Leaving))
<1> DEFINE left == staged.left
           p == staged.pick
<1>1. /\ Stands(board) /\ left \in SUBSET Figures /\ p \in left /\ staged.step = StepOf(board, p)
      /\ board.faint = left /\ Filling(board, left)
  BY DEF CenterInv, StagedOK
<1>2. Enumerates(InOrder(left \ {p}), left \ {p})
  BY <1>1, InOrderIs
<1>3. Leaving = <<p>> \o InOrder(left \ {p})
  BY DEF Leaving
<1> HIDE DEF left, p
<1>4. Enumerates(Leaving, left)
  BY <1>1, <1>2, <1>3, FirstOfAll
<1>5. Plannable(board, Leaving) /\ Settled(Batch(board, Leaving))
  BY <1>1, <1>4, BatchSettles
<1> QED BY <1>1, <1>4, <1>5 DEF StillFits, left, p

-----------------------------------------------------------------------------
LEMMA MpMoveHolds ==
  ASSUME CenterInv, NEW p \in Figures, NEW to \in Points, MpMove(p, to)
  PROVE  CenterInv'
<1> DEFINE c == Moved(board, p, to)
<1>1. Settled(board) /\ staged' = Nobody
  BY DEF MpMove, Idle, NoKnockouts, CenterInv
<1>2. Settled(c)
  BY <1>1, MovedSettles DEF MpMove
<1>3. PICK b \in Arrivals(c) : \/ board' = TurnEnded(b) /\ mover' = Nobody
                               \/ board' = b /\ mover' = p
  BY DEF MpMove
<1> HIDE DEF c
<1>4. Settled(b)
  BY <1>2, <1>3, ArrivalsSettle DEF AllSettled
<1> QED BY <1>1, <1>3, <1>4, TurnEndedSettles, SettledHolds

LEMMA SpotMoveHolds ==
  ASSUME CenterInv, NEW p \in Figures, NEW to \in Points, SpotMove(p, to)
  PROVE  CenterInv'
<1> DEFINE c == Moved(board, p, to)
<1>1. Settled(board) /\ staged' = Nobody /\ mover' = Nobody
  BY DEF SpotMove, Idle, NoKnockouts, CenterInv
<1>2. Settled(c)
  BY <1>1, MovedSettles DEF SpotMove
<1>3. PICK b \in Arrivals(c) : board' = TurnEnded(b)
  BY DEF SpotMove
<1> HIDE DEF c
<1>4. Settled(b)
  BY <1>2, <1>3, ArrivalsSettle DEF AllSettled
<1> QED BY <1>1, <1>3, <1>4, TurnEndedSettles, SettledHolds

LEMMA SwapMoveHolds ==
  ASSUME CenterInv, NEW p \in Figures, NEW q \in Figures, SwapMove(p, q)
  PROVE  CenterInv'
<1> DEFINE c == Swapped(board, p, q)
<1>1. Settled(board) /\ staged' = Nobody /\ mover' = Nobody
      /\ \A r \in {p, q} : board.pos[r] \in Points \cup {Bench(r)}
  BY DEF SwapMove, Idle, NoKnockouts, CenterInv
<1>2. p # q
  BY DEF SwapMove, Figures
<1>3. Settled(c)
  BY <1>1, <1>2, SwappedSettles
<1>4. PICK b \in Arrivals(c) : board' = TurnEnded(b)
  BY DEF SwapMove
<1> HIDE DEF c
<1>5. Settled(b)
  BY <1>3, <1>4, ArrivalsSettle DEF AllSettled
<1> QED BY <1>1, <1>4, <1>5, TurnEndedSettles, SettledHolds

LEMMA NullMoveHolds == ASSUME CenterInv, NullMove PROVE CenterInv'
<1>1. Settled(board) /\ staged' = Nobody /\ mover' = Nobody
      /\ board' \in Ended({board}) \cup {TurnEnded(board)}
  BY DEF NullMove, NoKnockouts, CenterInv
<1>2. AllSettled(Ended({board}))
  BY <1>1, EndedSettles DEF AllSettled
<1>3. Settled(board')
  BY <1>1, <1>2, TurnEndedSettles DEF AllSettled
<1> QED BY <1>1, <1>3, SettledHolds

LEMMA TouchHolds == ASSUME CenterInv, Touch PROVE CenterInv'
<1>1. Settled(board) /\ staged' = Nobody /\ mover' = Nobody
  BY DEF Touch, NoKnockouts, CenterInv
<1>2. PICK b \in Woken : board' = TurnEnded(b)
  BY DEF Touch
<1>3. Settled(b)
  BY <1>1, <1>2, BegunSettles DEF AllSettled
<1> QED BY <1>1, <1>2, <1>3, TurnEndedSettles, SettledHolds

LEMMA FightIs ==
  ASSUME CenterInv, NEW p \in Figures, NEW q \in Figures, Fight(p, q)
  PROVE  /\ Settled(board) /\ staged = Nobody
         /\ AllSettled(Woken) /\ AllSettled(Begun(p, q))
         /\ \A b \in Begun(p, q) : {p, q} \subseteq OnField(b)
<1>1. Settled(board) /\ staged = Nobody
  BY DEF Fight, CenterInv
<1> QED BY <1>1, BegunSettles

LEMMA CancelledBattleHolds ==
  ASSUME CenterInv, NEW p \in Figures, NEW q \in Figures, CancelledBattle(p, q)
  PROVE  CenterInv'
<1> DEFINE ending == {b \in Woken : ~({p, q} \subseteq OnField(b))}
<1>1. /\ board' \in IF extra THEN Ended(ending) ELSE {TurnEnded(b) : b \in ending}
      /\ staged' = Nobody /\ mover' = Nobody
  BY DEF CancelledBattle, Fight, NoKnockouts
<1>2. AllSettled(ending)
  BY FightIs DEF CancelledBattle, AllSettled
<1> HIDE DEF ending
<1>3. AllSettled(Ended(ending)) /\ AllSettled({TurnEnded(b) : b \in ending})
  BY <1>2, EndedSettles, TurnEndedSettles DEF AllSettled
<1>4. Settled(board')
  BY <1>1, <1>3 DEF AllSettled
<1> QED BY <1>1, <1>4, SettledHolds

LEMMA QuietBattleHolds ==
  ASSUME CenterInv, NEW p \in Figures, NEW q \in Figures, QuietBattle(p, q)
  PROVE  CenterInv'
<1> DEFINE boards == UNION {Cursings(b, {p, q}) \cup Benchings(b) : b \in Begun(p, q)}
<1>1. Finish(boards, {p, q})
  BY DEF QuietBattle
<1>2. ASSUME NEW b \in Begun(p, q) PROVE AllSettled(Cursings(b, {p, q}) \cup Benchings(b))
  <2>1. Settled(b) /\ {p, q} \subseteq OnField(b)
    BY FightIs DEF QuietBattle, AllSettled
  <2>2. AllSettled(Cursings(b, {p, q}))
    BY <2>1, CursedSettles DEF AllSettled, Cursings
  <2>3. AllSettled(Benchings(b))
    <3>1. ASSUME NEW away \in SUBSET OnField(b) PROVE AllSettled(Waits(Benched(b, away)))
      BY <2>1, BenchedSettles, WaitsSettle
    <3> QED BY <3>1 DEF AllSettled, Benchings
  <2> QED BY <2>2, <2>3 DEF AllSettled
<1>3. AllSettled(boards)
  BY <1>2 DEF AllSettled
<1> HIDE DEF boards
<1> QED BY <1>1, <1>3, FinishHolds

LEMMA LeapHolds ==
  ASSUME CenterInv, NEW p \in Figures, NEW q \in Figures, Leap(p, q)
  PROVE  CenterInv'
<1> DEFINE landed(winner, loser) == UNION {Landings(b, winner, loser) : b \in Begun(p, q)}
<1>1. PICK winner \in {p, q} : \E loser :
           \/ board' \in Ended(landed(winner, loser)) /\ mover' = Nobody
           \/ board' \in landed(winner, loser) /\ mover' = winner
  <2>1. PICK winner \in {p, q} :
          LET loser == IF winner = p THEN q ELSE p
          IN \/ board' \in Ended(landed(winner, loser)) /\ mover' = Nobody
             \/ /\ board' \in {b \in landed(winner, loser) :
                               /\ winner \in OnField(b) /\ b.wait[winner] = 0
                               /\ \E r \in OnField(b) : ~SameSide(winner, r)}
                /\ mover' = winner
    BY Zenon DEF Leap
  <2> HIDE DEF landed
  <2> QED BY <2>1
<1>2. PICK loser : \/ board' \in Ended(landed(winner, loser)) /\ mover' = Nobody
                   \/ board' \in landed(winner, loser) /\ mover' = winner
  BY <1>1
<1>3. AllSettled(landed(winner, loser))
  <2>1. ASSUME NEW b \in Begun(p, q) PROVE AllSettled(Landings(b, winner, loser))
    BY FightIs, LandingsSettle DEF Leap, AllSettled
  <2> QED BY <2>1 DEF AllSettled
<1> HIDE DEF landed
<1>4. Settled(board')
  BY <1>2, <1>3, EndedSettles DEF AllSettled
<1>5. mover' \in Figures \cup {Nobody} /\ staged' = Nobody
  BY <1>2 DEF Leap, Fight
<1> QED BY <1>4, <1>5, SettledHolds

\* Those knocked out are planned for on a board on which they are faint.
LEMMA FaintWaits ==
  ASSUME NEW b, Settled(b), NEW set \in SUBSET OnField(b), NEW c \in Waits(Fainted(b, set))
  PROVE  /\ Stands(c) /\ c.faint = set /\ Filling(c, set)
         /\ set \in SUBSET Figures /\ Settled(Batch(c, InOrder(set)))
<1> DEFINE f == Fainted(b, set)
<1>1. Stands(f) /\ f.faint = set /\ Filling(f, set)
  BY FaintedIs
<1> HIDE DEF f
<1>2. c = f \/ \E some \in SUBSET Figures, n \in AttackWaits : c = Waiting(f, some, n)
  BY DEF Waits, f
<1>3. Stands(c) /\ c.faint = set /\ Filling(c, set)
  BY <1>1, <1>2, BoardAssumption, WaitingIs
<1>4. set \in SUBSET Figures
  BY DEF OnField
<1>5. Enumerates(InOrder(set), set)
  BY <1>4, InOrderIs
<1> QED BY <1>3, <1>4, <1>5, BatchSettles

LEMMA KnockoutIs ==
  ASSUME CenterInv, NEW p \in Figures, NEW q \in Figures, Knockout(p, q)
  PROVE  \E set, c :
           /\ set \in SUBSET Figures /\ staged = Nobody
           /\ Stands(c) /\ c.faint = set /\ Filling(c, set) /\ Settled(Batch(c, InOrder(set)))
           /\ \/ Finish({Batch(c, InOrder(set))}, {p, q})
              \/ Stage(c, set, q) /\ start' = c /\ mover' = p /\ order' = order
<1>1. PICK b \in Begun(p, q) : \E set \in SUBSET OnField(b) \ {{}} : \E c \in Waits(Fainted(b, set)) :
         \/ Finish({Batch(c, InOrder(set))}, {p, q})
         \/ Stage(c, set, q) /\ start' = c /\ mover' = p /\ order' = order
  BY DEF Knockout
<1>2. PICK set \in SUBSET OnField(b) \ {{}} : \E c \in Waits(Fainted(b, set)) :
         \/ Finish({Batch(c, InOrder(set))}, {p, q})
         \/ Stage(c, set, q) /\ start' = c /\ mover' = p /\ order' = order
  BY <1>1
<1>3. Settled(b) /\ staged = Nobody
  BY FightIs DEF Knockout, AllSettled
<1> QED BY <1>2, <1>3, FaintWaits

LEMMA KnockoutHolds ==
  ASSUME CenterInv, NEW p \in Figures, NEW q \in Figures, Knockout(p, q)
  PROVE  CenterInv'
<1>1. PICK set, c :
           /\ set \in SUBSET Figures
           /\ Stands(c) /\ c.faint = set /\ Filling(c, set) /\ Settled(Batch(c, InOrder(set)))
           /\ \/ Finish({Batch(c, InOrder(set))}, {p, q})
              \/ Stage(c, set, q) /\ mover' = p
  BY KnockoutIs
<1>2. AllSettled({Batch(c, InOrder(set))})
  BY <1>1 DEF AllSettled
<1> QED BY <1>1, <1>2, FinishHolds, StageHolds

\* Room is made, the picked one leaves, or all who are left do.
LEMMA PerformIs ==
  ASSUME PerformKnockout
  PROVE  \/ /\ Stage(MadeRoom(board, staged.pick), staged.left, staged.opponent)
            /\ mover' = mover /\ start' = start /\ order' = order
         \/ /\ Stage(Relocated(board, staged.pick), staged.left \ {staged.pick}, staged.opponent)
            /\ mover' = mover /\ start' = start /\ order' = Append(order, staged.pick)
         \/ Finish({Batch(board, Leaving)}, {mover, staged.opponent})
BY DEF PerformKnockout

LEMMA PerformKnockoutHolds == ASSUME CenterInv, PerformKnockout PROVE CenterInv'
<1> DEFINE p == staged.pick
           left == staged.left
           b == MadeRoom(board, p)
           c == Relocated(board, p)
<1>1. /\ Stands(board) /\ mover \in Figures /\ left \in SUBSET Figures /\ p \in left
      /\ staged.opponent \in Figures /\ board.faint = left /\ Filling(board, left)
      /\ staged # Nobody
  BY DEF PerformKnockout, CenterInv, StagedOK
<1>2. left \subseteq OnField(board)
  BY <1>1 DEF Stands, Marks
<1>3. Settled(Batch(board, Leaving))
  BY <1>1, LeavingFits
<1>4. \/ Stage(b, left, staged.opponent) /\ mover' = mover
      \/ Stage(c, left \ {p}, staged.opponent) /\ mover' = mover
      \/ Finish({Batch(board, Leaving)}, {mover, staged.opponent})
  BY PerformIs
<1> HIDE DEF b, c, p, left
<1>5. CASE Stage(b, left, staged.opponent) /\ mover' = mover
  <2>1. Stands(b) /\ Filling(b, left) /\ b.faint = left
    BY <1>1, MadeRoomIs DEF b
  <2> QED BY <1>1, <1>5, <2>1, StageHolds
<1>6. CASE Stage(c, left \ {p}, staged.opponent) /\ mover' = mover
  <2>1. Stands(c) /\ Filling(c, left \ {p}) /\ c.faint = left \ {p}
    BY <1>1, <1>2, RelocatedIs DEF c
  <2>2. left \ {p} \in SUBSET Figures
    BY <1>1
  <2> QED BY <1>1, <1>6, <2>1, <2>2, StageHolds
<1>7. CASE Finish({Batch(board, Leaving)}, {mover, staged.opponent})
  BY <1>3, <1>7, FinishHolds DEF AllSettled
<1> QED BY <1>4, <1>5, <1>6, <1>7

LEMMA NextStands == CenterInv /\ [CenterNext]_centerVars => CenterInv'
<1> SUFFICES ASSUME CenterInv, [CenterNext]_centerVars PROVE CenterInv'
  OBVIOUS
<1>1. CASE \E p \in Figures, to \in Points : MpMove(p, to) \/ SpotMove(p, to)
  BY <1>1, MpMoveHolds, SpotMoveHolds
<1>2. CASE \E p, q \in Figures : SwapMove(p, q)
  BY <1>2, SwapMoveHolds
<1>3. CASE NullMove \/ Touch
  BY <1>3, NullMoveHolds, TouchHolds
<1>4. CASE \E p, q \in Figures : \/ CancelledBattle(p, q) \/ QuietBattle(p, q)
                                 \/ Leap(p, q) \/ Knockout(p, q)
  BY <1>4, CancelledBattleHolds, QuietBattleHolds, LeapHolds, KnockoutHolds
<1>5. CASE PerformKnockout
  BY <1>5, PerformKnockoutHolds
<1>6. CASE UNCHANGED centerVars
  BY <1>6 DEF centerVars, CenterInv
<1> QED BY <1>1, <1>2, <1>3, <1>4, <1>5, <1>6 DEF CenterNext

\* However the players move, swap, battle and decline, and in whatever order the
\* knocked out leave, CenterInv holds.
THEOREM CenterInvariance == CenterSpec => []CenterInv
<1>1. CenterInit => CenterInv
  BY InitStands
<1>2. CenterInv /\ [CenterNext]_centerVars => CenterInv'
  BY NextStands
<1> QED BY <1>1, <1>2, PTL DEF CenterSpec

\* No two figures in one place, a Center entered from above, marks on the field
\* only: for any number of figures and points (applyPositionMove,
\* applyKnockoutRelocation, performPendingKnockouts).
THEOREM BoardStaysSound == CenterSpec => []BoardIsSound
<1>1. CenterInv => BoardIsSound
  <2> SUFFICES ASSUME CenterInv PROVE BoardIsSound
    OBVIOUS
  <2>1. Stands(board) /\ (staged = Nobody => Settled(board)) /\ (staged # Nobody => StagedOK(board, staged))
    BY DEF CenterInv
  <2>2. board.faint = IF staged = Nobody THEN {} ELSE staged.left
    BY <2>1 DEF Settled, StagedOK
  <2>3. ASSUME NEW p \in Figures, At(board, Lower(p)) # Nobody, At(board, Upper(p)) = Nobody
        PROVE  staged # Nobody /\ staged.left # {}
    <3>1. Gaping(board, p)
      BY <2>1, <2>3, AtIs DEF Gaping
    <3>2. staged # Nobody
      BY <2>1, <3>1, SettledIs
    <3>3. \E q \in staged.left : SameSide(p, q)
      BY <2>1, <3>1, <3>2 DEF StagedOK, Filling
    <3> QED BY <3>2, <3>3
  <2>4. \A p \in Figures : board.pos[p] \in Points \cup {Bench(p), Lower(p), Upper(p), Out(p)}
    BY <2>1 DEF Stands, Own
  <2>5. board.cursed \cup board.battled \subseteq OnField(board)
    BY <2>1 DEF Stands, Marks
  <2>6. \A p, q \in Figures : board.pos[p] = board.pos[q] => p = q
    BY <2>1 DEF Stands
  <2> QED BY <2>2, <2>3, <2>4, <2>5, <2>6 DEF BoardIsSound
<1> QED BY <1>1, CenterInvariance, PTL

\* The step of a knockout that the engine announced can always be taken: whoever
\* it picks next, the plan for all who are left fits (performPendingKnockouts).
THEOREM KnockoutsGoOn == CenterSpec => []KnockoutsNeverBlock
<1>1. CenterInv => KnockoutsNeverBlock
  BY LeavingFits DEF KnockoutsNeverBlock
<1> QED BY <1>1, CenterInvariance, PTL

-----------------------------------------------------------------------------
(***************************************************************************)
(* A step at a time or all at once.  Order says that the board is, but for *)
(* the room made, the one that the figures gone so far would leave, had    *)
(* they been knocked out at once: whoever of those left goes first, the    *)
(* end is the same.  Room made for one of them is used by the next of its  *)
(* side (RoomTaken) and is in nobody else's way (RoomElsewhere).           *)
(***************************************************************************)
Order == IF staged = Nobody THEN order = << >>
         ELSE /\ order \in Seq(Figures)
              /\ \A t : Enumerates(t, staged.left) =>
                   /\ Enumerates(order \o t, start.faint)
                   /\ Batch(start, order \o t) = Batch(board, t)

LEMMA SameBoard ==
  ASSUME NEW b \in Board, NEW c \in Board,
         \A x \in Figures : b.pos[x] = c.pos[x] /\ b.wait[x] = c.wait[x],
         b.faint = c.faint, b.cursed = c.cursed, b.battled = c.battled
  PROVE  b = c
<1>1. b.pos = c.pos /\ b.wait = c.wait
  BY DEF Board
<1> QED BY <1>1 DEF Board

\* Every field after room was made ...
LEMMA MadeRoomFields ==
  ASSUME NEW b, Stands(b), NEW p \in Figures
  PROVE  LET s == Sinking(b, p)
             q == Released(b, p)
             r == MadeRoom(b, p)
         IN /\ r \in Board
            /\ \A x \in Figures :
                 /\ r.pos[x] = IF x = q THEN Bench(x) ELSE IF x = s /\ q = Nobody THEN Lower(p) ELSE b.pos[x]
                 /\ r.wait[x] = IF x = q /\ x \notin Immune THEN 2 ELSE b.wait[x]
            /\ r.faint = b.faint /\ r.cursed = b.cursed /\ r.battled = b.battled
<1> DEFINE s == Sinking(b, p)
           q == Released(b, p)
           r == MadeRoom(b, p)
           c == Cleared(b, q)
<1>1. b \in Board
  BY DEF Stands
<1>2. CASE q # Nobody
  <2>1. Stands(r) /\ q \in Figures /\ r.pos = [b.pos EXCEPT ![q] = Bench(q)]
        /\ r.faint = b.faint /\ r.cursed = b.cursed /\ r.battled = b.battled
    BY <1>2, FreedIs, RoomIs DEF MadeRoom
  <2>2. c \in Board /\ c.wait = b.wait
    BY <1>1 DEF Cleared, Board
  <2>3. r = [c EXCEPT !.pos[q] = Bench(q), !.wait[q] = IF q \in Immune THEN @ ELSE 2]
    BY <1>2 DEF MadeRoom, Freed
  <2> HIDE DEF c, q, r
  <2>4. \A x \in Figures : r.wait[x] = IF x = q /\ x \notin Immune THEN 2 ELSE b.wait[x]
    BY <2>1, <2>2, <2>3 DEF Board
  <2>5. \A x \in Figures : r.pos[x] = IF x = q THEN Bench(x) ELSE b.pos[x]
    BY <1>1, <2>1 DEF Board
  <2> QED BY <1>2, <2>1, <2>4, <2>5 DEF Stands, q, r
<1>3. CASE q = Nobody /\ s = Nobody
  BY <1>1, <1>3, NobodyIsNoFigure DEF MadeRoom, Sunk
<1>4. CASE q = Nobody /\ s # Nobody
  <2>1. Stands(r) /\ s \in Figures /\ r.pos = [b.pos EXCEPT ![s] = Lower(p)]
        /\ r.faint = b.faint /\ r.cursed = b.cursed /\ r.battled = b.battled
    BY <1>4, SunkIs, RoomIs DEF MadeRoom
  <2>2. r = [b EXCEPT !.pos[s] = Lower(p)]
    BY <1>4 DEF MadeRoom, Sunk
  <2> HIDE DEF r, s, q
  <2>3. r.wait = b.wait
    BY <1>1, <2>2 DEF Board
  <2>4. \A x \in Figures : r.pos[x] = IF x = s THEN Lower(p) ELSE b.pos[x]
    BY <1>1, <2>1 DEF Board
  <2> QED BY <1>4, <2>1, <2>3, <2>4, NobodyIsNoFigure DEF Stands, q, r, s
<1> QED BY <1>2, <1>3, <1>4

LEMMA SameSinking ==
  ASSUME NEW b, Stands(b), NEW c, Stands(c), NEW p \in Figures, p \in b.cursed <=> p \in c.cursed,
         \A x \in Figures : b.pos[x] = Upper(p) <=> c.pos[x] = Upper(p)
  PROVE  Sinking(b, p) = Sinking(c, p)
<1>1. At(b, Upper(p)) = At(c, Upper(p))
  <2>1. CASE \A x \in Figures : b.pos[x] # Upper(p)
    BY <2>1, AtIs
  <2>2. CASE \E x \in Figures : b.pos[x] = Upper(p)
    BY <2>2, AtIs
  <2> QED BY <2>1, <2>2
<1> QED BY <1>1 DEF Sinking

LEMMA SameReleased ==
  ASSUME NEW b, Stands(b), NEW c, Stands(c), NEW p \in Figures, Sinking(b, p) = Sinking(c, p),
         \A x \in Figures : b.pos[x] = Lower(p) <=> c.pos[x] = Lower(p)
  PROVE  Released(b, p) = Released(c, p)
<1>1. At(b, Lower(p)) = At(c, Lower(p))
  <2>1. CASE \A x \in Figures : b.pos[x] # Lower(p)
    BY <2>1, AtIs
  <2>2. CASE \E x \in Figures : b.pos[x] = Lower(p)
    BY <2>2, AtIs
  <2> QED BY <2>1, <2>2
<1> QED BY <1>1 DEF Released

\* A first step of making room leaves at most the second to be done.
LEMMA RoomAgain ==
  ASSUME NEW b, Stands(b), NEW p \in Figures
  PROVE  LET m == MadeRoom(b, p)
         IN /\ Stands(m) /\ Released(m, p) = Nobody
            /\ Released(b, p) # Nobody => m = Freed(b, p) /\ Sinking(m, p) = Sinking(b, p)
            /\ Released(b, p) = Nobody => m = Sunk(b, p) /\ Sinking(m, p) = Nobody
<1> DEFINE s == Sinking(b, p)
           q == Released(b, p)
           m == MadeRoom(b, p)
<1>1. CASE q # Nobody
  <2>1. m = Freed(b, p) /\ Stands(m) /\ m.cursed = b.cursed
    BY <1>1, FreedIs DEF MadeRoom
  <2>2. /\ q \in Figures /\ b.pos[q] = Lower(p) /\ Lower(p) # Upper(p)
        /\ Bench(q) # Lower(p) /\ Bench(q) # Upper(p)
    BY <1>1, RoomIs, Places
  <2>3. \A x \in Figures : m.pos[x] = IF x = q THEN Bench(q) ELSE b.pos[x]
    BY <1>1, MadeRoomFields
  <2> HIDE DEF m, q
  <2>4. Sinking(m, p) = Sinking(b, p)
    BY <2>1, <2>2, <2>3, SameSinking
  <2>5. \A x \in Figures : m.pos[x] # Lower(p)
    BY <2>2, <2>3 DEF Stands
  <2>6. Released(m, p) = Nobody
    BY <2>1, <2>5, AtIs DEF Released
  <2> QED BY <1>1, <2>1, <2>4, <2>6 DEF m, q
<1>2. CASE q = Nobody /\ s = Nobody
  <2>1. m = b
    BY <1>2 DEF MadeRoom, Sunk
  <2> QED BY <1>2, <2>1 DEF MadeRoom
<1>3. CASE q = Nobody /\ s # Nobody
  <2>1. m = Sunk(b, p) /\ Stands(m) /\ m.cursed = b.cursed
    BY <1>3, SunkIs DEF MadeRoom
  <2>2. s \in Figures /\ b.pos[s] = Upper(p) /\ Lower(p) # Upper(p)
    BY <1>3, RoomIs, Places
  <2>3. \A x \in Figures : m.pos[x] = IF x = s THEN Lower(p) ELSE b.pos[x]
    BY <1>3, MadeRoomFields, NobodyIsNoFigure
  <2> HIDE DEF m, s, q
  <2>4. \A x \in Figures : m.pos[x] # Upper(p)
    BY <2>2, <2>3 DEF Stands
  <2>5. Sinking(m, p) = Nobody
    BY <2>1, <2>4, AtIs DEF Sinking
  <2> QED BY <1>3, <2>1, <2>5, RoomIs DEF m, q
<1> QED BY <1>1, <1>2, <1>3

\* ... and after p has left.
LEMMA RelocatedFields ==
  ASSUME NEW b, Stands(b), NEW p \in OnField(b)
  PROVE  LET s == Sinking(b, p)
             q == Released(b, p)
             r == Relocated(b, p)
         IN /\ r \in Board
            /\ \A x \in Figures :
                 /\ r.pos[x] = IF x = p THEN (IF p \in b.cursed THEN Out(p) ELSE Upper(p))
                               ELSE IF x = s THEN Lower(p) ELSE IF x = q THEN Bench(x) ELSE b.pos[x]
                 /\ r.wait[x] = IF x = p /\ p \in b.cursed THEN 0
                                ELSE IF x = q /\ x \notin Immune THEN 2 ELSE b.wait[x]
            /\ r.faint = b.faint \ {p} /\ r.cursed = b.cursed \ {p} /\ r.battled = b.battled \ {p}
<1> DEFINE s == Sinking(b, p)
           q == Released(b, p)
           r == Relocated(b, p)
           f == Freed(b, p)
           c == Sunk(f, p)
<1>1. b \in Board /\ p \in Figures
  BY FieldIs DEF Stands
<1>2. CASE p \in b.cursed
  <2>1. r = [Cleared(b, p) EXCEPT !.pos[p] = Out(p), !.wait[p] = 0] /\ s = Nobody /\ q = Nobody
    BY <1>2 DEF Relocated, Sinking, Released
  <2>2. Cleared(b, p) \in Board /\ Cleared(b, p).pos = b.pos /\ Cleared(b, p).wait = b.wait
        /\ Cleared(b, p).faint = b.faint \ {p} /\ Cleared(b, p).cursed = b.cursed \ {p}
        /\ Cleared(b, p).battled = b.battled \ {p}
    BY <1>1 DEF Cleared, Board
  <2>3. Stands(r)
    BY RelocatedIs
  <2> HIDE DEF r, s, q
  <2>4. /\ \A x \in Figures : /\ r.pos[x] = IF x = p THEN Out(p) ELSE b.pos[x]
                              /\ r.wait[x] = IF x = p THEN 0 ELSE b.wait[x]
        /\ r.faint = b.faint \ {p} /\ r.cursed = b.cursed \ {p} /\ r.battled = b.battled \ {p}
    BY <1>1, <2>1, <2>2 DEF Board
  <2> QED BY <1>2, <2>1, <2>3, <2>4, NobodyIsNoFigure DEF r, s, q, Stands
<1>3. CASE p \notin b.cursed
  <2>1. /\ c \in Board /\ c.faint = b.faint /\ c.cursed = b.cursed /\ c.battled = b.battled
        /\ \A x \in Figures :
             /\ c.pos[x] = IF x = s THEN Lower(p) ELSE IF x = q THEN Bench(x) ELSE b.pos[x]
             /\ c.wait[x] = IF x = q /\ x \notin Immune THEN 2 ELSE b.wait[x]
    <3>1. CASE q = Nobody
      <4>1. c = MadeRoom(b, p)
        BY <3>1 DEF MadeRoom, Freed
      <4> HIDE DEF c, s, f
      <4> QED BY <1>1, <3>1, <4>1, MadeRoomFields, NobodyIsNoFigure DEF s
    <3>2. CASE q # Nobody
      <4>1. f = MadeRoom(b, p) /\ Stands(f) /\ Released(f, p) = Nobody /\ Sinking(f, p) = s
        BY <1>1, <3>2, RoomAgain
      <4>2. c = MadeRoom(f, p)
        BY <4>1 DEF MadeRoom
      <4>3. /\ \A x \in Figures : /\ f.pos[x] = IF x = q THEN Bench(x) ELSE b.pos[x]
                                  /\ f.wait[x] = IF x = q /\ x \notin Immune THEN 2 ELSE b.wait[x]
            /\ f.faint = b.faint /\ f.cursed = b.cursed /\ f.battled = b.battled
        BY <1>1, <3>2, <4>1, MadeRoomFields
      <4> HIDE DEF c, s, f, q
      <4>4. /\ c \in Board /\ \A x \in Figures : /\ c.pos[x] = IF x = s THEN Lower(p) ELSE f.pos[x]
                                                 /\ c.wait[x] = f.wait[x]
            /\ c.faint = f.faint /\ c.cursed = f.cursed /\ c.battled = f.battled
        BY <1>1, <4>1, <4>2, MadeRoomFields, NobodyIsNoFigure
      <4> QED BY <4>3, <4>4
    <3> QED BY <3>1, <3>2
  <2>2. r = [Cleared(c, p) EXCEPT !.pos[p] = Upper(p)]
    BY <1>3 DEF Relocated
  <2> HIDE DEF c, s, q, r
  <2>3. /\ Cleared(c, p) \in Board /\ Cleared(c, p).pos = c.pos /\ Cleared(c, p).wait = c.wait
        /\ Cleared(c, p).faint = b.faint \ {p} /\ Cleared(c, p).cursed = b.cursed \ {p}
        /\ Cleared(c, p).battled = b.battled \ {p}
    BY <2>1 DEF Cleared, Board
  <2>4. Stands(r)
    BY RelocatedIs DEF r
  <2>5. /\ \A x \in Figures : /\ r.pos[x] = IF x = p THEN Upper(p) ELSE c.pos[x]
                              /\ r.wait[x] = c.wait[x]
        /\ r.faint = b.faint \ {p} /\ r.cursed = b.cursed \ {p} /\ r.battled = b.battled \ {p}
    BY <1>1, <2>1, <2>2, <2>3 DEF Board
  <2> QED BY <1>3, <2>1, <2>4, <2>5 DEF r, s, q, Stands
<1> QED BY <1>2, <1>3

\* The room made for p is the room x of its side needs ...
LEMMA RoomTaken ==
  ASSUME NEW b, Stands(b), NEW p \in OnField(b), NEW x \in OnField(b), SameSide(p, x),
         p \notin b.cursed, x \notin b.cursed
  PROVE  Relocated(MadeRoom(b, p), x) = Relocated(b, x)
<1> DEFINE m == MadeRoom(b, p)
<1>1. p \in Figures /\ x \in Figures /\ Upper(p) = Upper(x) /\ Lower(p) = Lower(x)
  BY FieldIs, Places
<1>2. Sinking(b, p) = Sinking(b, x) /\ Released(b, p) = Released(b, x)
  BY <1>1 DEF Sinking, Released
<1>3. m = MadeRoom(b, x)
  BY <1>1, <1>2 DEF MadeRoom, Freed, Sunk
<1> HIDE DEF m
<1>4. /\ Released(m, x) = Nobody /\ m.cursed = b.cursed
      /\ Released(b, x) # Nobody => m = Freed(b, x)
      /\ Released(b, x) = Nobody => m = Sunk(b, x) /\ Sinking(m, x) = Nobody
  BY <1>1, <1>3, RoomAgain, MadeRoomFields
<1>5. Freed(m, x) = m
  BY <1>4 DEF Freed
<1>6. Sunk(Freed(m, x), x) = Sunk(Freed(b, x), x)
  <2>1. CASE Released(b, x) # Nobody
    BY <1>4, <1>5, <2>1
  <2>2. CASE Released(b, x) = Nobody
    <3>1. Freed(b, x) = b
      BY <2>2 DEF Freed
    <3>2. Sunk(m, x) = m
      BY <1>4, <2>2 DEF Sunk
    <3> QED BY <1>4, <1>5, <2>2, <3>1, <3>2
  <2> QED BY <2>1, <2>2
<1> QED BY <1>4, <1>6 DEF Relocated, m


\* ... and in nobody else's way: not of the other side, nor of one that leaves the game.
LEMMA RoomElsewhere ==
  ASSUME NEW b, Stands(b), NEW p \in OnField(b), NEW x \in OnField(b), p # x,
         p \notin b.cursed, x \in b.cursed \/ ~SameSide(p, x)
  PROVE  Relocated(MadeRoom(b, p), x) = MadeRoom(Relocated(b, x), p)
<1> DEFINE s == Sinking(b, p)
           q == Released(b, p)
           u == Sinking(b, x)
           v == Released(b, x)
           m == MadeRoom(b, p)
           c == Relocated(b, x)
<1>1. p \in Figures /\ x \in Figures /\ b.pos[p] \in Points /\ b.pos[x] \in Points
  BY FieldIs
<1>2. /\ Stands(m)
      /\ \A y \in Figures :
           /\ m.pos[y] = IF y = q THEN Bench(y) ELSE IF y = s /\ q = Nobody THEN Lower(p) ELSE b.pos[y]
           /\ m.wait[y] = IF y = q /\ y \notin Immune THEN 2 ELSE b.wait[y]
      /\ m.faint = b.faint /\ m.cursed = b.cursed /\ m.battled = b.battled
  BY <1>1, RoomAgain, MadeRoomFields
<1>3. /\ Stands(c)
      /\ \A y \in Figures :
           /\ c.pos[y] = IF y = x THEN (IF x \in b.cursed THEN Out(x) ELSE Upper(x))
                         ELSE IF y = u THEN Lower(x) ELSE IF y = v THEN Bench(y) ELSE b.pos[y]
           /\ c.wait[y] = IF y = x /\ x \in b.cursed THEN 0
                          ELSE IF y = v /\ y \notin Immune THEN 2 ELSE b.wait[y]
      /\ c.faint = b.faint \ {x} /\ c.cursed = b.cursed \ {x} /\ c.battled = b.battled \ {x}
  BY RelocatedIs, RelocatedFields
<1>4. \A y \in {s, q} \ {Nobody} :
         /\ y \in Figures /\ SameSide(p, y) /\ y \notin OnField(b)
         /\ b.pos[y] \in {Upper(p), Lower(p)}
  BY <1>1, RoomIs
<1>5. \A y \in {u, v} \ {Nobody} :
         /\ y \in Figures /\ SameSide(x, y) /\ y \notin OnField(b) /\ x \notin b.cursed
         /\ b.pos[y] \in {Upper(x), Lower(x)}
  BY <1>1, RoomIs
<1>6. \A y \in {s, q} \ {Nobody} : y \notin {x, u, v}
  <2> SUFFICES ASSUME NEW y \in {s, q} \ {Nobody}, y \in {u, v} PROVE FALSE
    BY <1>4
  <2>1. y \in Figures /\ SameSide(p, y) /\ SameSide(x, y) /\ x \notin b.cursed
    BY <1>4, <1>5
  <2> QED BY <1>1, <2>1, Sides
<1>7. Nobody \notin Figures
  BY NobodyIsNoFigure
<1> HIDE DEF s, q, u, v, m, c
<1>8. x \in OnField(m)
  <2>1. m.pos[x] = b.pos[x]
    BY <1>1, <1>2, <1>6, <1>7
  <2> QED BY <1>1, <2>1, FieldIs
<1>9. Sinking(m, x) = u /\ Released(m, x) = v
  <2>1. CASE x \in b.cursed
    BY <1>2, <2>1 DEF Sinking, Released, u, v
  <2>2. CASE x \notin b.cursed
    <3>1. Upper(p) # Upper(x) /\ Lower(p) # Lower(x) /\ Upper(p) # Lower(x) /\ Lower(p) # Upper(x)
          /\ \A y \in Figures : Bench(y) # Upper(x) /\ Bench(y) # Lower(x)
      BY <1>1, <2>2, Places
    <3>2. \A y \in Figures : m.pos[y] # b.pos[y] => y \in {s, q} \ {Nobody}
      BY <1>2, <1>7
    <3>3. \A y \in {s, q} \ {Nobody} : m.pos[y] \in {Bench(y), Lower(p), Upper(p)}
      BY <1>2, <1>4
    <3>4. \A y \in Figures : /\ m.pos[y] = Upper(x) <=> b.pos[y] = Upper(x)
                             /\ m.pos[y] = Lower(x) <=> b.pos[y] = Lower(x)
      BY <1>4, <3>1, <3>2, <3>3
    <3>5. Sinking(m, x) = u
      BY <1>1, <1>2, <3>4, SameSinking DEF u
    <3> QED BY <1>1, <1>2, <3>4, <3>5, SameReleased DEF u, v
  <2> QED BY <2>1, <2>2
<1>10. Sinking(c, p) = s /\ Released(c, p) = q
  <2>1. \A y \in Figures : c.pos[y] # b.pos[y] => y \in {x, u, v} \ {Nobody}
    BY <1>3, <1>7
  <2>2. ASSUME NEW y \in {x, u, v} \ {Nobody}
        PROVE  c.pos[y] \notin {Upper(p), Lower(p)} /\ b.pos[y] \notin {Upper(p), Lower(p)}
    <3>1. CASE x \in b.cursed
      <4>1. y = x /\ c.pos[y] = Out(x)
        BY <1>1, <1>3, <1>5, <2>2, <3>1
      <4> QED BY <1>1, <4>1, Places
    <3>2. CASE x \notin b.cursed
      <4>1. Upper(p) # Upper(x) /\ Lower(p) # Lower(x) /\ Upper(p) # Lower(x) /\ Lower(p) # Upper(x)
            /\ \A z \in Figures : Bench(z) # Upper(p) /\ Bench(z) # Lower(p)
        BY <1>1, <3>2, Places
      <4>2. y \in Figures /\ c.pos[y] \in {Upper(x), Lower(x), Bench(y)}
        BY <1>1, <1>3, <1>5, <3>2
      <4>3. b.pos[y] \in Points \/ b.pos[y] \in {Upper(x), Lower(x)}
        BY <1>1, <1>5
      <4> QED BY <1>1, <4>1, <4>2, <4>3, Places
    <3> QED BY <3>1, <3>2
  <2>3. \A y \in Figures : /\ c.pos[y] = Upper(p) <=> b.pos[y] = Upper(p)
                           /\ c.pos[y] = Lower(p) <=> b.pos[y] = Lower(p)
    BY <2>1, <2>2
  <2>4. p \in c.cursed <=> p \in b.cursed
    BY <1>3
  <2>5. Sinking(c, p) = s
    BY <1>1, <1>3, <2>3, <2>4, SameSinking DEF s
  <2> QED BY <1>1, <1>3, <2>3, <2>5, SameReleased DEF s, q
<1> DEFINE l == Relocated(m, x)
           r == MadeRoom(c, p)
<1>11. /\ l \in Board
       /\ \A y \in Figures :
            /\ l.pos[y] = IF y = x THEN (IF x \in b.cursed THEN Out(x) ELSE Upper(x))
                          ELSE IF y = u THEN Lower(x) ELSE IF y = v THEN Bench(y) ELSE m.pos[y]
            /\ l.wait[y] = IF y = x /\ x \in b.cursed THEN 0
                           ELSE IF y = v /\ y \notin Immune THEN 2 ELSE m.wait[y]
       /\ l.faint = b.faint \ {x} /\ l.cursed = b.cursed \ {x} /\ l.battled = b.battled \ {x}
  BY <1>2, <1>8, <1>9, RelocatedFields
<1>12. /\ r \in Board
       /\ \A y \in Figures :
            /\ r.pos[y] = IF y = q THEN Bench(y) ELSE IF y = s /\ q = Nobody THEN Lower(p) ELSE c.pos[y]
            /\ r.wait[y] = IF y = q /\ y \notin Immune THEN 2 ELSE c.wait[y]
       /\ r.faint = c.faint /\ r.cursed = c.cursed /\ r.battled = c.battled
  BY <1>1, <1>3, <1>10, MadeRoomFields
<1> HIDE DEF l, r
<1>13. ASSUME NEW y \in Figures PROVE l.pos[y] = r.pos[y] /\ l.wait[y] = r.wait[y]
  <2>1. y = s \/ y = q => y \notin {x, u, v}
    BY <1>6, <1>7
  <2> QED BY <1>2, <1>3, <1>11, <1>12, <2>1
<1>14. l = r
  <2>1. l \in Board /\ r \in Board /\ l.faint = r.faint /\ l.cursed = r.cursed /\ l.battled = r.battled
    BY <1>3, <1>11, <1>12
  <2> QED BY <1>13, <2>1, SameBoard
<1> QED BY <1>14 DEF l, r, m, c

\* Room made for one who is to leave changes nothing of what is left in the end.
LEMMA RoomIsHarmless ==
  ASSUME NEW b, Stands(b), NEW left \in SUBSET OnField(b), NEW targets, Enumerates(targets, left),
         NEW p \in left
  PROVE  Batch(MadeRoom(b, p), targets) = Batch(b, targets)
<1> DEFINE gone(n) == {targets[i] : i \in 1..n}
           m == MadeRoom(b, p)
           f == Boards(b, targets)
           g == Boards(m, targets)
           Same(n) == g[n] = f[n] \/ (g[n] = MadeRoom(f[n], p) /\ p \notin gone(n))
           Wrong == {n \in Nat : n \in 0..Len(targets) /\ ~Same(n)}
<1>1. targets \in Seq(Figures) /\ Len(targets) \in Nat /\ p \in Figures /\ p \in OnField(b)
  BY FieldIs DEF Enumerates
<1>2. CASE p \in b.cursed
  <2>1. Sinking(b, p) = Nobody /\ Released(b, p) = Nobody
    BY <1>2 DEF Sinking, Released
  <2>2. MadeRoom(b, p) = b
    BY <2>1 DEF MadeRoom, Sunk
  <2> QED BY <2>2
<1>3. CASE p \notin b.cursed
  <2>1. /\ f[0] = b /\ \A n \in 1..Len(targets) : f[n] = Relocated(f[n - 1], targets[n])
        /\ g[0] = m /\ \A n \in 1..Len(targets) : g[n] = Relocated(g[n - 1], targets[n])
    BY <1>1, BoardsFollow
  <2>2. \A n \in 0..Len(targets) : StandsAfter(b, targets, f, n)
    BY BoardsStand
  <2> HIDE DEF f, g
  <2>3. Same(0)
    BY <2>1
  <2>4. ASSUME NEW n \in Wrong, \A k \in Wrong : n <= k PROVE FALSE
    <3>1. n \in 1..Len(targets) /\ n - 1 \in 0..Len(targets) /\ n - 1 \in Nat /\ n - 1 < n
      <4>1. n # 0
        BY <2>3
      <4> QED BY <1>1, <4>1
    <3>2. Same(n - 1)
      <4> HIDE DEF Same
      <4>1. n - 1 \notin Wrong
        <5> HIDE DEF Wrong
        <5>1. n \in Nat
          BY DEF Wrong
        <5> QED BY <2>4, <3>1, <5>1
      <4> QED BY <3>1, <4>1
    <3> DEFINE x == targets[n]
               c == f[n - 1]
    <3>3. x \in left /\ x \notin gone(n - 1)
      <4>1. \A i \in 1..(n - 1) : i \in 1..Len(targets) /\ i # n
        BY <1>1, <3>1
      <4> QED BY <3>1, <4>1 DEF Enumerates
    <3>4. gone(n) = gone(n - 1) \cup {x}
      <4>1. \A i : i \in 1..n <=> i \in 1..(n - 1) \/ i = n
        BY <3>1
      <4> QED BY <4>1
    <3>5. Stands(c) /\ OnField(c) = OnField(b) \ gone(n - 1) /\ c.cursed = b.cursed \ gone(n - 1)
      BY <2>2, <3>1 DEF StandsAfter
    <3>6. f[n] = Relocated(c, x) /\ g[n] = Relocated(g[n - 1], x)
      BY <2>1, <3>1
    <3>7. ~Same(n)
      BY <2>4
    <3> HIDE DEF x, c, gone
    <3>8. CASE g[n - 1] = c
      BY <3>6, <3>7, <3>8
    <3>9. CASE g[n - 1] = MadeRoom(c, p) /\ p \notin gone(n - 1)
      <4>1. p \in OnField(c) /\ x \in OnField(c) /\ p \notin c.cursed
        BY <1>1, <1>3, <3>3, <3>5, <3>9
      <4>2. CASE SameSide(p, x) /\ x \notin c.cursed
        <5>1. Relocated(MadeRoom(c, p), x) = Relocated(c, x)
          BY <3>5, <4>1, <4>2, RoomTaken
        <5> QED BY <3>6, <3>7, <3>9, <5>1
      <4>3. CASE ~(SameSide(p, x) /\ x \notin c.cursed)
        <5>1. p # x
          BY <1>1, <4>1, <4>3, Sides
        <5>2. Relocated(MadeRoom(c, p), x) = MadeRoom(Relocated(c, x), p)
          BY <3>5, <4>1, <4>3, <5>1, RoomElsewhere
        <5>3. p \notin gone(n)
          BY <3>4, <3>9, <5>1
        <5> QED BY <3>6, <3>7, <3>9, <5>2, <5>3
      <4> QED BY <4>2, <4>3
    <3> QED BY <3>2, <3>8, <3>9 DEF c
  <2>5. Wrong = {}
    <3>1. Wrong \in SUBSET Nat
      OBVIOUS
    <3> HIDE DEF Wrong
    <3> QED BY <2>4, <3>1, LeastMember
  <2>6. Same(Len(targets))
    <3> HIDE DEF Same
    <3> QED BY <1>1, <2>5
  <2>7. p \in gone(Len(targets))
    BY DEF Enumerates
  <2>8. g[Len(targets)] = f[Len(targets)]
    BY <2>6, <2>7
  <2> QED BY <2>8 DEF Batch, f, g
<1> QED BY <1>2, <1>3

\* The first of them leaves, and then the others.
LEMMA BatchFirst ==
  ASSUME NEW b, NEW p \in Figures, NEW rest \in Seq(Figures)
  PROVE  Batch(b, <<p>> \o rest) = Batch(Relocated(b, p), rest)
<1> DEFINE all == <<p>> \o rest
           f == Boards(b, all)
           g == Boards(Relocated(b, p), rest)
           Wrong == {n \in Nat : n \in 0..Len(rest) /\ f[n + 1] # g[n]}
<1>1. /\ all \in Seq(Figures) /\ Len(all) = Len(rest) + 1 /\ Len(rest) \in Nat
      /\ all[1] = p /\ \A i \in 1..Len(rest) : all[i + 1] = rest[i]
  OBVIOUS
<1> HIDE DEF all
<1>2. /\ f[0] = b /\ \A n \in 1..Len(all) : f[n] = Relocated(f[n - 1], all[n])
      /\ g[0] = Relocated(b, p) /\ \A n \in 1..Len(rest) : g[n] = Relocated(g[n - 1], rest[n])
  BY <1>1, BoardsFollow
<1> HIDE DEF f, g
<1>3. f[1] = g[0]
  <2>1. 1 \in 1..Len(all) /\ 1 - 1 = 0
    BY <1>1
  <2> QED BY <1>1, <1>2, <2>1
<1>4. ASSUME NEW n \in Wrong, \A k \in Wrong : n <= k PROVE FALSE
  <2>1. n \in Nat /\ n \in 0..Len(rest) /\ f[n + 1] # g[n]
    OBVIOUS
  <2>2. n # 0
    BY <1>3, <2>1
  <2>3. n \in 1..Len(rest) /\ n + 1 \in 1..Len(all) /\ n - 1 \in Nat /\ n - 1 \in 0..Len(rest)
        /\ n - 1 < n /\ (n - 1) + 1 = n /\ (n + 1) - 1 = n
    BY <1>1, <2>1, <2>2
  <2>4. n - 1 \notin Wrong
    <3> HIDE DEF Wrong
    <3> QED BY <1>4, <2>1, <2>3
  <2>5. f[n] = g[n - 1]
    BY <2>3, <2>4
  <2>6. f[n + 1] = Relocated(f[n], all[n + 1]) /\ g[n] = Relocated(g[n - 1], rest[n])
    BY <1>2, <2>3
  <2> QED BY <1>1, <2>1, <2>3, <2>5, <2>6
<1>5. Wrong = {}
  <2>1. Wrong \in SUBSET Nat
    OBVIOUS
  <2> HIDE DEF Wrong
  <2> QED BY <1>4, <2>1, LeastMember
<1>6. f[Len(rest) + 1] = g[Len(rest)]
  BY <1>1, <1>5
<1> QED BY <1>1, <1>6 DEF Batch, f, g, all

LEMMA KnockoutKeepsOrder ==
  ASSUME CenterInv, Order, NEW p \in Figures, NEW q \in Figures, Knockout(p, q)
  PROVE  Order'
<1>1. PICK set, c :
           /\ set \in SUBSET Figures /\ staged = Nobody /\ c.faint = set
           /\ \/ Finish({Batch(c, InOrder(set))}, {p, q})
              \/ Stage(c, set, q) /\ start' = c /\ order' = order
  BY KnockoutIs
<1>2. order = << >>
  BY <1>1 DEF Order
<1>3. CASE Finish({Batch(c, InOrder(set))}, {p, q})
  BY <1>3 DEF Finish, Order
<1>4. CASE Stage(c, set, q) /\ start' = c /\ order' = order
  <2>1. staged' # Nobody /\ staged'.left = set /\ board' = c /\ start' = c /\ order' = << >>
    BY <1>1, <1>2, <1>4, StageIs
  <2>2. ASSUME NEW t, Enumerates(t, set) PROVE << >> \o t = t
    BY <2>2 DEF Enumerates
  <2>3. << >> \in Seq(Figures)
    OBVIOUS
  <2> QED BY <1>1, <2>1, <2>2, <2>3 DEF Order
<1> QED BY <1>1, <1>3, <1>4

LEMMA PerformKnockoutKeepsOrder ==
  ASSUME CenterInv, Order, PerformKnockout
  PROVE  Order'
<1> DEFINE p == staged.pick
           left == staged.left
           b == MadeRoom(board, p)
           c == Relocated(board, p)
<1>1. /\ Stands(board) /\ left \in SUBSET Figures /\ p \in left
      /\ staged.opponent \in Figures /\ board.faint = left /\ staged # Nobody
  BY DEF PerformKnockout, CenterInv, StagedOK
<1>2. left \in SUBSET OnField(board)
  BY <1>1 DEF Stands, Marks
<1>3. /\ order \in Seq(Figures)
      /\ \A t : Enumerates(t, left) => /\ Enumerates(order \o t, start.faint)
                                       /\ Batch(start, order \o t) = Batch(board, t)
  BY <1>1 DEF Order
<1>4. \/ Stage(b, left, staged.opponent) /\ start' = start /\ order' = order
      \/ Stage(c, left \ {p}, staged.opponent) /\ start' = start /\ order' = Append(order, p)
      \/ Finish({Batch(board, Leaving)}, {mover, staged.opponent})
  BY PerformIs
<1> HIDE DEF b, c, p, left
<1>5. CASE Stage(b, left, staged.opponent) /\ start' = start /\ order' = order
  <2>1. staged' # Nobody /\ staged'.left = left /\ board' = b
    BY <1>1, <1>5, StageIs
  <2>2. ASSUME NEW t, Enumerates(t, left) PROVE Batch(b, t) = Batch(board, t)
    BY <1>1, <1>2, <2>2, RoomIsHarmless DEF b
  <2> QED BY <1>3, <1>5, <2>1, <2>2 DEF Order
<1>6. CASE Stage(c, left \ {p}, staged.opponent) /\ start' = start /\ order' = Append(order, p)
  <2>1. left \ {p} \in SUBSET Figures
    BY <1>1
  <2>2. staged' # Nobody /\ staged'.left = left \ {p} /\ board' = c
    BY <1>1, <1>6, <2>1, StageIs
  <2>3. p \in Figures /\ Append(order, p) \in Seq(Figures)
    BY <1>1, <1>3
  <2>4. ASSUME NEW t, Enumerates(t, left \ {p})
        PROVE  /\ Enumerates(Append(order, p) \o t, start.faint)
               /\ Batch(start, Append(order, p) \o t) = Batch(c, t)
    <3>1. t \in Seq(Figures)
      BY <2>4 DEF Enumerates
    <3>2. Append(order, p) \o t = order \o (<<p>> \o t)
      BY <1>3, <2>3, <3>1
    <3>3. Enumerates(<<p>> \o t, left)
      BY <1>1, <2>4, FirstOfAll
    <3>4. Batch(board, <<p>> \o t) = Batch(c, t)
      BY <2>3, <3>1, BatchFirst DEF c
    <3> QED BY <1>3, <3>2, <3>3, <3>4
  <2> QED BY <1>6, <2>2, <2>3, <2>4 DEF Order
<1>7. CASE Finish({Batch(board, Leaving)}, {mover, staged.opponent})
  BY <1>7 DEF Finish, Order
<1> QED BY <1>4, <1>5, <1>6, <1>7

LEMMA NextKeepsOrder == CenterInv /\ Order /\ [CenterNext]_centerVars => Order'
<1> SUFFICES ASSUME CenterInv, Order, [CenterNext]_centerVars PROVE Order'
  OBVIOUS
<1>1. CASE \E p \in Figures, to \in Points : MpMove(p, to) \/ SpotMove(p, to)
  BY <1>1 DEF MpMove, SpotMove, Idle, NoKnockouts, Order
<1>2. CASE \E p, q \in Figures : SwapMove(p, q)
  BY <1>2 DEF SwapMove, Idle, NoKnockouts, Order
<1>3. CASE NullMove \/ Touch
  BY <1>3 DEF NullMove, Touch, NoKnockouts, Order
<1>4. CASE \E p, q \in Figures : CancelledBattle(p, q) \/ QuietBattle(p, q) \/ Leap(p, q)
  BY <1>4 DEF CancelledBattle, QuietBattle, Leap, Fight, NoKnockouts, Finish, Order
<1>5. CASE \E p, q \in Figures : Knockout(p, q)
  BY <1>5, KnockoutKeepsOrder
<1>6. CASE PerformKnockout
  BY <1>6, PerformKnockoutKeepsOrder
<1>7. CASE UNCHANGED centerVars
  <2>1. staged' = staged /\ order' = order /\ start' = start /\ board' = board
    BY <1>7 DEF centerVars
  <2> QED BY <2>1 DEF Order
<1> QED BY <1>1, <1>2, <1>3, <1>4, <1>5, <1>6, <1>7 DEF CenterNext

\* While knocked out figures are still to leave, the board is one on the way to
\* what knocking them out at once makes of it, whatever the order of the rest
\* (performPendingKnockouts, completeKnockoutBatch).
THEOREM OrderInvariance == CenterSpec => []Order
<1>1. CenterInit => Order
  BY DEF CenterInit, Order
<1>2. CenterInv /\ Order /\ [CenterNext]_centerVars => Order'
  BY NextKeepsOrder
<1> QED BY <1>1, <1>2, CenterInvariance, PTL DEF CenterSpec

\* Knocking figures out by delayed steps, picked anew after each and with room
\* made a figure at a time, ends on a board that knocking them out at once, in
\* the order in which they left, ends on (completeKnockoutBatch).
THEOREM StepsMakeTheBatch == CenterSpec => StagedIsBatch
<1> DEFINE A == staged # Nobody /\ staged' = Nobody =>
                  LET left == order \o Leaving IN
                  /\ Range(left) = start.faint
                  /\ board' \in Settlements({Batch(start, left)}, {mover, staged.opponent})
<1>1. ASSUME CenterInv, Order, [CenterNext]_centerVars PROVE A
  <2> SUFFICES ASSUME staged # Nobody, staged' = Nobody
               PROVE  /\ Range(order \o Leaving) = start.faint
                      /\ board' \in Settlements({Batch(start, order \o Leaving)}, {mover, staged.opponent})
    OBVIOUS
  <2>1. PerformKnockout
    <3>1. ~UNCHANGED centerVars
      BY DEF centerVars
    <3>2. ~\E p \in Figures, to \in Points : MpMove(p, to) \/ SpotMove(p, to)
      BY DEF MpMove, SpotMove, Idle
    <3>3. ~\E p, q \in Figures : SwapMove(p, q)
      BY DEF SwapMove, Idle
    <3>4. ~NullMove /\ ~Touch
      BY DEF NullMove, Touch
    <3>5. ~\E p, q \in Figures : \/ CancelledBattle(p, q) \/ QuietBattle(p, q)
                                 \/ Leap(p, q) \/ Knockout(p, q)
      BY DEF CancelledBattle, QuietBattle, Leap, Knockout, Fight
    <3> QED BY <1>1, <3>1, <3>2, <3>3, <3>4, <3>5 DEF CenterNext
  <2>2. /\ staged.left \in SUBSET Figures /\ staged.opponent \in Figures
        /\ staged.left \ {staged.pick} \in SUBSET Figures
    BY <1>1 DEF CenterInv, StagedOK
  <2>3. Finish({Batch(board, Leaving)}, {mover, staged.opponent})
    BY <2>1, <2>2, PerformIs, StageIs
  <2>4. /\ Enumerates(order \o Leaving, start.faint)
        /\ Batch(start, order \o Leaving) = Batch(board, Leaving)
    BY <1>1, LeavingFits DEF Order
  <2>5. Range(order \o Leaving) = start.faint
    BY <2>4 DEF Range, Enumerates
  <2> QED BY <2>3, <2>4, <2>5 DEF Finish
<1>2. CenterInv /\ Order /\ [CenterNext]_centerVars => [A]_centerVars
  BY <1>1
<1> QED BY <1>2, CenterInvariance, OrderInvariance, PTL DEF CenterSpec, StagedIsBatch
=============================================================================
