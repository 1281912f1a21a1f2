--------------------------- MODULE MCMatchmaking ---------------------------
(* Model values, small limits and symmetries for checking Matchmaking. *)
EXTENDS Matchmaking, FiniteSets, TLC

CONSTANTS u1, u2, u3, s1, s1b, s2, s3, m1, m2, m3

\* Three accounts with one bearer each.
OneDevice ==
  [s \in Sessions |-> CASE s = s1 -> u1 [] s = s2 -> u2 [] OTHER -> u3]

\* Two accounts, the first with two devices and so two bearers.
TwoDevices == (s1 :> u1) @@ (s1b :> u1) @@ (s2 :> u2)

\* Accounts with one bearer each are interchangeable, and so are identifiers.
BearerOf(u) == CHOOSE s \in Sessions : Owner[s] = u
AccountSymmetry ==
  {p @@ [s \in Sessions |-> BearerOf(p[Owner[s]])] : p \in Permutations(Users)}
IdSymmetry == Permutations(MatchIds)
Symmetry == {a @@ i : a \in AccountSymmetry, i \in IdSymmetry}

\* Either three accounts contend, or three identifiers are in use or stored.
Known == {u \in Users : \/ Cardinality({s \in authorized : Owner[s] = u}) = 0
                        \/ waiting[u] # None
                        \/ \E m \in MatchIds : \/ matches[m] # None /\ u \in Players(matches[m])
                                               \/ completed[m] # None /\ u \in Players(completed[m])}
InUse == {m \in MatchIds : \/ matches[m] # None \/ completed[m] # None
                           \/ \E u \in Users : waiting[u] # None /\ waiting[u].room = m}
Small == Cardinality(InUse) <= 2 \/ Cardinality(Known) <= 2
=============================================================================
