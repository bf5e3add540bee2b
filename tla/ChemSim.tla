------------------------------ MODULE ChemSim ------------------------------
(***************************************************************************)
(* The chemistry program: droplet_programs/chemSim/chem_sim_refactor.c and *)
(* the search of moleculesData.c.                                          *)
(*                                                                         *)
(* A droplet plays an atom.  In its slot of the frame it broadcasts its    *)
(* orbitals, its bonds and the molecule it believes to be part of; who     *)
(* hears it compares the free energies of two reactions and bonds, breaks  *)
(* a bond or corrects its own molecule.  Nobody acknowledges anything:     *)
(* each side forms and breaks its half of a bond by what it last heard.    *)
(*                                                                         *)
(* Atoms are hydrogen or carbon, as init chooses them, so bonds are        *)
(* covalent and the ionic branches are not reached.  A molecule is a set:  *)
(* the list begins with the droplet itself, and the order of the rest      *)
(* matters to two steps (Without, Lists), which take any order.  Colours,  *)
(* blinking, the neighbours' positions and printing are left out.          *)
(***************************************************************************)
EXTENDS Integers, FiniteSets, TLC

CONSTANTS
  Droplets,
  Carbons,     \* those that play carbon; the others play hydrogen
  NoBond,      \* 0 in bonded_atoms
  NoPlace,     \* 0xFFFF in bonded_atoms: hydrogen has one orbital
  MaxAtoms,    \* MAX_ATOMS_IN_MC
  MaxNear,     \* MAX_NEAR_ATOMS
  ChemBudgets  \* bounds on a behaviour, as chemBudget

ChemAssumption ==
  /\ Carbons \subseteq Droplets /\ IsFiniteSet(Droplets)
  /\ MaxAtoms \in Nat \ {0, 1} /\ MaxNear \in Nat
  /\ ChemBudgets \subseteq [pairs : SUBSET (SUBSET Droplets), slots : Nat, scrubs : Nat]
  /\ NoBond \notin Droplets /\ NoPlace \notin Droplets /\ NoBond # NoPlace
ASSUME ChemAssumption

Orbitals == 0 .. 3
Free     == 1                          \* an electron without a partner
Absent   == -1

VARIABLES
  orbital,    \* per droplet and orbital: Absent, Free, or 2..4, the type of its bond
  bonded,     \* bonded_atoms
  molecule,   \* my_molecule
  overfull,   \* the droplets whose list has been too short for an update, since they
              \* were last alone
  near,       \* near_atoms: the bonds of a neighbour as it last told them
  said,       \* the last state message of a droplet
  unheard,    \* the droplets in whose queue it still is
  chemBudget  \* [pairs, slots, scrubs]: which droplets are in reach of each other, and
              \* how many slots and scrubs there are before they are stopped

chemVars == <<orbital, bonded, molecule, overfull, near, said, unheard, chemBudget>>

Silence == [kind |-> "silence"]

Places(d) == IF d \in Carbons THEN Orbitals ELSE {0}

\* initAtomState and initBondedAtoms
ChemInit ==
  /\ orbital = [d \in Droplets |-> [i \in Orbitals |-> IF i \in Places(d) THEN Free ELSE Absent]]
  /\ bonded = [d \in Droplets |-> [i \in Orbitals |-> IF i \in Places(d) THEN NoBond ELSE NoPlace]]
  /\ molecule = [d \in Droplets |-> {d}] /\ overfull = {}
  /\ near = [d \in Droplets |-> [e \in {} |-> {}]]
  /\ said = [d \in Droplets |-> Silence] /\ unheard = [d \in Droplets |-> {}]
  /\ chemBudget \in ChemBudgets

----------------------------------------------------------------------------
\* What the search finds for c carbons and h hydrogens, in hJ/mol
NotFound == 32767
Formulas == {<<0, 1>>, <<0, 2>>} \union ({1} \X (0 .. 4)) \union {<<2, 0>>, <<2, 1>>, <<2, 2>>}
Table == [f \in Formulas |->
            CASE f = <<0, 1>> -> 1838 [] f = <<0, 2>> -> 35   [] f = <<1, 0>> -> 6700
              [] f = <<1, 1>> -> 5396 [] f = <<1, 2>> -> 3286 [] f = <<1, 3>> -> 878
              [] f = <<1, 4>> -> -505 [] f = <<2, 0>> -> 7783 [] f = <<2, 1>> -> 4152
              [] f = <<2, 2>> -> 2107]
Search(f) == IF f \in Formulas THEN Table[f] ELSE NotFound

Formula(atoms) == <<Cardinality(atoms \cap Carbons), Cardinality(atoms \ Carbons)>>
Plus(f, d)  == IF d \in Carbons THEN <<f[1] + 1, f[2]>> ELSE <<f[1], f[2] + 1>>
Minus(f, d) == IF d \in Carbons THEN <<f[1] - 1, f[2]>> ELSE <<f[1], f[2] - 1>>
\* The energy of what is left: none if nothing is.
Rest(f) == IF f = <<0, 0>> THEN 0 ELSE Search(f)

\* other_without_me: one atom of the droplet's kind is left out, or the last
\* of the list if there is none.
Without(f, d) == {Minus(f, e) : e \in {x \in Droplets : Minus(f, x) \in Nat \X Nat
                                        /\ (Minus(f, d) \in Nat \X Nat => x = d)}}

\* The energy of the two reactions: the other joins the droplet's molecule,
\* or the droplet joins the other's.  If the other has its half of the bond it
\* takes one of them to have happened.
Energies(d, mine, other, theirs, half) ==
  LET S == Formula(mine)
      O == Formula(theirs)
  IN  IF half
      THEN {<<Search(Plus(S, other)) - (Search(S) + Search(Formula({other}))),
              (Rest(Minus(S, d)) + Search(O)) - (Rest(w) + Search(S))>> : w \in Without(O, d)}
      ELSE {<<(Search(Plus(S, other)) + Rest(Minus(O, other))) - (Search(S) + Search(O)),
              (Rest(Minus(S, d)) + Search(Plus(O, d))) - (Search(S) + Search(O))>>}

\* Equal energies count as favourable.
Favoured(e, half) ==
  IF e[1] = e[2] THEN (IF half THEN 2 ELSE 1)
  ELSE IF e[1] < e[2] /\ e[1] < 0 THEN 1
  ELSE IF e[2] < e[1] /\ e[2] < 0 THEN 2 ELSE 0

energyCheck(d, mine, other, theirs, half) ==
  {Favoured(e, half) : e \in Energies(d, mine, other, theirs, half)}

----------------------------------------------------------------------------
\* An atom as the functions change it: [o, b, m].
Self(d) == [o |-> orbital[d], b |-> bonded[d], m |-> molecule[d]]
Partners(b) == {e \in Droplets : \E i \in Orbitals : b[i] = e}

\* addToMolecule for each atom of `told`, those of `first` before the others,
\* and then of `kept`, to a list that holds d: a full list refuses the rest.
Lists(d, first, told, kept) ==
  LET all == {d} \union told \union kept
  IN  IF Cardinality(all) <= MaxAtoms THEN {all}
      ELSE {S \in SUBSET all : /\ d \in S /\ Cardinality(S) = MaxAtoms
                               /\ first \subseteq S \/ S \subseteq {d} \union first
                               /\ told \subseteq S \/ S \subseteq {d} \union told}

removeFromMolecule(atoms, e) == atoms \ {e}

\* A list begins with the droplet that tells it.
joinNewMolecule(d, other, atoms) == Lists(d, {other}, atoms, {})

breakBond(d, a, other) ==
  LET hit == {i \in Orbitals : a.b[i] = other}
      b   == [i \in Orbitals |-> IF i \in hit THEN NoBond ELSE a.b[i]]
  IN  [o |-> [i \in Orbitals |-> IF i \in hit THEN Free ELSE a.o[i]],
       b |-> b,
       m |-> IF Partners(b) = {} THEN {d} ELSE removeFromMolecule(a.m, other)]

\* Every bond is broken, one after the other.
Alone(d, a) ==
  IF Partners(a.b) = {} THEN a
  ELSE [o |-> [i \in Orbitals |-> IF a.b[i] \in {NoBond, NoPlace} THEN a.o[i] ELSE Free],
        b |-> [i \in Orbitals |-> IF a.b[i] = NoPlace THEN NoPlace ELSE NoBond],
        m |-> {d}]

Least(n, m) == IF n < m THEN n ELSE m
FreeOf(o) == {i \in Orbitals : o[i] = Free}

\* mutant: a triple bond gets the type of four orbitals
TypeUncut(n) == IF n = 3 THEN 5 ELSE n + 1
TypeOf(n) == n + 1

\* How many bonds the other could make with this droplet
RoomOf(d, msg, rxn) ==
  Cardinality({i \in Orbitals : msg.b[i] = d}) +
  Cardinality({i \in Orbitals : \/ rxn = 2 /\ msg.o[i] = Free
                                \/ rxn = 1 /\ msg.o[i] # Absent /\ msg.b[i] # d})

\* To join another molecule every bond is given up first.
LeaveFor(d, a, rxn) == IF rxn = 2 THEN Alone(d, a) ELSE a

\* attemptToBond and, if that succeeds, joinNewMolecule: the atoms that may
\* come of it
attemptToBond(d, a, other, msg, rxn) ==
  LET room == RoomOf(d, msg, rxn)
      left == LeaveFor(d, a, rxn)
      n    == Least(Least(Cardinality(FreeOf(left.o)), room), 3)
      taken == {i \in FreeOf(left.o) : Cardinality({j \in FreeOf(left.o) : j < i}) < n}
      full == rxn = 1 /\ Cardinality(left.m) >= MaxAtoms
  IN  IF room = 0 THEN {a}
      ELSE IF n = 0 \/ full THEN {left}
      ELSE {[o |-> [i \in Orbitals |-> IF i \in taken THEN TypeOf(n) ELSE left.o[i]],
             b |-> [i \in Orbitals |-> IF i \in taken THEN other ELSE left.b[i]],
             m |-> S] : S \in IF rxn = 1 THEN {left.m \union {other}} ELSE joinNewMolecule(d, other, msg.m)}

\* The atoms in a droplet's list that it is bonded to
Kept(a) == a.m \cap Partners(a.b)

\* mutant: the bonded atoms are not kept
UpdateReplaces(d, a, first, atoms) == {[a EXCEPT !.m = S] : S \in Lists(d, first, atoms, {})}

\* updateMolecule: the atoms told, and those that this one is bonded to
updateMolecule(d, a, first, atoms) == {[a EXCEPT !.m = S] : S \in Lists(d, first, atoms, Kept(a))}

\* cleanMyMolecule
Cleaned(a, other, msg, half) ==
  IF other \in a.m /\ ~half /\ Partners(msg.b) \cap a.m = {} THEN [a EXCEPT !.m = removeFromMolecule(@, other)] ELSE a

\* The atoms that msgState may leave a droplet with: the energies of
\* Without make it a set.
msgState(d, other, msg) ==
  LET half  == d \in Partners(msg.b)
      a     == Self(d)
      overlap == a.m # {d} \/ msg.m # {other}
      tangled == overlap /\ Cardinality(msg.m \cap a.m) > 1 /\ ~half
      c     == Cleaned(a, other, msg, half)
      reactions == IF other \in c.m \/ tangled THEN {0} ELSE energyCheck(d, c.m, other, msg.m, half)
      results(rxn) == IF rxn = 0 THEN {c} ELSE attemptToBond(d, c, other, msg, rxn)
  IN  IF other \notin Partners(a.b) THEN UNION {results(rxn) : rxn \in reactions}
      ELSE IF half THEN updateMolecule(d, a, {other}, msg.m)
      ELSE {breakBond(d, a, other)}

\* scrubMyMolecule: the atoms in reach by the bonds that the droplet has and
\* those that its neighbours told.  (The search marks its own droplet, which
\* is not among the neighbours, at index 0xFF of an array that is shorter.)
Reach(d) ==
  LET next(S) == S \union {e \in DOMAIN near[d] : \/ e \in Partners(bonded[d])
                                                \/ \E x \in S \ {d} : e \in near[d][x]}
      from[n \in 0 .. Cardinality(Droplets)] == IF n = 0 THEN {d} ELSE next(from[n - 1])
  IN  from[Cardinality(Droplets)]

----------------------------------------------------------------------------
\* Droplet d becomes atom a; an update is to put `wanted` into its list.
Becomes(d, a, wanted) ==
  /\ orbital' = [orbital EXCEPT ![d] = a.o] /\ bonded' = [bonded EXCEPT ![d] = a.b]
  /\ molecule' = [molecule EXCEPT ![d] = a.m]
  /\ overfull' = IF Partners(a.b) = {} THEN overfull \ {d}
                 ELSE IF Cardinality(wanted) <= MaxAtoms THEN overfull ELSE overfull \union {d}

Present    == UNION chemBudget.pairs
Hearers(d) == {e \in Droplets \ {d} : {d, e} \in chemBudget.pairs}

\* loop: the droplet's slot begins.
Broadcast(d) ==
  /\ chemBudget.slots > 0 /\ chemBudget' = [chemBudget EXCEPT !.slots = @ - 1]
  /\ said' = [said EXCEPT ![d] = Self(d)] /\ unheard' = [unheard EXCEPT ![d] = Hearers(d)]
  /\ UNCHANGED <<orbital, bonded, molecule, overfull, near>>

\* What a droplet knows of its neighbours, when s tells its bonds
addToNearAtoms(known, s, partners) ==
  IF Cardinality(DOMAIN known) < MaxNear THEN (s :> partners) @@ known ELSE known
updateNearAtoms(known, s, partners) ==
  IF s \in DOMAIN known THEN [known EXCEPT ![s] = partners]
  ELSE addToNearAtoms(known, s, partners)

\* handle_msg.  A message that is not received whole is never handled.
Hear(d, s) ==
  /\ d \in unheard[s] /\ unheard' = [unheard EXCEPT ![s] = @ \ {d}]
  /\ said' = [said EXCEPT ![s] = IF unheard[s] = {d} THEN Silence ELSE @]
  /\ near' = [near EXCEPT ![d] = updateNearAtoms(@, s, Partners(said[s].b))]
  /\ LET updates == s \in Partners(bonded[d]) /\ d \in Partners(said[s].b)
     IN  \E a \in msgState(d, s, said[s]) :
           Becomes(d, a, IF updates THEN {d} \union said[s].m \union Kept(Self(d)) ELSE {})
  /\ UNCHANGED chemBudget

\* loop: the last slot of the frame begins.
Scrub(d) ==
  /\ chemBudget.scrubs > 0 /\ chemBudget' = [chemBudget EXCEPT !.scrubs = @ - 1]
  /\ \E a \in updateMolecule(d, Self(d), Reach(d) \cap Partners(bonded[d]), Reach(d)) :
       Becomes(d, a, {d} \union Reach(d) \union Kept(Self(d)))
  /\ UNCHANGED <<near, said, unheard>>

ChemNext == \E d \in Present : \/ Broadcast(d) \/ Scrub(d)
                               \/ \E s \in Present : Hear(d, s)

ChemSpec == ChemInit /\ [][ChemNext]_chemVars

----------------------------------------------------------------------------
\* A droplet without bonds is alone in its molecule, and as long as no list was
\* too long for it, a droplet's molecule holds the atoms it is bonded to,
\* whatever it heard in what order.
MoleculeHoldsBonds ==
  \A d \in Droplets : /\ d \in molecule[d]
                      /\ Partners(bonded[d]) = {} => molecule[d] = {d}
                      /\ d \notin overfull => Partners(bonded[d]) \subseteq molecule[d]

\* The orbitals tell the bonds: a bond of n orbitals is of type n + 1 in each
\* of them, and at most triple; all others are as they were at first.
OrbitalsTellBonds ==
  \A d \in Droplets : \A i \in Orbitals :
    LET same == {j \in Orbitals : bonded[d][j] = bonded[d][i]}
    IN  CASE bonded[d][i] = NoBond  -> orbital[d][i] = Free
          [] bonded[d][i] = NoPlace -> orbital[d][i] = Absent
          [] OTHER -> Cardinality(same) <= 3 /\ orbital[d][i] = Cardinality(same) + 1
=============================================================================
