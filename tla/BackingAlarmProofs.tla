------------------------- MODULE BackingAlarmProofs -------------------------
(***************************************************************************)
(* A pass that ends clear was backed, and a deficit that was none is         *)
(* explained, for every chain, every bound and every amount that the         *)
(* assumptions of BackingAlarm allow.                                        *)
(*                                                                          *)
(* The argument: a tip that was left never comes back, so the vault that is  *)
(* read at the admitted tip is the vault of the inventory; the burns that    *)
(* are not counted are unlocked rows; and a payout that is final when it is  *)
(* reconstructed was paid when the vault was read, unless the decision has   *)
(* lapsed, and then the pass does not decide, or a reorganisation within the *)
(* pass was as deep as finality.  The rest is that a sum over a finite set   *)
(* is at least the sum over a subset.                                        *)
(***************************************************************************)
EXTENDS BackingAlarm, FiniteSetTheorems, TLAPS

-----------------------------------------------------------------------------
(* Sums. *)

\* A set of finite sets has a smallest one: induction over finite sets, in the
\* form of a counterexample that has none below it.
LEMMA SmallestSet ==
    ASSUME NEW S, IsFiniteSet(S), NEW X, X \subseteq SUBSET S, X # {}
    PROVE  \E T \in X : \A U \in X : U \subseteq T => U = T
<1>1. IsWellFoundedOn(StrictSubsetOrdering(S), SUBSET S)
  BY FS_StrictSubsetOrderingWellFounded, FS_FiniteSubsetsOfFinite
<1>2. PICK T \in X : \A U \in X : ~(<<U, T>> \in StrictSubsetOrdering(S))
  BY <1>1, WFMin
<1>3. ASSUME NEW U \in X, U \subseteq T PROVE U = T
  <2>0. U \in SUBSET S /\ T \in SUBSET S
    OBVIOUS
  <2>1. /\ <<U, T>>[1] = U /\ <<U, T>>[2] = T
        /\ <<U, T>> \in (SUBSET S) \X (SUBSET S)
    BY <2>0
  <2>2. <<U, T>> \notin StrictSubsetOrdering(S)
    BY <1>2
  <2> QED
    BY <1>3, <2>1, <2>2, Zenon DEF StrictSubsetOrdering
<1> QED
  BY <1>2, <1>3

Some(s) == CHOOSE x \in s : TRUE

LEMMA Chosen == ASSUME NEW s, s # {} PROVE Some(s) \in s
  BY Zenon DEF Some

\* The equation of Total's recursion over the subsets of S.
Sum(g, s) == IF s = {} THEN 0 ELSE Amount[Some(s)] + g[s \ {Some(s)}]
Sums(S, g) == g = [s \in SUBSET S |-> Sum(g, s)]
Solvable(S) == \E g : Sums(S, g)

LEMMA TotalIs == ASSUME NEW S PROVE Total(S) = (CHOOSE g : Sums(S, g))[S]
  BY DEF Total, MapThenSumSet, MapThenFoldSet, Sums, Sum, Some

\* A sum depends on what is left of the set when an element is taken out.
LEMMA SumAgrees ==
    ASSUME NEW s, NEW f, NEW g, s # {} => f[s \ {Some(s)}] = g[s \ {Some(s)}]
    PROVE  Sum(f, s) = Sum(g, s)
  BY Zenon DEF Sum

LEMMA SumsOf ==
    ASSUME NEW S, NEW g, Sums(S, g), NEW s \in SUBSET S
    PROVE  g[s] = Sum(g, s)
  BY Zenon DEF Sums

LEMMA SumsUnique ==
    ASSUME NEW S, IsFiniteSet(S), NEW f, NEW g, Sums(S, f), Sums(S, g)
    PROVE  f = g
<1>1. PICK X : X = {s \in SUBSET S : f[s] # g[s]}
  OBVIOUS
<1>2. X = {}
  <2> SUFFICES ASSUME X # {} PROVE FALSE
    OBVIOUS
  <2>1. PICK T \in X : \A U \in X : U \subseteq T => U = T
    BY <1>1, SmallestSet
  <2>2. T \in SUBSET S /\ f[T] # g[T]
    BY <1>1, <2>1
  <2>3. ASSUME T # {} PROVE f[T \ {Some(T)}] = g[T \ {Some(T)}]
    <3>1. Some(T) \in T
      BY <2>3, Chosen
    <3>2. T \ {Some(T)} \in SUBSET S /\ T \ {Some(T)} \notin X
      BY <2>1, <2>2, <3>1
    <3> QED
      BY <1>1, <3>2
  <2>4. Sum(f, T) = Sum(g, T)
    BY <2>3, SumAgrees
  <2> QED
    BY <2>2, <2>4, SumsOf
<1>3. \A s \in SUBSET S : f[s] = g[s]
  BY <1>1, <1>2, Zenon
<1>4. f = [s \in SUBSET S |-> f[s]] /\ g = [s \in SUBSET S |-> g[s]]
  BY Zenon DEF Sums
<1> QED
  BY <1>3, <1>4

LEMMA SumsBelow ==
    ASSUME NEW S, NEW g, Sums(S, g), NEW T \in SUBSET S
    PROVE  Sums(T, [s \in SUBSET T |-> g[s]])
<1>1. PICK f : f = [s \in SUBSET T |-> g[s]]
  OBVIOUS
<1>2. \A s \in SUBSET T : f[s] = g[s] /\ s \in SUBSET S
  BY <1>1
<1>3. ASSUME NEW s \in SUBSET T PROVE f[s] = Sum(f, s)
  <2>1. s \ {Some(s)} \in SUBSET T
    OBVIOUS
  <2>2. f[s \ {Some(s)}] = g[s \ {Some(s)}]
    BY <1>2, <2>1
  <2>3. Sum(f, s) = Sum(g, s)
    BY <2>2, SumAgrees
  <2> QED
    BY <1>2, <2>3, SumsOf
<1>4. f = [s \in SUBSET T |-> Sum(f, s)]
  BY <1>1, <1>2, <1>3
<1> QED
  BY <1>1, <1>4, Zenon DEF Sums

\* The recursion has a solution for every finite set.
LEMMA SumsExist == ASSUME NEW S, IsFiniteSet(S) PROVE Solvable(S)
<1>1. PICK X : X = {s \in SUBSET S : ~Solvable(s)}
  OBVIOUS
<1>2. X = {}
  <2> SUFFICES ASSUME X # {} PROVE FALSE
    OBVIOUS
  <2>1. PICK T \in X : \A U \in X : U \subseteq T => U = T
    BY <1>1, SmallestSet
  <2>2. T \in SUBSET S /\ ~Solvable(T)
    BY <1>1, <2>1
  <2> DEFINE G(U) == CHOOSE g : Sums(U, g)
             below == [U \in (SUBSET T) \ {T} |-> G(U)[U]]
             h == [s \in SUBSET T |-> Sum(below, s)]
  <2>3. ASSUME NEW U \in SUBSET T, U # T PROVE Sums(U, G(U))
    <3>1. U \notin X /\ U \in SUBSET S
      BY <2>1, <2>2, <2>3
    <3>2. Solvable(U)
      BY <1>1, <3>1
    <3> QED
      BY <3>2, Zenon DEF Solvable
  <2> HIDE DEF G
  <2>4. ASSUME NEW U \in SUBSET T, U # T PROVE h[U] = below[U]
    <3>1. PICK g : g = G(U) /\ Sums(U, g)
      BY <2>3, <2>4
    <3>2. below[U] = Sum(g, U)
      <4>1. below[U] = g[U]
        BY <2>4, <3>1
      <4> QED
        BY <3>1, <4>1, SumsOf
    <3>3. ASSUME U # {} PROVE below[U \ {Some(U)}] = g[U \ {Some(U)}]
      <4>1. PICK V : V = U \ {Some(U)}
        OBVIOUS
      <4>2. V \in SUBSET U /\ V \in SUBSET T /\ V # T
        BY <2>4, <3>3, <4>1, Chosen
      <4>3. IsFiniteSet(V)
        BY <2>2, <4>2, FS_Subset
      <4>4. Sums(V, G(V)) /\ Sums(V, [s \in SUBSET V |-> g[s]])
        BY <2>3, <3>1, <4>2, SumsBelow
      <4>5. G(V) = [s \in SUBSET V |-> g[s]]
        BY <4>3, <4>4, SumsUnique
      <4>6. G(V)[V] = g[V]
        BY <4>5
      <4> QED
        BY <4>1, <4>2, <4>6
    <3>4. Sum(below, U) = Sum(g, U)
      <4> HIDE DEF below
      <4> QED BY <3>3, SumAgrees
    <3> QED
      BY <3>2, <3>4
  <2>5. ASSUME NEW s \in SUBSET T PROVE h[s] = Sum(h, s)
    <3>1. ASSUME s # {} PROVE below[s \ {Some(s)}] = h[s \ {Some(s)}]
      <4>1. s \ {Some(s)} \in SUBSET T /\ s \ {Some(s)} # T
        BY <3>1, Chosen
      <4> QED
        BY <2>4, <4>1
    <3>2. h[s] = Sum(below, s)
      <4> HIDE DEF below
      <4> QED OBVIOUS
    <3> HIDE DEF below, h
    <3>3. Sum(below, s) = Sum(h, s)
      BY <3>1, SumAgrees
    <3> QED
      BY <3>2, <3>3
  <2>6. h = [s \in SUBSET T |-> h[s]]
    OBVIOUS
  <2>7. Solvable(T)
    <3> HIDE DEF h
    <3>1. h = [s \in SUBSET T |-> Sum(h, s)]
      BY <2>5, <2>6
    <3> QED
      BY <3>1, Zenon DEF Sums, Solvable
  <2> QED
    BY <2>2, <2>7
<1> QED
  BY <1>1, <1>2

LEMMA TotalSums ==
    ASSUME NEW S, IsFiniteSet(S), NEW T \in SUBSET S, NEW g, Sums(S, g)
    PROVE  Total(T) = g[T]
<1>1. PICK f : f = CHOOSE e : Sums(T, e)
  OBVIOUS
<1>2. IsFiniteSet(T)
  BY FS_Subset
<1>3. Solvable(T)
  BY <1>2, SumsExist
<1>4. Sums(T, f)
  BY <1>1, <1>3, Zenon DEF Solvable
<1>5. Sums(T, [s \in SUBSET T |-> g[s]])
  BY SumsBelow
<1>6. f = [s \in SUBSET T |-> g[s]]
  BY <1>2, <1>4, <1>5, SumsUnique
<1>7. f[T] = g[T]
  BY <1>6
<1> QED
  BY <1>1, <1>7, TotalIs

\* What Total is, for a finite set.
LEMMA TotalStep ==
    ASSUME NEW S, IsFiniteSet(S)
    PROVE  /\ Total({}) = 0
           /\ S # {} => Some(S) \in S /\ Total(S) = Amount[Some(S)] + Total(S \ {Some(S)})
<1>1. PICK g : Sums(S, g)
  BY SumsExist, Zenon DEF Solvable
<1>2. \A T \in SUBSET S : Total(T) = g[T]
  BY <1>1, TotalSums
<1>3. Total({}) = 0
  <2>1. {} \in SUBSET S
    OBVIOUS
  <2>2. g[{}] = Sum(g, {})
    BY <1>1, <2>1, SumsOf
  <2> QED
    BY <1>2, <2>1, <2>2 DEF Sum
<1>4. ASSUME S # {} PROVE Some(S) \in S /\ Total(S) = Amount[Some(S)] + Total(S \ {Some(S)})
  <2>1. Some(S) \in S
    BY <1>4, Chosen
  <2>2. S \in SUBSET S /\ S \ {Some(S)} \in SUBSET S
    OBVIOUS
  <2>3. g[S] = Sum(g, S)
    BY <1>1, <2>2, SumsOf
  <2>4. Sum(g, S) = Amount[Some(S)] + g[S \ {Some(S)}]
    BY <1>4, Zenon DEF Sum
  <2>5. Total(S) = g[S] /\ Total(S \ {Some(S)}) = g[S \ {Some(S)}]
    BY <1>2, <2>2
  <2> QED
    BY <2>1, <2>3, <2>4, <2>5, Zenon
<1> QED
  BY <1>3, <1>4

Valued == DOMAIN Amount

LEMMA TotalNat ==
    ASSUME Amount \in [Valued -> Nat], NEW S, IsFiniteSet(S), S \subseteq Valued
    PROVE  Total(S) \in Nat
<1>1. PICK X : X = {s \in SUBSET S : Total(s) \notin Nat}
  OBVIOUS
<1>2. X = {}
  <2> SUFFICES ASSUME X # {} PROVE FALSE
    OBVIOUS
  <2>1. PICK T \in X : \A U \in X : U \subseteq T => U = T
    BY <1>1, SmallestSet
  <2>2. T \in SUBSET S /\ Total(T) \notin Nat /\ IsFiniteSet(T)
    BY <1>1, <2>1, FS_Subset
  <2>3. T # {}
    <3>1. Total({}) = 0
      BY <2>2, TotalStep
    <3> QED
      BY <2>2, <3>1
  <2>4. PICK x \in T : Total(T) = Amount[x] + Total(T \ {x})
    BY <2>2, <2>3, TotalStep, Zenon
  <2>5. T \ {x} \in SUBSET S /\ T \ {x} \notin X
    BY <2>1, <2>2
  <2>6. Total(T \ {x}) \in Nat
    BY <1>1, <2>5
  <2>7. Amount[x] \in Nat
    BY <2>2
  <2> QED
    BY <2>2, <2>4, <2>6, <2>7
<1> QED
  BY <1>1, <1>2

\* Whichever element is taken out, the rest adds up to what is left.
LEMMA TotalWithout ==
    ASSUME Amount \in [Valued -> Nat], NEW S, IsFiniteSet(S), S \subseteq Valued, NEW x \in S
    PROVE  Total(S) = Amount[x] + Total(S \ {x})
<1> DEFINE Splits(s) == \A y \in s : Total(s) = Amount[y] + Total(s \ {y})
<1> HIDE DEF Splits
<1>1. PICK X : X = {s \in SUBSET S : ~Splits(s)}
  OBVIOUS
<1>2. X = {}
  <2> SUFFICES ASSUME X # {} PROVE FALSE
    OBVIOUS
  <2>1. PICK T \in X : \A U \in X : U \subseteq T => U = T
    BY <1>1, SmallestSet
  <2>2. T \in SUBSET S /\ ~Splits(T) /\ IsFiniteSet(T)
    BY <1>1, <2>1, FS_Subset
  <2>3. PICK z \in T : Total(T) # Amount[z] + Total(T \ {z})
    BY <2>2, Zenon DEF Splits
  <2>4. PICK y \in T : y = Some(T) /\ Total(T) = Amount[y] + Total(T \ {y})
    BY <2>2, <2>3, TotalStep
  <2>5. y # z
    BY <2>3, <2>4
  <2>6. /\ T \ {y} \in SUBSET S /\ T \ {y} \notin X
        /\ T \ {z} \in SUBSET S /\ T \ {z} \notin X
    BY <2>1, <2>2
  <2>7. Splits(T \ {y}) /\ Splits(T \ {z})
    BY <1>1, <2>6
  <2>8. PICK R : R = (T \ {y}) \ {z} /\ R = (T \ {z}) \ {y}
    OBVIOUS
  <2>9. Total(T \ {y}) = Amount[z] + Total(R)
    <3>1. z \in T \ {y}
      BY <2>5
    <3> QED
      BY <2>7, <2>8, <3>1, Zenon DEF Splits
  <2>10. Total(T \ {z}) = Amount[y] + Total(R)
    <3>1. y \in T \ {z}
      BY <2>5
    <3> QED
      BY <2>7, <2>8, <3>1, Zenon DEF Splits
  <2>11. R \subseteq S
    BY <2>2, <2>8
  <2>12. Total(R) \in Nat
    BY <2>11, TotalNat, FS_Subset
  <2>13. Amount[y] \in Nat /\ Amount[z] \in Nat
    BY <2>2
  <2> QED
    BY <2>3, <2>4, <2>9, <2>10, <2>12, <2>13
<1>3. Splits(S)
  BY <1>1, <1>2
<1> QED
  BY <1>3, Zenon DEF Splits

LEMMA TotalMonotone ==
    ASSUME Amount \in [Valued -> Nat], NEW S, IsFiniteSet(S), S \subseteq Valued, NEW R \in SUBSET S
    PROVE  Total(R) \in Nat /\ Total(S) \in Nat /\ Total(R) <= Total(S)
<1>1. PICK X : X = {s \in SUBSET S : R \subseteq s /\ ~(Total(R) <= Total(s))}
  OBVIOUS
<1>2. Total(R) \in Nat /\ Total(S) \in Nat
  BY FS_Subset, TotalNat
<1>3. X = {}
  <2> SUFFICES ASSUME X # {} PROVE FALSE
    OBVIOUS
  <2>1. PICK T \in X : \A U \in X : U \subseteq T => U = T
    BY <1>1, SmallestSet
  <2>2. T \in SUBSET S /\ R \subseteq T /\ ~(Total(R) <= Total(T)) /\ IsFiniteSet(T)
    BY <1>1, <2>1, FS_Subset
  <2>3. T # R
    BY <1>2, <2>2
  <2>4. PICK x \in T : x \notin R
    BY <2>2, <2>3
  <2>5. T \ {x} \in SUBSET S /\ T \ {x} \notin X /\ R \subseteq T \ {x}
    BY <2>1, <2>2, <2>4
  <2>6. Total(R) <= Total(T \ {x})
    BY <1>1, <2>5
  <2>7. Total(T) = Amount[x] + Total(T \ {x})
    BY <2>2, TotalWithout
  <2>8. Total(T \ {x}) \in Nat /\ Amount[x] \in Nat
    BY <2>2, <2>5, FS_Subset, TotalNat
  <2> QED
    BY <1>2, <2>2, <2>6, <2>7, <2>8
<1> QED
  BY <1>1, <1>2, <1>3

-----------------------------------------------------------------------------
(* The inductive invariant. *)

PassFields == {"at", "tip", "settled", "pin", "supply", "burns", "short", "vault", "paid",
               "counted", "unlocked", "job"}

RowsInv ==
    /\ pegOut \in [Burns -> PegOutStatus \cup {"absent"}]
    /\ DOMAIN pass = PassFields

\* The tip is a block of the last branch, the others are of earlier ones.
MainInv ==
    /\ main \in Seq(Nat) /\ Len(main) \in Nat \ {0}
    /\ mainBranches \in Nat /\ mainBranches <= MaxBranches
    /\ main[Len(main)] = mainBranches
    /\ \A h \in 1..Len(main) : main[h] <= mainBranches
    /\ paidAt \in [MainTxs -> Nat]

\* A tip that was left never comes back: branches are numbered in order, and a
\* branch only grows.
TipInv ==
    pass.at # "idle" =>
        /\ pass.tip = [height |-> pass.tip.height, branch |-> pass.tip.branch]
        /\ pass.tip.height \in Nat /\ pass.tip.branch \in Nat
        /\ pass.tip.branch <= mainBranches
        /\ pass.tip.branch = mainBranches => pass.tip.height <= Len(main)

ShortOf(supply, burns, paid, vault) == supply + Total(burns \ paid) > vault

\* What the inventory read is still so for the vault, as long as the tip is the
\* admitted one, and every burn it found has a row.
InventoryInv ==
    pass.at \in {"inventoried", "pinned"} =>
        /\ pass.supply \in Int /\ pass.burns \subseteq Burns
        /\ \A b \in pass.burns : pegOut[b] # "absent"
        /\ Main!Tip = pass.tip => pass.short = ShortOf(pass.supply, pass.burns, Paid, Vault)

\* A burn that is not counted is one whose row says that it was unlocked.
ResolvedInv ==
    pass.at \in {"resolving", "resolved", "clear", "deficit"} =>
        /\ pass.supply \in Int /\ pass.vault \in Int
        /\ pass.burns \subseteq Burns /\ pass.counted \subseteq Burns
        /\ pass.burns \subseteq pass.counted \cup pass.unlocked
        /\ pass.unlocked \subseteq Burns
        /\ pass.short = ShortOf(pass.supply, pass.burns, pass.paid, pass.vault)

\* The block that `settled' names can leave the best branch, and never comes back.
SettledBlock(h, d, k) ==
    /\ pass.settled = [height |-> d, branch |-> k]
    /\ d \in Nat \ {0} /\ k \in Nat
    /\ d = h + TickGrowth + 1 - RequiredConfirmations
    /\ k <= mainBranches
    /\ k = mainBranches => d <= Len(main)

SettledInv ==
    pass.at # "idle" =>
        /\ ~lapsed => Len(main) <= pass.tip.height + TickGrowth
        /\ \/ pass.settled = Main!NoBlock /\ pass.tip.height + TickGrowth < RequiredConfirmations
           \/ \E d, k : SettledBlock(pass.tip.height, d, k)

\* What is paid in a block that stayed was paid when the vault was read.
PaidInv ==
    pass.at = "resolving" /\ FinalityKept =>
        \A b \in Burns : Main!Mined(b) /\ paidAt[b] <= pass.settled.height => b \in pass.paid

\* Reconstructed payouts were paid when the vault was read, or the decision has
\* lapsed since.
FinalInv ==
    /\ pass.at = "resolved" /\ FinalityKept => pass.unlocked \subseteq pass.paid \/ lapsed
    /\ pass.at \in {"clear", "deficit"} =>
          /\ FinalityKept => pass.unlocked \subseteq pass.paid
          /\ pass.at = "deficit" <=> Required > pass.vault

AlarmInv ==
    RowsInv /\ MainInv /\ TipInv /\ InventoryInv /\ ResolvedInv /\ SettledInv /\ PaidInv /\ FinalInv

-----------------------------------------------------------------------------
(* The Ergo chain moves on. *)

LEMMA SeqFunction ==
    ASSUME NEW S, NEW s \in Seq(S)
    PROVE  Len(s) \in Nat /\ s \in [1..Len(s) -> S]
  OBVIOUS

LEMMA FunctionSeq ==
    ASSUME NEW S, NEW n \in Nat, NEW f \in [1..n -> S]
    PROVE  f \in Seq(S) /\ Len(f) = n
  OBVIOUS

\* A block is added, or some are replaced: what the branches hold in common stays
\* where it is.
Grows ==
    /\ mainBranches' = mainBranches /\ Len(main') = Len(main) + 1
    /\ \A h \in 1..Len(main) : main'[h] = main[h]
    /\ \A t \in MainTxs : paidAt'[t] \in {paidAt[t], Len(main) + 1}

Switches(base) ==
    /\ mainBranches' = mainBranches + 1
    /\ base < Len(main) /\ Len(main') > base
    /\ \A h \in 1..base : main'[h] = main[h]
    /\ \A h \in 1..Len(main') : h > base => main'[h] = mainBranches + 1
    /\ \A t \in MainTxs : paidAt'[t] \in {0, paidAt[t], base + 1}

LEMMA MineGrows ==
    ASSUME MainInv, NEW S, Main!Mine(S)
    PROVE  MainInv' /\ Grows
<1>1. PICK n \in Nat \ {0} : n = Len(main)
  BY DEF MainInv
<1>2. /\ main' = Append(main, main[n])
      /\ mainBranches' = mainBranches
      /\ paidAt' = [t \in MainTxs |-> IF t \in S THEN n + 1 ELSE paidAt[t]]
  BY <1>1 DEF Main!Mine
<1>3. /\ main' \in Seq(Nat) /\ Len(main') = n + 1 /\ main'[n + 1] = main[n]
      /\ \A h \in 1..n : main'[h] = main[h]
  BY <1>1, <1>2 DEF MainInv
<1>4. MainInv'
  BY <1>1, <1>2, <1>3 DEF MainInv
<1>5. Grows
  BY <1>1, <1>2, <1>3 DEF Grows
<1> QED
  BY <1>4, <1>5

LEMMA SwitchSwitches ==
    ASSUME MainInv, NEW depth \in 1..MaxDepth, NEW length \in 1..(depth + 1), NEW S,
           Main!SwitchBranch(depth, length, S)
    PROVE  MainInv' /\ \E base \in Nat : Switches(base)
<1>1. PICK n \in Nat \ {0} : n = Len(main)
  BY DEF MainInv
<1>2. PICK base : base = n - depth
  OBVIOUS
<1>3. /\ mainBranches < MaxBranches /\ base > 0
      /\ mainBranches' = mainBranches + 1
      /\ main' = [h \in 1..(base + length) |-> IF h <= base THEN main[h] ELSE mainBranches + 1]
      /\ paidAt' = [t \in MainTxs |->
                       IF t \in S THEN base + 1 ELSE IF paidAt[t] <= base THEN paidAt[t] ELSE 0]
  BY <1>1, <1>2 DEF Main!SwitchBranch
<1>4. /\ depth \in Nat /\ length \in Nat /\ length > 0
      /\ base \in Nat /\ base + length \in Nat /\ base < n
  BY <1>1, <1>2, <1>3, GrowthAssumption
<1>5. main \in [1..n -> Nat]
  BY <1>1, SeqFunction DEF MainInv
<1>6. main' \in [1..(base + length) -> Nat]
  BY <1>1, <1>3, <1>4, <1>5 DEF MainInv
<1>7. main' \in Seq(Nat) /\ Len(main') = base + length
  BY <1>4, <1>6, FunctionSeq
<1>8. main'[base + length] = mainBranches + 1
  BY <1>3, <1>4
<1>9. \A h \in 1..(base + length) : main'[h] <= mainBranches + 1
  BY <1>1, <1>3, <1>4, <1>5 DEF MainInv
<1>10. MainInv'
  BY <1>3, <1>4, <1>7, <1>8, <1>9, GrowthAssumption DEF MainInv
<1>11. Switches(base)
  BY <1>1, <1>3, <1>4, <1>7 DEF Switches
<1> QED
  BY <1>4, <1>10, <1>11

LEMMA MainMoves ==
    ASSUME MainInv, Main!ChainStep
    PROVE  MainInv' /\ (Grows \/ \E base \in Nat : Switches(base))
<1>1. CASE \E S \in SUBSET MainTxs : Main!Mine(S)
  BY <1>1, MineGrows
<1>2. CASE \E depth \in 1..MaxDepth : \E length \in 1..(depth + 1), S \in SUBSET MainTxs :
             Main!SwitchBranch(depth, length, S)
  BY <1>2, SwitchSwitches
<1> QED
  BY <1>1, <1>2 DEF Main!ChainStep

LEMMA TipIs ==
    ASSUME MainInv
    PROVE  Main!Tip = [height |-> Len(main), branch |-> mainBranches]
  BY DEF MainInv, Main!Tip, Main!BlockAt

LEMMA TipGone ==
    ASSUME MainInv, TipInv, pass.at # "idle", Main!ChainStep, UNCHANGED pass
    PROVE  TipInv' /\ Main!Tip' # pass.tip
<1>1. PICK h, k : /\ h \in Nat /\ k \in Nat /\ pass.tip = [height |-> h, branch |-> k]
                  /\ pass.tip.height = h /\ pass.tip.branch = k
                  /\ k <= mainBranches /\ (k = mainBranches => h <= Len(main))
  BY DEF TipInv
<1>2. MainInv' /\ (Grows \/ \E base \in Nat : Switches(base))
  BY MainMoves
<1>3. /\ mainBranches' >= k /\ (k = mainBranches' => h < Len(main'))
      /\ mainBranches' \in Nat /\ Len(main') \in Nat
  BY <1>1, <1>2 DEF MainInv, Grows, Switches
<1>4. TipInv'
  BY <1>1, <1>3 DEF TipInv
<1>5. Main!Tip' = [height |-> Len(main'), branch |-> mainBranches']
  BY <1>2 DEF MainInv, Main!Tip, Main!BlockAt
<1>6. ASSUME Main!Tip' = pass.tip PROVE FALSE
  <2>1. [height |-> h, branch |-> k] = [height |-> Len(main'), branch |-> mainBranches']
    BY <1>1, <1>5, <1>6
  <2>2. h = Len(main') /\ k = mainBranches'
    BY <2>1
  <2> QED
    BY <1>1, <1>3, <2>2
<1> QED
  BY <1>4, <1>6

\* A settled block that is still there was there before, and nothing was paid at or
\* below it meanwhile.
LEMMA SettledMoves ==
    ASSUME MainInv, TipInv, SettledInv, pass.at # "idle", Main!ChainStep, UNCHANGED pass,
           ~lapsed' => ~lapsed /\ Len(main') <= pass.tip.height + TickGrowth
    PROVE  /\ SettledInv'
           /\ FinalityKept' =>
                /\ FinalityKept
                /\ \A b \in Burns : Main!Mined(b)' /\ paidAt'[b] <= pass.settled.height =>
                      Main!Mined(b) /\ paidAt'[b] = paidAt[b]
<1>1. PICK h \in Nat : h = pass.tip.height
  BY DEF TipInv
<1>2. MainInv' /\ (Grows \/ \E base \in Nat : Switches(base))
  BY MainMoves
<1>3. \A b \in Burns : b \in MainTxs /\ paidAt[b] \in Nat /\ paidAt'[b] \in Nat
  BY <1>2 DEF MainInv, MainTxs
<1>4. CASE pass.settled = Main!NoBlock /\ h + TickGrowth < RequiredConfirmations
  <2>1. pass.settled.height = 0
    BY <1>4 DEF Main!NoBlock
  <2>2. \A b \in Burns : ~(Main!Mined(b)' /\ paidAt'[b] <= pass.settled.height)
    BY <1>3, <2>1 DEF Main!Mined
  <2>3. SettledInv'
    BY <1>1, <1>4 DEF SettledInv
  <2> QED
    BY <1>4, <2>2, <2>3 DEF FinalityKept
<1>5. ASSUME NEW d, NEW k, SettledBlock(h, d, k)
      PROVE  /\ SettledInv'
             /\ FinalityKept' =>
                  /\ FinalityKept
                  /\ \A b \in Burns : Main!Mined(b)' /\ paidAt'[b] <= pass.settled.height =>
                        Main!Mined(b) /\ paidAt'[b] = paidAt[b]
  <2>1. /\ d \in Nat \ {0} /\ k \in Nat /\ k <= mainBranches
        /\ k = mainBranches => d <= Len(main)
        /\ pass.settled.height = d /\ pass.settled.branch = k /\ pass.settled # Main!NoBlock
    BY <1>5 DEF SettledBlock, Main!NoBlock
  <2>2. PICK n \in Nat, m \in Nat, c \in Nat, e \in Nat :
          n = Len(main) /\ m = Len(main') /\ c = mainBranches /\ e = mainBranches'
    BY <1>2 DEF MainInv
  <2>3. main \in [1..n -> Nat] /\ main' \in [1..m -> Nat] /\ \A i \in 1..n : main[i] <= c
    BY <1>2, <2>2, SeqFunction DEF MainInv
  <2>4. k <= e /\ (k = e => d <= m)
    BY <1>2, <2>1, <2>2 DEF Grows, Switches
  <2>5. SettledBlock(h, d, k)'
    BY <1>5, <2>2, <2>4 DEF SettledBlock
  <2>6. SettledInv'
    BY <1>1, <2>5 DEF SettledInv
  <2>7. ASSUME FinalityKept' PROVE d \in 1..m /\ main'[d] = k
    BY <2>1, <2>3, <2>7 DEF FinalityKept, Main!Canonical
  <2>8. CASE Grows
    <3>1. ASSUME FinalityKept' PROVE d <= n /\ main[d] = k
      <4>1. m = n + 1 /\ e = c /\ \A i \in 1..n : main'[i] = main[i]
        BY <2>2, <2>8 DEF Grows
      <4>2. d <= n
        <5>1. ASSUME d = n + 1 PROVE k = e
          BY <1>2, <2>2, <2>7, <3>1, <4>1, <5>1 DEF MainInv
        <5> QED
          BY <2>1, <2>2, <2>7, <3>1, <4>1, <5>1
      <4> QED
        BY <2>1, <2>7, <3>1, <4>1, <4>2
    <3>2. ASSUME FinalityKept' PROVE FinalityKept
      BY <2>1, <2>3, <3>1, <3>2 DEF FinalityKept, Main!Canonical
    <3>3. ASSUME FinalityKept', NEW b \in Burns, paidAt'[b] > 0, paidAt'[b] <= d
          PROVE  paidAt'[b] = paidAt[b]
      BY <1>3, <2>1, <2>2, <2>8, <3>1, <3>3 DEF Grows
    <3> QED
      BY <2>1, <2>6, <3>2, <3>3 DEF Main!Mined
  <2>9. ASSUME NEW base \in Nat, Switches(base)
        PROVE  FinalityKept' =>
                  /\ FinalityKept
                  /\ \A b \in Burns : Main!Mined(b)' /\ paidAt'[b] <= pass.settled.height =>
                        Main!Mined(b) /\ paidAt'[b] = paidAt[b]
    <3>1. /\ base < n /\ \A i \in 1..base : main'[i] = main[i]
          /\ \A i \in 1..m : i > base => main'[i] = c + 1
      BY <2>2, <2>9 DEF Switches
    <3>2. ASSUME FinalityKept' PROVE d <= base /\ main[d] = k
      BY <2>1, <2>2, <2>7, <3>1, <3>2
    <3>3. ASSUME FinalityKept' PROVE FinalityKept
      BY <2>1, <2>3, <3>1, <3>2, <3>3 DEF FinalityKept, Main!Canonical
    <3>4. ASSUME FinalityKept', NEW b \in Burns, paidAt'[b] > 0, paidAt'[b] <= d
          PROVE  paidAt'[b] = paidAt[b]
      BY <1>3, <2>1, <2>9, <3>2, <3>4 DEF Switches
    <3> QED
      BY <2>1, <3>3, <3>4 DEF Main!Mined
  <2> QED
    BY <1>2, <2>6, <2>8, <2>9
<1> QED
  BY <1>1, <1>4, <1>5 DEF SettledInv

\* The chain moves under a pass that looks away.
LEMMA MainStepKeeps ==
    ASSUME AlarmInv, MainStep, UNCHANGED <<tables, rowBlock, daemon>>
    PROVE  AlarmInv'
<1>1. Main!ChainStep /\ UNCHANGED pass /\ UNCHANGED pegOut
  BY DEF MainStep, tables, daemon
<1>2. RowsInv'
  BY <1>1, Zenon DEF AlarmInv, RowsInv
<1>3. MainInv'
  BY <1>1, MainMoves DEF AlarmInv
<1>4. TipInv' /\ (pass.at # "idle" => Main!Tip' # pass.tip)
  <2>1. CASE pass.at = "idle"
    BY <1>1, <2>1, Zenon DEF TipInv
  <2>2. CASE pass.at # "idle"
    BY <1>1, <2>2, TipGone DEF AlarmInv
  <2> QED
    BY <2>1, <2>2
<1>5. InventoryInv'
  BY <1>1, <1>4, Zenon DEF AlarmInv, InventoryInv
<1>6. ResolvedInv'
  BY <1>1, Zenon DEF AlarmInv, ResolvedInv
<1>7. CASE pass.at = "idle"
  BY <1>1, <1>2, <1>3, <1>4, <1>5, <1>6, <1>7, Zenon DEF AlarmInv, SettledInv, PaidInv, FinalInv
<1>8. CASE pass.at # "idle"
  <2>1. lapsed' = (lapsed \/ Len(main') > pass.tip.height + TickGrowth)
    BY <1>8 DEF MainStep, At
  <2>2. pass.tip.height + TickGrowth \in Nat /\ Len(main') \in Nat
    BY <1>3, <1>8, GrowthAssumption DEF AlarmInv, TipInv, MainInv
  <2>3. (~lapsed' => ~lapsed /\ Len(main') <= pass.tip.height + TickGrowth) /\ (lapsed => lapsed')
    <3>1. (lapsed => lapsed') /\ (~lapsed' => ~lapsed /\ ~(Len(main') > pass.tip.height + TickGrowth))
      BY <2>1, Zenon
    <3>2. ~(Len(main') > pass.tip.height + TickGrowth) => Len(main') <= pass.tip.height + TickGrowth
      BY <2>2
    <3> QED
      BY <3>1, <3>2, Zenon
  <2>4. /\ SettledInv'
        /\ FinalityKept' =>
             /\ FinalityKept
             /\ \A b \in Burns : Main!Mined(b)' /\ paidAt'[b] <= pass.settled.height =>
                   Main!Mined(b) /\ paidAt'[b] = paidAt[b]
    BY <1>1, <1>8, <2>3, SettledMoves DEF AlarmInv
  <2>5. PaidInv'
    <3> SUFFICES ASSUME pass.at = "resolving", FinalityKept', NEW b \in Burns, Main!Mined(b)',
                        paidAt'[b] <= pass.settled.height
                 PROVE  b \in pass.paid
      BY <1>1, Zenon DEF PaidInv
    <3>1. FinalityKept /\ Main!Mined(b) /\ paidAt[b] <= pass.settled.height
      BY <2>4, Zenon
    <3> QED
      BY <3>1, Zenon DEF AlarmInv, PaidInv
  <2>6. Required' = Required
    BY <1>1, Zenon DEF Required
  <2>7. FinalInv'
    BY <1>1, <2>3, <2>4, <2>6, Zenon DEF AlarmInv, FinalInv
  <2> QED
    BY <1>2, <1>3, <1>4, <1>5, <1>6, <2>4, <2>5, <2>7, Zenon DEF AlarmInv
<1> QED
  BY <1>7, <1>8

-----------------------------------------------------------------------------
(* The tables change. *)

\* A row that is there stays.
RowsStay ==
    /\ pegOut' \in [Burns -> PegOutStatus \cup {"absent"}]
    /\ \A b \in Burns : pegOut[b] # "absent" => pegOut'[b] # "absent"

LEMMA MovedStay ==
    ASSUME RowsInv, NEW S, NEW to \in PegOutStatus,
           pegOut' = [b \in Burns |-> IF b \in S THEN to ELSE pegOut[b]]
    PROVE  RowsStay
  BY DEF RowsInv, RowsStay, PegOutStatus

LEMMA SetStay ==
    ASSUME RowsInv, NEW c, NEW to \in PegOutStatus, pegOut' = [pegOut EXCEPT ![c] = to]
    PROVE  RowsStay
  BY DEF RowsInv, RowsStay, PegOutStatus

LEMMA SameStay == ASSUME RowsInv, UNCHANGED pegOut PROVE RowsStay
  BY DEF RowsInv, RowsStay

LEMMA MoveBurnsStay ==
    ASSUME RowsInv, NEW t, NEW from, NEW to \in PegOutStatus, pegOut' = MoveBurns(t, from, to)
    PROVE  RowsStay
<1>1. pegOut' = [b \in Burns |->
                   IF b \in {x \in Burns : x \in BurnsOf[t] /\ pegOut[x] = from}
                   THEN to ELSE pegOut[b]]
  BY DEF MoveBurns
<1> QED
  BY <1>1, MovedStay

LEMMA AggregateStay ==
    ASSUME RowsInv, AggregateNext
    PROVE  RowsStay
<1>1. PICK t \in LegacyTxs :
        \/ RecordAggregateAttempt(t)
        \/ MarkAggregateAttemptSubmitted(t)
        \/ RestoreAggregateAttempt(t)
        \/ RollBackAggregateAttempt(t)
        \/ ConfirmSubmittedAggregate(t)
        \/ MarkAggregateAttemptAbandoned(t)
        \/ \E B \in SUBSET BurnsOf[t] : InvalidatePendingAggregate(t, B)
        \/ AbandonSubmittedAggregate(t)
        \/ AbandonPendingAggregateTransport(t)
  BY Zenon DEF AggregateNext
<1>2. "detected" \in PegOutStatus /\ "aggregate_submitted" \in PegOutStatus
        /\ "phase2_unlocked" \in PegOutStatus /\ "burn_reverted" \in PegOutStatus
  BY DEF PegOutStatus
<1>3. CASE RecordAggregateAttempt(t) \/ MarkAggregateAttemptSubmitted(t)
             \/ MarkAggregateAttemptAbandoned(t) \/ AbandonPendingAggregateTransport(t)
  BY <1>3, SameStay DEF RecordAggregateAttempt, MarkAggregateAttemptSubmitted,
       MarkAggregateAttemptAbandoned, AbandonPendingAggregateTransport
<1>4. CASE RestoreAggregateAttempt(t)
  <2>1. pegOut' = [b \in Burns |-> IF b \in BurnsOf[t] THEN "aggregate_submitted" ELSE pegOut[b]]
    BY <1>4, Zenon DEF RestoreAggregateAttempt, SetPegOuts
  <2> QED
    BY <1>2, <2>1, MovedStay
<1>5. CASE RollBackAggregateAttempt(t) \/ AbandonSubmittedAggregate(t)
  <2>1. pegOut' = MoveBurns(t, "aggregate_submitted", "detected")
    BY <1>5, Zenon DEF RollBackAggregateAttempt, AbandonSubmittedAggregate, SetPegOuts
  <2> QED
    BY <1>2, <2>1, MoveBurnsStay
<1>6. CASE ConfirmSubmittedAggregate(t)
  <2>1. pegOut' = MoveBurns(t, "aggregate_submitted", "phase2_unlocked")
    BY <1>6, Zenon DEF ConfirmSubmittedAggregate, SetPegOuts
  <2> QED
    BY <1>2, <2>1, MoveBurnsStay
<1>7. CASE \E B \in SUBSET BurnsOf[t] : InvalidatePendingAggregate(t, B)
  <2>1. PICK B : pegOut' = [b \in Burns |-> IF b \in B THEN "burn_reverted" ELSE pegOut[b]]
    BY <1>7, Zenon DEF InvalidatePendingAggregate
  <2> QED
    BY <1>2, <2>1, MovedStay
<1> QED
  BY <1>1, <1>3, <1>4, <1>5, <1>6, <1>7

LEMMA OthersStay ==
    ASSUME RowsInv, RestOfTick \/ OperatorRecovery
    PROVE  RowsStay
<1>1. CASE AggregateNext
  BY <1>1, AggregateStay
<1>2. ASSUME NEW b \in Burns, MarkPegOutBurnReverted(b) PROVE RowsStay
  <2>1. pegOut' = [pegOut EXCEPT ![b] = "burn_reverted"] /\ "burn_reverted" \in PegOutStatus
    BY <1>2, Zenon DEF MarkPegOutBurnReverted, PegOutStatus
  <2> QED
    BY <2>1, SetStay
<1>3. ASSUME NEW c \in Candidates, InvalidateCandidate(c) PROVE RowsStay
  <2>1. UNCHANGED pegOut
    BY <1>3, Zenon DEF InvalidateCandidate
  <2> QED
    BY <2>1, SameStay
<1>4. ASSUME OperatorRecovery PROVE AggregateNext
  BY <1>4, Zenon DEF OperatorRecovery, AggregateNext
<1> QED
  BY <1>1, <1>2, <1>3, <1>4, Zenon DEF RestOfTick

\* The pass stands still, and so does the Ergo chain.
LEMMA StandsStill ==
    ASSUME AlarmInv, RowsStay, UNCHANGED <<pass, main, mainBranches, paidAt, lapsed>>
    PROVE  AlarmInv'
<1>1. RowsInv' /\ MainInv' /\ TipInv'
  BY Zenon DEF AlarmInv, RowsInv, RowsStay, MainInv, TipInv
<1>2. Main!Tip' = Main!Tip /\ Paid' = Paid /\ Vault' = Vault
  BY Zenon DEF Main!Tip, Main!BlockAt, Paid, Vault, Main!Mined
<1>3. InventoryInv'
  <2> SUFFICES ASSUME pass.at \in {"inventoried", "pinned"} PROVE InventoryInv'
    BY Zenon DEF InventoryInv
  <2>1. /\ pass.supply \in Int /\ pass.burns \subseteq Burns
        /\ \A b \in pass.burns : pegOut[b] # "absent"
        /\ Main!Tip = pass.tip => pass.short = ShortOf(pass.supply, pass.burns, Paid, Vault)
    BY Zenon DEF AlarmInv, InventoryInv
  <2>2. \A b \in pass.burns : pegOut'[b] # "absent"
    BY <2>1, Zenon DEF RowsStay
  <2> QED
    BY <1>2, <2>1, <2>2, Zenon DEF InventoryInv
<1>4. ResolvedInv'
  BY Zenon DEF AlarmInv, ResolvedInv
<1>5. FinalityKept' = FinalityKept
  BY Zenon DEF FinalityKept, Main!Canonical
<1>6. SettledInv' /\ PaidInv'
  <2>1. \A h, d, k : SettledBlock(h, d, k) => SettledBlock(h, d, k)'
    BY Zenon DEF SettledBlock
  <2>2. SettledInv'
    BY <2>1 DEF AlarmInv, SettledInv
  <2>3. PaidInv'
    BY <1>5, Zenon DEF AlarmInv, PaidInv, Main!Mined
  <2> QED
    BY <2>2, <2>3
<1>7. FinalInv'
  BY <1>5, Zenon DEF AlarmInv, FinalInv, Required
<1> QED
  BY <1>1, <1>3, <1>4, <1>6, <1>7 DEF AlarmInv

-----------------------------------------------------------------------------
(* The pass goes on. *)

LEMMA Goes ==
    ASSUME DOMAIN pass = PassFields, NEW step, Goto(step)
    PROVE  /\ DOMAIN pass' = PassFields /\ pass'.at = step
           /\ pass'.tip = pass.tip /\ pass'.settled = pass.settled
           /\ pass'.supply = pass.supply /\ pass'.burns = pass.burns
           /\ pass'.short = pass.short /\ pass'.vault = pass.vault /\ pass'.paid = pass.paid
           /\ pass'.counted = pass.counted /\ pass'.unlocked = pass.unlocked
  BY DEF Goto, PassFields

LEMMA EndsIdle ==
    ASSUME AlarmInv, RowsStay, pass' = NoPass, UNCHANGED <<main, mainBranches, paidAt>>
    PROVE  AlarmInv'
<1>1. pass'.at = "idle" /\ DOMAIN pass' = PassFields
  BY DEF NoPass, PassFields
<1> QED
  BY <1>1, Zenon DEF AlarmInv, RowsInv, RowsStay, MainInv, TipInv, InventoryInv, ResolvedInv,
     SettledInv, PaidInv, FinalInv

LEMMA BeginKeeps ==
    ASSUME AlarmInv, BeginTick
    PROVE  AlarmInv'
<1>1. /\ pass' = [NoPass EXCEPT !.at = "started", !.tip = Main!Tip, !.settled = LastFinal]
      /\ UNCHANGED <<pegOut, main, mainBranches, paidAt>>
  BY Zenon DEF BeginTick, tables, chains, ledgers
<1>2. /\ pass'.at = "started" /\ pass'.tip = Main!Tip /\ pass'.settled = LastFinal
      /\ DOMAIN pass' = PassFields
  BY <1>1 DEF NoPass, PassFields
<1>3. RowsInv' /\ MainInv'
  BY <1>1, <1>2, Zenon DEF AlarmInv, RowsInv, MainInv
<1>4. TipInv'
  <2>1. MainInv
    BY DEF AlarmInv
  <2>2. pass'.tip = [height |-> Len(main), branch |-> mainBranches]
    BY <1>2, <2>1, TipIs
  <2> QED
    BY <1>1, <2>1, <2>2 DEF TipInv, MainInv
<1>5. SettledInv'
  <2>1. MainInv
    BY DEF AlarmInv
  <2>2. PICK n \in Nat \ {0} : n = Len(main) /\ Len(main') = n /\ mainBranches' = mainBranches
    BY <1>1, <2>1 DEF MainInv
  <2>3. pass'.tip.height = n
    BY <1>2, <2>1, <2>2, TipIs
  <2>4. PICK r \in Nat, g \in Nat : r = RequiredConfirmations /\ g = TickGrowth /\ g < r
    BY GrowthAssumption, BoundAssumption
  <2>5. main \in [1..n -> Nat] /\ \A h \in 1..n : main[h] <= mainBranches
    BY <2>1, <2>2, SeqFunction DEF MainInv
  <2>6. CASE n + g < r
    <3>1. n + TickGrowth + 1 - RequiredConfirmations \notin DOMAIN main
      BY <2>2, <2>4, <2>5, <2>6
    <3>2. LastFinal = Main!NoBlock
      BY <2>2, <3>1 DEF LastFinal
    <3> QED
      BY <1>2, <2>2, <2>3, <2>4, <2>6, <3>2 DEF SettledInv, Main!NoBlock
  <2>7. CASE ~(n + g < r)
    <3>1. PICK d \in Nat \ {0} : d = n + g + 1 - r /\ d <= n
      BY <2>4, <2>7
    <3>2. LastFinal = [height |-> d, branch |-> main[d]]
      BY <2>2, <2>4, <2>5, <3>1 DEF LastFinal, Main!BlockAt
    <3>3. SettledBlock(n, d, main[d])'
      BY <1>1, <1>2, <2>2, <2>4, <2>5, <3>1, <3>2 DEF SettledBlock
    <3>4. \E e, k : SettledBlock(n, e, k)'
      BY <3>3
    <3> QED
      BY <2>2, <2>3, <2>4, <3>4 DEF SettledInv
  <2> QED
    BY <2>6, <2>7
<1> QED
  BY <1>2, <1>3, <1>4, <1>5, Zenon DEF AlarmInv, InventoryInv, ResolvedInv, PaidInv, FinalInv

\* What is settled does not change within a pass.
LEMMA SettledSame ==
    ASSUME AlarmInv, pass.at # "idle", pass'.tip = pass.tip, pass'.settled = pass.settled,
           UNCHANGED <<main, mainBranches, lapsed>>
    PROVE  SettledInv' /\ (FinalityKept' <=> FinalityKept)
<1>1. FinalityKept' <=> FinalityKept
  BY Zenon DEF FinalityKept, Main!Canonical
<1>2. \A h, d, k : SettledBlock(h, d, k) => SettledBlock(h, d, k)'
  BY Zenon DEF SettledBlock
<1>3. SettledInv'
  BY <1>2 DEF AlarmInv, SettledInv
<1> QED
  BY <1>1, <1>3

LEMMA AmountsNat == Amount \in [Valued -> Nat] /\ Valued = MainTxs /\ IsFiniteSet(MainTxs)
<1>1. Valued = MainTxs /\ Amount \in [MainTxs -> Nat]
  BY LedgerAssumption DEF Valued, MainTxs
<1> QED
  BY <1>1, LedgerAssumption DEF MainTxs

LEMMA TotalOf == ASSUME NEW S, S \subseteq MainTxs PROVE Total(S) \in Nat
  BY AmountsNat, TotalNat, FS_Subset

LEMMA LedgersInt == Vault \in Int /\ \A h : Supply(h) \in Int
<1>1. \A h : UpTo(Deposits, h) \subseteq MainTxs /\ UpTo(Burns, h) \subseteq MainTxs
  BY Zenon DEF UpTo, MainTxs
<1>2. /\ {d \in Deposits : Main!Mined(d)} \subseteq MainTxs
      /\ {x \in Burns \cup Losses : Main!Mined(x)} \subseteq MainTxs
  BY Zenon DEF MainTxs
<1> QED
  BY <1>1, <1>2, TotalOf DEF Vault, Supply

LEMMA ObserveKeeps ==
    ASSUME AlarmInv, NEW h, Observe(h)
    PROVE  AlarmInv'
<1>1. PICK found : found = UpTo(Burns, h)
  OBVIOUS
<1>2. /\ At("started")
      /\ pegOut' = [b \in Burns |->
                      IF b \in {x \in found : pegOut[x] = "absent"} THEN "detected" ELSE pegOut[b]]
      /\ pass' = [pass EXCEPT !.at = "inventoried", !.pin = Side!BlockAt(h),
                            !.supply = Supply(h), !.burns = found, !.short = Short(h)]
      /\ UNCHANGED <<main, mainBranches, paidAt, lapsed>>
  BY <1>1, Zenon DEF Observe, chains, ledgers
<1>3. DOMAIN pass = PassFields
  BY DEF AlarmInv, RowsInv
<1>4. /\ DOMAIN pass' = PassFields /\ pass'.at = "inventoried" /\ pass'.tip = pass.tip
      /\ pass'.settled = pass.settled
      /\ pass'.supply = Supply(h) /\ pass'.burns = found
  BY <1>2, <1>3 DEF PassFields
<1>5. pass'.short = Short(h)
  BY <1>2, <1>3, Zenon DEF PassFields
<1>6. found \subseteq Burns
  BY <1>1, Zenon DEF UpTo
<1>7. RowsStay /\ \A b \in found : pegOut'[b] # "absent"
  <2>1. "detected" \in PegOutStatus
    BY DEF PegOutStatus
  <2>2. RowsStay
    BY <1>2, <2>1, MovedStay DEF AlarmInv
  <2>3. \A b \in found : pegOut'[b] # "absent"
    BY <1>2, <1>6
  <2> QED
    BY <2>2, <2>3
<1>8. RowsInv' /\ MainInv'
  BY <1>2, <1>4, <1>7, Zenon DEF AlarmInv, RowsInv, RowsStay, MainInv
<1>9. TipInv'
  BY <1>2, <1>4, Zenon DEF AlarmInv, TipInv, At
<1>10. InventoryInv'
  <2>1. pass'.short = ShortOf(Supply(h), found, Paid, Vault)
    BY <1>1, <1>5, Zenon DEF Short, ShortOf
  <2>2. Paid' = Paid /\ Vault' = Vault
    BY <1>2, Zenon DEF Paid, Vault, Main!Mined
  <2>3. Supply(h) \in Int
    BY LedgersInt
  <2> QED
    BY <1>4, <1>6, <1>7, <2>1, <2>2, <2>3, Zenon DEF InventoryInv
<1>11. SettledInv'
  <2>1. pass.at # "idle"
    BY <1>2 DEF At
  <2> QED
    BY <1>2, <1>4, <2>1, SettledSame
<1> QED
  BY <1>4, <1>8, <1>9, <1>10, <1>11, Zenon DEF AlarmInv, ResolvedInv, PaidInv, FinalInv

LEMMA RevalidateKeeps ==
    ASSUME AlarmInv, Revalidate
    PROVE  AlarmInv'
<1>1. At("inventoried") /\ Goto("pinned") /\ UNCHANGED <<pegOut, main, mainBranches, paidAt, lapsed>>
  BY Zenon DEF Revalidate, tables, chains, ledgers
<1>2. DOMAIN pass = PassFields
  BY DEF AlarmInv, RowsInv
<1>3. /\ DOMAIN pass' = PassFields /\ pass'.at = "pinned"
      /\ pass'.tip = pass.tip /\ pass'.supply = pass.supply /\ pass'.burns = pass.burns
      /\ pass'.short = pass.short /\ pass'.settled = pass.settled
  BY <1>1, <1>2, Goes, Zenon
<1>4. RowsInv' /\ MainInv' /\ TipInv'
  BY <1>1, <1>3, Zenon DEF AlarmInv, RowsInv, MainInv, TipInv, At
<1>5. Main!Tip' = Main!Tip /\ Paid' = Paid /\ Vault' = Vault
  BY <1>1, Zenon DEF Main!Tip, Main!BlockAt, Paid, Vault, Main!Mined
<1>6. InventoryInv'
  BY <1>1, <1>3, <1>5, Zenon DEF AlarmInv, InventoryInv, At
<1>7. SettledInv'
  <2>1. pass.at # "idle"
    BY <1>1 DEF At
  <2> QED
    BY <1>1, <1>3, <2>1, SettledSame
<1> QED
  BY <1>3, <1>4, <1>6, <1>7, Zenon DEF AlarmInv, ResolvedInv, PaidInv, FinalInv

LEMMA ResolveKeeps ==
    ASSUME AlarmInv, Resolve
    PROVE  AlarmInv'
<1>1. PICK unlocked : unlocked = RowsIn({"phase2_unlocked"})
  OBVIOUS
<1>2. PICK counted : counted = Retained
  OBVIOUS
<1>3. PICK step : step = IF unlocked = {} THEN "resolved" ELSE "resolving"
  OBVIOUS
<1>4. /\ At("pinned") /\ Main!Tip = pass.tip
      /\ pass' = [pass EXCEPT !.at = step, !.vault = Vault, !.paid = Paid,
                            !.counted = counted, !.unlocked = unlocked]
      /\ UNCHANGED <<pegOut, main, mainBranches, paidAt, lapsed>>
  BY <1>1, <1>2, <1>3, Zenon DEF Resolve, tables, chains, ledgers
<1>5. /\ RowsInv /\ MainInv /\ TipInv /\ DOMAIN pass = PassFields
      /\ pass.supply \in Int /\ pass.burns \subseteq Burns
      /\ \A b \in pass.burns : pegOut[b] # "absent"
      /\ pass.short = ShortOf(pass.supply, pass.burns, Paid, Vault)
  BY <1>4, Zenon DEF AlarmInv, RowsInv, InventoryInv, At
<1>6. /\ DOMAIN pass' = PassFields /\ pass'.at = step /\ pass'.tip = pass.tip
      /\ pass'.supply = pass.supply /\ pass'.burns = pass.burns
      /\ pass'.vault = Vault /\ pass'.paid = Paid
      /\ pass'.counted = counted /\ pass'.unlocked = unlocked
  BY <1>4, <1>5 DEF PassFields
<1>7. pass'.short = pass.short
  BY <1>4, <1>5, Zenon DEF PassFields
<1>8. step \in {"resolved", "resolving"} /\ (step = "resolved" => unlocked = {})
  BY <1>3
<1>9. RowsInv' /\ MainInv' /\ TipInv'
  BY <1>4, <1>5, <1>6, Zenon DEF RowsInv, MainInv, TipInv, At
<1>10. /\ counted \subseteq Burns /\ unlocked \subseteq Burns
       /\ pass.burns \subseteq counted \cup unlocked
  <2>1. counted \subseteq Burns /\ unlocked \subseteq Burns
    BY <1>1, <1>2, Zenon DEF Retained, RowsIn
  <2>2. ASSUME NEW b \in pass.burns PROVE b \in counted \cup unlocked
    <3>1. b \in Burns /\ pegOut[b] \in PegOutStatus
      BY <1>5 DEF RowsInv
    <3> QED
      BY <1>1, <1>2, <3>1 DEF Retained, RowsIn, PegOutStatus
  <2> QED
    BY <2>1, <2>2
<1>11. ResolvedInv'
  <2>1. Vault \in Int
    BY LedgersInt
  <2> QED
    BY <1>5, <1>6, <1>7, <1>10, <2>1, Zenon DEF ResolvedInv
<1>12. SettledInv' /\ PaidInv'
  <2>1. pass.at # "idle" /\ pass'.settled = pass.settled
    BY <1>4, <1>5 DEF At, PassFields
  <2>2. SettledInv'
    BY <1>4, <1>6, <2>1, SettledSame
  <2>3. \A b \in Burns : Main!Mined(b)' => b \in pass'.paid
    BY <1>4, <1>6, Zenon DEF Paid, Main!Mined
  <2> QED
    BY <2>2, <2>3, Zenon DEF PaidInv
<1>13. FinalInv'
  BY <1>6, <1>8, Zenon DEF FinalInv
<1>14. InventoryInv'
  BY <1>6, <1>8, Zenon DEF InventoryInv
<1> QED
  BY <1>9, <1>11, <1>12, <1>13, <1>14, Zenon DEF AlarmInv

\* A payout that is final while the decision is current lies in a settled block.
LEMMA FinalIsPaid ==
    ASSUME MainInv, TipInv, SettledInv, PaidInv, pass.at = "resolving", FinalityKept, ~lapsed,
           NEW b \in Burns, FinallyPaid(b)
    PROVE  b \in pass.paid
<1>1. PICK h \in Nat, n \in Nat, p \in Nat :
        h = pass.tip.height /\ n = Len(main) /\ p = paidAt[b]
  BY DEF TipInv, MainInv, MainTxs
<1>2. PICK r \in Nat, g \in Nat : r = RequiredConfirmations /\ g = TickGrowth
  BY GrowthAssumption, BoundAssumption
<1>3. p > 0 /\ n - p + 1 >= r /\ n <= h + g
  BY <1>1, <1>2 DEF FinallyPaid, Main!Mined, Main!Confirmations, SettledInv
<1>4. CASE pass.settled = Main!NoBlock /\ h + g < r
  BY <1>3, <1>4
<1>5. ASSUME NEW d, NEW k, SettledBlock(h, d, k) PROVE b \in pass.paid
  <2>1. pass.settled.height = d /\ d \in Nat /\ d = h + g + 1 - r
    BY <1>2, <1>5 DEF SettledBlock
  <2>2. p <= d
    BY <1>3, <2>1
  <2> QED
    BY <1>1, <1>3, <2>1, <2>2 DEF PaidInv, Main!Mined
<1> QED
  BY <1>1, <1>2, <1>4, <1>5 DEF SettledInv

LEMMA ReconstructKeeps ==
    ASSUME AlarmInv, Reconstruct
    PROVE  AlarmInv'
<1>1. /\ At("resolving") /\ Goto("resolved") /\ UNCHANGED <<pegOut, main, mainBranches, paidAt, lapsed>>
      /\ \A b \in pass.unlocked : FinallyPaid(b)
  BY Zenon DEF Reconstruct, tables, chains, ledgers
<1>2. DOMAIN pass = PassFields /\ MainInv /\ TipInv /\ SettledInv /\ PaidInv /\ ResolvedInv
  BY DEF AlarmInv, RowsInv
<1>3. /\ DOMAIN pass' = PassFields /\ pass'.at = "resolved"
      /\ pass'.tip = pass.tip /\ pass'.supply = pass.supply /\ pass'.burns = pass.burns
      /\ pass'.short = pass.short /\ pass'.vault = pass.vault /\ pass'.paid = pass.paid
      /\ pass'.counted = pass.counted /\ pass'.unlocked = pass.unlocked
      /\ pass'.settled = pass.settled
  BY <1>1, <1>2, Goes, Zenon
<1>4. RowsInv' /\ MainInv' /\ TipInv'
  BY <1>1, <1>3, Zenon DEF AlarmInv, RowsInv, MainInv, TipInv, At
<1>5. ResolvedInv'
  BY <1>1, <1>2, <1>3, Zenon DEF ResolvedInv, At
<1>6. pass.unlocked \subseteq Burns
  BY <1>1, <1>2, Zenon DEF ResolvedInv, At
<1>7. FinalityKept => pass.unlocked \subseteq pass.paid \/ lapsed
  BY <1>1, <1>2, <1>6, FinalIsPaid DEF At
<1>8. SettledInv' /\ (FinalityKept' <=> FinalityKept)
  <2>1. pass.at # "idle"
    BY <1>1 DEF At
  <2> QED
    BY <1>1, <1>3, <2>1, SettledSame
<1>9. FinalInv'
  BY <1>1, <1>3, <1>7, <1>8, Zenon DEF FinalInv
<1> QED
  BY <1>3, <1>4, <1>5, <1>8, <1>9, Zenon DEF AlarmInv, InventoryInv, PaidInv

LEMMA DecideKeeps ==
    ASSUME AlarmInv, Decide
    PROVE  AlarmInv'
<1>1. PICK step : /\ step \in {"clear", "deficit"} /\ Goto(step)
                  /\ step = "deficit" <=> Required > pass.vault
  <2>1. IF Required > pass.vault THEN Goto("deficit") ELSE Goto("clear")
    BY Zenon DEF Decide
  <2>2. CASE Required > pass.vault
    BY <2>1, <2>2, Zenon
  <2>3. CASE ~(Required > pass.vault)
    <3>1. Goto("clear")
      BY <2>1, <2>3, Zenon
    <3> QED
      BY <2>3, <3>1
  <2> QED
    BY <2>2, <2>3
<1>2. At("resolved") /\ QuorumCurrent /\ UNCHANGED <<pegOut, main, mainBranches, paidAt, lapsed>>
  BY Zenon DEF Decide, tables, chains, ledgers
<1>3. DOMAIN pass = PassFields /\ MainInv /\ TipInv /\ FinalInv /\ ResolvedInv
  BY DEF AlarmInv, RowsInv
<1>4. /\ DOMAIN pass' = PassFields /\ pass'.at = step
      /\ pass'.tip = pass.tip /\ pass'.supply = pass.supply /\ pass'.burns = pass.burns
      /\ pass'.short = pass.short /\ pass'.vault = pass.vault /\ pass'.paid = pass.paid
      /\ pass'.counted = pass.counted /\ pass'.unlocked = pass.unlocked
      /\ pass'.settled = pass.settled
  BY <1>1, <1>3, Goes, Zenon
<1>5. RowsInv' /\ MainInv' /\ TipInv'
  BY <1>2, <1>4, Zenon DEF AlarmInv, RowsInv, MainInv, TipInv, At
<1>6. ResolvedInv'
  BY <1>2, <1>3, <1>4, Zenon DEF ResolvedInv, At
<1>7. SettledInv' /\ (FinalityKept' <=> FinalityKept)
  <2>1. pass.at # "idle"
    BY <1>2 DEF At
  <2> QED
    BY <1>2, <1>4, <2>1, SettledSame
<1>8. FinalityKept => pass.unlocked \subseteq pass.paid
  BY <1>2, <1>3, Zenon DEF FinalInv, At, QuorumCurrent
<1>9. Required' = Required
  BY <1>4, Zenon DEF Required
<1>10. FinalInv'
  <2>1. pass'.at # "resolved"
    BY <1>1, <1>4
  <2>2. pass'.at = "deficit" <=> Required' > pass'.vault
    BY <1>1, <1>4, <1>9, Zenon
  <2>3. FinalityKept' => pass'.unlocked \subseteq pass'.paid
    BY <1>4, <1>7, <1>8, Zenon
  <2> QED
    BY <2>1, <2>2, <2>3, Zenon DEF FinalInv
<1>11. pass'.at \notin {"inventoried", "pinned"} /\ pass'.at # "resolving"
  BY <1>1, <1>4
<1> QED
  BY <1>5, <1>6, <1>7, <1>10, <1>11, Zenon DEF AlarmInv, InventoryInv, PaidInv

LEMMA SelectKeeps ==
    ASSUME AlarmInv, NEW b, Select(b)
    PROVE  AlarmInv'
<1>1. /\ At("clear") /\ pass' = [pass EXCEPT !.at = "preparing", !.job = {b}]
      /\ UNCHANGED <<pegOut, main, mainBranches, paidAt, lapsed>>
  BY Zenon DEF Select, tables, chains, ledgers
<1>2. DOMAIN pass = PassFields
  BY DEF AlarmInv, RowsInv
<1>3. /\ DOMAIN pass' = PassFields /\ pass'.at = "preparing" /\ pass'.tip = pass.tip
      /\ pass'.settled = pass.settled
  BY <1>1, <1>2 DEF PassFields
<1>4. SettledInv'
  <2>1. pass.at # "idle"
    BY <1>1 DEF At
  <2> QED
    BY <1>1, <1>3, <2>1, SettledSame
<1> QED
  BY <1>1, <1>3, <1>4, Zenon DEF AlarmInv, RowsInv, MainInv, TipInv, InventoryInv, ResolvedInv,
     PaidInv, FinalInv, At

\* A pass ends, early or after its work.
LEMMA EndsKeep ==
    ASSUME AlarmInv,
           \/ ObserveFails \/ RevalidateFails \/ AlarmFails \/ QuorumExpires
           \/ \E c \in Candidates : Prepare(c)
           \/ PrepareFails \/ NothingSelected
    PROVE  AlarmInv'
<1>1. RowsInv
  BY DEF AlarmInv
<1>2. EndTick
  BY Zenon DEF ObserveFails, RevalidateFails, AlarmFails, QuorumExpires, Prepare, PrepareFails,
     NothingSelected, Unavailable
<1>3. pass' = NoPass /\ UNCHANGED <<main, mainBranches, paidAt>>
  BY <1>2, Zenon DEF EndTick, ledgers
<1>4. UNCHANGED pegOut \/ \E b : pegOut' = [pegOut EXCEPT ![b] = "detected"]
  BY Zenon DEF ObserveFails, RevalidateFails, AlarmFails, QuorumExpires, Prepare, PrepareFails,
     NothingSelected, Unavailable, RecordCandidate, UpdatePegOutStatus, SetPegOuts, tables
<1>5. RowsStay
  <2>1. "detected" \in PegOutStatus
    BY DEF PegOutStatus
  <2> QED
    BY <1>1, <1>4, <2>1, SameStay, SetStay
<1> QED
  BY <1>3, <1>5, EndsIdle

LEMMA PassKeeps ==
    ASSUME AlarmInv, PassStep
    PROVE  AlarmInv'
<1>1. CASE \E h \in 1..MaxSideHeight : Observe(h)
  BY <1>1, ObserveKeeps
<1>2. CASE Revalidate \/ Resolve \/ Reconstruct \/ Decide
  BY <1>2, RevalidateKeeps, ResolveKeeps, ReconstructKeeps, DecideKeeps
<1>3. CASE \E b \in Burns : Select(b)
  BY <1>3, SelectKeeps
<1>4. CASE \/ ObserveFails \/ RevalidateFails \/ AlarmFails \/ QuorumExpires
           \/ \E c \in Candidates : Prepare(c)
           \/ PrepareFails \/ NothingSelected
  BY <1>4, EndsKeep
<1> QED
  BY <1>1, <1>2, <1>3, <1>4, Zenon DEF PassStep

LEMMA TickKeeps ==
    ASSUME AlarmInv, Tick
    PROVE  AlarmInv'
<1>1. CASE RollbackTick \/ PegOutsGated
  <2>1. UNCHANGED <<pegOut, pass, main, mainBranches, paidAt, lapsed>>
    BY <1>1, Zenon DEF RollbackTick, PegOutsGated, tables, daemon, chains, ledgers
  <2> QED
    BY <2>1, SameStay, StandsStill DEF AlarmInv
<1>2. CASE BeginTick
  BY <1>2, BeginKeeps
<1>3. CASE PassStep
  BY <1>3, PassKeeps
<1> QED
  BY <1>1, <1>2, <1>3, Zenon DEF Tick

LEMMA AlarmInit == ASSUME Init PROVE AlarmInv
<1>1. /\ pegOut = [b \in Burns |-> "absent"] /\ main = <<0>> /\ mainBranches = 0
      /\ paidAt = [t \in MainTxs |-> IF t \in Deposits THEN 1 ELSE 0] /\ pass = NoPass
  BY Zenon DEF Init, TablesInit
<1>2. pass.at = "idle" /\ DOMAIN pass = PassFields
  BY <1>1 DEF NoPass, PassFields
<1>3. MainInv
  <2>1. main \in Seq(Nat) /\ Len(main) = 1 /\ main[1] = 0
    BY <1>1
  <2>2. paidAt \in [MainTxs -> Nat]
    BY <1>1
  <2> QED
    BY <1>1, <2>1, <2>2, GrowthAssumption DEF MainInv
<1>4. RowsInv
  BY <1>1, <1>2 DEF RowsInv
<1> QED
  BY <1>2, <1>3, <1>4, Zenon DEF AlarmInv, TipInv, InventoryInv, ResolvedInv, SettledInv,
     PaidInv, FinalInv

LEMMA AlarmNext ==
    ASSUME AlarmInv, [Next]_vars
    PROVE  AlarmInv'
<1>1. RowsInv
  BY DEF AlarmInv
<1>2. CASE Tick
  BY <1>2, TickKeeps
<1>3. CASE Restart \/ (SideStep /\ UNCHANGED <<tables, rowBlock, daemon>>) \/ UNCHANGED vars
  <2>1. UNCHANGED <<pegOut, pass, main, mainBranches, paidAt, lapsed>>
    BY <1>3, Zenon DEF Restart, SideStep, vars, tables, chains, ledgers, daemon
  <2> QED
    BY <1>1, <2>1, SameStay, StandsStill
<1>4. CASE (RestOfTick \/ OperatorRecovery) /\ UNCHANGED <<chains, rowBlock, daemon>>
  <2>1. UNCHANGED <<pass, main, mainBranches, paidAt, lapsed>>
    BY <1>4, Zenon DEF chains, ledgers, daemon
  <2> QED
    BY <1>1, <1>4, <2>1, OthersStay, StandsStill
<1>5. CASE MainStep /\ UNCHANGED <<tables, rowBlock, daemon>>
  BY <1>5, MainStepKeeps
<1> QED
  BY <1>2, <1>3, <1>4, <1>5, Zenon DEF Next

-----------------------------------------------------------------------------
(* The theorems. *)

\* AlarmInv is an invariant of every daemon, for all chains, bounds and amounts.
THEOREM AlarmInvariant == Spec => []AlarmInv
<1>1. Init => AlarmInv
  BY AlarmInit
<1>2. AlarmInv /\ [Next]_vars => AlarmInv'
  BY AlarmNext
<1> QED
  BY <1>1, <1>2, PTL DEF Spec

LEMMA DecidedClear == ASSUME AlarmInv PROVE ClearMeansBacked
<1> SUFFICES ASSUME pass.at = "clear", FinalityKept PROVE ~pass.short
  BY Zenon DEF ClearMeansBacked, At
<1>1. /\ pass.supply \in Int /\ pass.vault \in Int /\ pass.counted \subseteq Burns
      /\ pass.burns \subseteq pass.counted \cup pass.unlocked
      /\ pass.unlocked \subseteq pass.paid
  BY Zenon DEF AlarmInv, ResolvedInv, FinalInv
<1>2. pass.short = ShortOf(pass.supply, pass.burns, pass.paid, pass.vault)
  BY Zenon DEF AlarmInv, ResolvedInv
<1>3. ~(Required > pass.vault)
  <2>1. (pass.at = "deficit") = (Required > pass.vault)
    BY DEF AlarmInv, FinalInv
  <2> QED
    BY <2>1
<1>4. pass.counted \subseteq MainTxs
  BY <1>1 DEF MainTxs
<1>5. pass.burns \ pass.paid \in SUBSET pass.counted
  BY <1>1
<1>6. /\ Total(pass.burns \ pass.paid) \in Nat /\ Total(pass.counted) \in Nat
      /\ Total(pass.burns \ pass.paid) <= Total(pass.counted)
  BY <1>4, <1>5, AmountsNat, TotalMonotone, FS_Subset
<1>7. ~ShortOf(pass.supply, pass.burns, pass.paid, pass.vault)
  BY <1>1, <1>3, <1>6 DEF ShortOf, Required
<1> QED
  BY <1>2, <1>7, Zenon

LEMMA DecidedDeficit == ASSUME AlarmInv PROVE DeficitExplained
<1> SUFFICES ASSUME pass.at = "deficit", ~pass.short,
                    \A b \in pass.counted : b \in pass.burns /\ b \notin pass.paid
             PROVE  FALSE
  BY Zenon DEF DeficitExplained, At
<1>1. /\ pass.supply \in Int /\ pass.vault \in Int /\ pass.burns \subseteq Burns
      /\ pass.counted \subseteq Burns
  BY Zenon DEF AlarmInv, ResolvedInv
<1>2. pass.short = ShortOf(pass.supply, pass.burns, pass.paid, pass.vault)
  BY Zenon DEF AlarmInv, ResolvedInv
<1>3. Required > pass.vault
  <2>1. (pass.at = "deficit") = (Required > pass.vault)
    BY DEF AlarmInv, FinalInv
  <2> QED
    BY <2>1
<1>4. pass.burns \ pass.paid \subseteq MainTxs
  BY <1>1 DEF MainTxs
<1>5. pass.counted \in SUBSET (pass.burns \ pass.paid)
  OBVIOUS
<1>6. /\ Total(pass.burns \ pass.paid) \in Nat /\ Total(pass.counted) \in Nat
      /\ Total(pass.counted) <= Total(pass.burns \ pass.paid)
  BY <1>4, <1>5, AmountsNat, TotalMonotone, FS_Subset
<1>7. ShortOf(pass.supply, pass.burns, pass.paid, pass.vault)
  BY <1>1, <1>3, <1>6 DEF ShortOf, Required
<1> QED
  BY <1>2, <1>7, Zenon

\* ClearMeansBacked, for all chains and amounts, however many reorganisations came
\* before: when checkSolvencyInvariant lets a pass go on, and none within the pass
\* was as deep as finality, the vault covered the supply and every unpaid burn of
\* the pinned chain at the moment they were read.
THEOREM ClearMeansBackedHolds == Spec => []ClearMeansBacked
  BY AlarmInvariant, DecidedClear, PTL

\* DeficitExplained: a deficit that was not one when it was read counts a burn that
\* the pinned chain does not hold, or one that was already paid.
THEOREM DeficitExplainedHolds == Spec => []DeficitExplained
  BY AlarmInvariant, DecidedDeficit, PTL
=============================================================================
