--------------------------- MODULE RefundsProofs ---------------------------
(***************************************************************************)
(* For any number of bookings, refund rows, workers, admins, pages and     *)
(* failures.  A refund is recorded once, its row moves only forward, what  *)
(* the gateway paid out has a cause, and the payment's rollup is supported *)
(* by its rows; bookings move as BookingLifecycle says.  Cancelling keeps  *)
(* to that pipeline, and booking, Duffel, ledger and refunds agree.        *)
(*                                                                         *)
(* The invariants build on each other: RefundsInv tells what a run of the  *)
(* pipeline knows; MoneyInv adds the sums, over the rows of a payment, and *)
(* who may still ask the gateway to pay; CancelInv adds the pages.         *)
(***************************************************************************)
EXTENDS Cancellation, FiniteSetTheorems, WellFoundedInduction, TLAPS


-----------------------------------------------------------------------------
(* Sums over finite sets. *)

Pick(s) == CHOOSE x \in s : TRUE

\* The recursion of a fold over the subsets of S.
Folds(g, f, S) ==
    g = [s \in SUBSET S |-> IF s = {} THEN 0 ELSE f[Pick(s)] + g[s \ {Pick(s)}]]

Fold(f, S) == CHOOSE g : Folds(g, f, S)

\* The community module defines a sum as such a fold.
LEMMA SumDef == ASSUME NEW f, NEW S PROVE SumFunctionOnSet(f, S) = Fold(f, S)[S]
  BY DEF SumFunctionOnSet, FoldFunctionOnSet, MapThenFoldSet, Folds, Fold, Pick

\* Induction over finite sets, as the provers can use it: where something goes wrong,
\* there is a smallest set for which it does.
LEMMA SmallestCounterexample ==
  ASSUME NEW S, IsFiniteSet(S), NEW T \in SUBSET SUBSET S, T # {}
  PROVE  \E s \in T : \A u \in SUBSET s : u # s => u \notin T
  <1>1. IsWellFoundedOn(StrictSubsetOrdering(S), SUBSET S)
    BY FS_StrictSubsetOrderingWellFounded, FS_FiniteSubsetsOfFinite
  <1>2. PICK s \in T : \A u \in T : <<u, s>> \notin StrictSubsetOrdering(S)
    BY <1>1, WFMin
  <1> QED
    BY <1>2 DEF StrictSubsetOrdering

LEMMA PickIn == ASSUME NEW s, s # {} PROVE Pick(s) \in s
  BY DEF Pick

\* A fold at one of its sets ...
LEMMA FoldsAt ==
  ASSUME NEW f, NEW S, NEW g, Folds(g, f, S), NEW s \in SUBSET S
  PROVE  g[s] = IF s = {} THEN 0 ELSE f[Pick(s)] + g[s \ {Pick(s)}]
  <1> DEFINE val(u) == IF u = {} THEN 0 ELSE f[Pick(u)] + g[u \ {Pick(u)}]
  <1>1. g = [u \in SUBSET S |-> val(u)]
    BY DEF Folds
  <1> HIDE DEF val
  <1>2. g[s] = val(s)
    BY <1>1
  <1> QED
    BY <1>2 DEF val

\* ... does not depend on the set it was made for ...
LEMMA FoldsAgree ==
  ASSUME NEW f, NEW S, IsFiniteSet(S), NEW T \in SUBSET S,
         NEW g, Folds(g, f, S), NEW h, Folds(h, f, T)
  PROVE  g[T] = h[T]
  <1> DEFINE Bad == {s \in SUBSET T : g[s] # h[s]}
  <1>1. IsFiniteSet(T) /\ Bad \in SUBSET SUBSET T
    BY FS_Subset
  <1>2. SUFFICES ASSUME Bad # {} PROVE FALSE
    OBVIOUS
  <1> HIDE DEF Bad
  <1>3. PICK s \in Bad : \A u \in SUBSET s : u # s => u \notin Bad
    BY <1>1, <1>2, SmallestCounterexample
  <1>4. s \in SUBSET S /\ s \in SUBSET T /\ g[s] # h[s]
    BY <1>3 DEF Bad
  <1>5. CASE s = {}
    <2>1. g[s] = 0 /\ h[s] = 0
      BY <1>4, <1>5, FoldsAt
    <2> QED
      BY <1>4, <2>1
  <1>6. CASE s # {}
    <2> DEFINE u == s \ {Pick(s)}
    <2>1. u \in SUBSET s /\ u # s /\ u \in SUBSET T
      BY <1>4, <1>6, PickIn
    <2> HIDE DEF u
    <2>2. g[u] = h[u]
      BY <1>3, <2>1 DEF Bad
    <2>3. g[s] = IF s = {} THEN 0 ELSE f[Pick(s)] + g[u]
      BY <1>4, FoldsAt DEF u
    <2>4. h[s] = IF s = {} THEN 0 ELSE f[Pick(s)] + h[u]
      <3>1. s \in SUBSET T
        BY <1>4
      <3> QED
        BY <3>1, FoldsAt DEF u
    <2> QED
      BY <1>4, <1>6, <2>2, <2>3, <2>4
  <1> QED
    BY <1>5, <1>6

\* ... and exists.
LEMMA FoldExists ==
  ASSUME NEW f, NEW S, IsFiniteSet(S)
  PROVE  Folds(Fold(f, S), f, S)
  <1> DEFINE Bad == {s \in SUBSET S : ~ \E g : Folds(g, f, s)}
  <1>1. Bad \in SUBSET SUBSET S
    OBVIOUS
  <1>2. SUFFICES ASSUME Bad # {} PROVE FALSE
    BY DEF Fold
  <1> HIDE DEF Bad
  <1>3. PICK s \in Bad : \A u \in SUBSET s : u # s => u \notin Bad
    BY <1>1, <1>2, SmallestCounterexample
  <1>4. IsFiniteSet(s)
    BY <1>1, FS_Subset
  <1>5. ASSUME NEW u \in SUBSET s, u # s PROVE Folds(Fold(f, u), f, u)
    <2>1. u \notin Bad /\ u \in SUBSET S
      BY <1>1, <1>3, <1>5
    <2> QED
      BY <2>1 DEF Bad, Fold
  <1> DEFINE val(u) == IF u = {} THEN 0 ELSE f[Pick(u)] + Fold(f, u \ {Pick(u)})[u \ {Pick(u)}]
             g == [u \in SUBSET s |-> val(u)]
  <1>6. ASSUME NEW u \in SUBSET s, u # s PROVE val(u) = Fold(f, u)[u]
    <2>1. CASE u = {}
      BY <1>5, <1>6, <2>1, FoldsAt
    <2>2. CASE u # {}
      <3> DEFINE v == u \ {Pick(u)}
      <3>1. v \in SUBSET u /\ v \in SUBSET s /\ v # s
        BY <1>6
      <3>2. IsFiniteSet(u)
        BY <1>4, FS_Subset
      <3>3. Fold(f, u)[v] = Fold(f, v)[v]
        BY <1>5, <1>6, <3>1, <3>2, FoldsAgree
      <3>4. Fold(f, u)[u] = f[Pick(u)] + Fold(f, u)[v]
        BY <1>5, <1>6, <2>2, FoldsAt
      <3> QED
        BY <2>2, <3>3, <3>4
    <2> QED
      BY <2>1, <2>2
  <1>7. ASSUME NEW u \in SUBSET s, u # {} PROVE g[u] = f[Pick(u)] + g[u \ {Pick(u)}]
    <2> DEFINE v == u \ {Pick(u)}
    <2>1. v \in SUBSET s /\ v # s
      BY <1>7, PickIn
    <2>2. g[v] = Fold(f, v)[v]
      BY <1>6, <2>1
    <2>3. g[u] = f[Pick(u)] + Fold(f, v)[v]
      BY <1>7
    <2> QED
      BY <2>2, <2>3
  <1>8. g[{}] = 0
    OBVIOUS
  <1> HIDE DEF g
  <1>9. g = [u \in SUBSET s |-> IF u = {} THEN 0 ELSE f[Pick(u)] + g[u \ {Pick(u)}]]
    <2>1. g = [u \in SUBSET s |-> g[u]]
      BY DEF g
    <2> QED
      BY <1>7, <1>8, <2>1
  <1>10. Folds(g, f, s)
    BY <1>9 DEF Folds
  <1> QED
    BY <1>3, <1>10 DEF Bad

LEMMA SumEmpty == ASSUME NEW f PROVE SumFunctionOnSet(f, {}) = 0
  <1>1. Folds(Fold(f, {}), f, {})
    BY FoldExists, FS_EmptySet
  <1> QED
    BY <1>1, SumDef, FoldsAt

\* The sum of a set, with the element the fold picks set apart, and with any.
LEMMA SumStep ==
  ASSUME NEW f, NEW S, IsFiniteSet(S), S # {}
  PROVE  SumFunctionOnSet(f, S) = f[Pick(S)] + SumFunctionOnSet(f, S \ {Pick(S)})
  <1> DEFINE T == S \ {Pick(S)}
  <1>1. IsFiniteSet(T) /\ T \in SUBSET S
    BY FS_Subset
  <1>2. Folds(Fold(f, S), f, S) /\ Folds(Fold(f, T), f, T)
    BY <1>1, FoldExists
  <1>3. Fold(f, S)[T] = Fold(f, T)[T]
    BY <1>1, <1>2, FoldsAgree
  <1>4. Fold(f, S)[S] = f[Pick(S)] + Fold(f, S)[T]
    BY <1>2, FoldsAt
  <1> QED
    BY <1>3, <1>4, SumDef

LEMMA SumType ==
  ASSUME NEW S, IsFiniteSet(S), NEW f, \A x \in S : f[x] \in Nat
  PROVE  SumFunctionOnSet(f, S) \in Nat
  <1> DEFINE Bad == {s \in SUBSET S : SumFunctionOnSet(f, s) \notin Nat}
  <1>1. Bad \in SUBSET SUBSET S
    OBVIOUS
  <1>2. SUFFICES ASSUME Bad # {} PROVE FALSE
    OBVIOUS
  <1> HIDE DEF Bad
  <1>3. PICK s \in Bad : \A u \in SUBSET s : u # s => u \notin Bad
    BY <1>1, <1>2, SmallestCounterexample
  <1>4. s \in SUBSET S /\ SumFunctionOnSet(f, s) \notin Nat
    BY <1>3 DEF Bad
  <1>5. s # {}
    BY <1>4, SumEmpty
  <1>6. IsFiniteSet(s) /\ Pick(s) \in s
    BY <1>4, <1>5, FS_Subset, PickIn
  <1>7. SumFunctionOnSet(f, s) = f[Pick(s)] + SumFunctionOnSet(f, s \ {Pick(s)})
    BY <1>5, <1>6, SumStep
  <1>8. SumFunctionOnSet(f, s \ {Pick(s)}) \in Nat
    <2>1. s \ {Pick(s)} \in SUBSET s /\ s \ {Pick(s)} # s /\ s \ {Pick(s)} \in SUBSET S
      BY <1>4, <1>6
    <2> QED
      BY <1>3, <2>1 DEF Bad
  <1>9. f[Pick(s)] \in Nat
    BY <1>4, <1>6
  <1> QED
    BY <1>4, <1>7, <1>8, <1>9

LEMMA SumRemove ==
  ASSUME NEW S, IsFiniteSet(S), NEW f, \A x \in S : f[x] \in Nat, NEW y \in S
  PROVE  SumFunctionOnSet(f, S) = f[y] + SumFunctionOnSet(f, S \ {y})
  <1> DEFINE Bad == {s \in SUBSET S : \E z \in s : SumFunctionOnSet(f, s) # f[z] + SumFunctionOnSet(f, s \ {z})}
  <1>1. Bad \in SUBSET SUBSET S
    OBVIOUS
  <1>2. SUFFICES ASSUME Bad # {} PROVE FALSE
    OBVIOUS
  <1>3. \A s \in SUBSET S : s \notin Bad => \A z \in s : SumFunctionOnSet(f, s) = f[z] + SumFunctionOnSet(f, s \ {z})
    OBVIOUS
  <1>4. \A s \in Bad : \E z \in s : SumFunctionOnSet(f, s) # f[z] + SumFunctionOnSet(f, s \ {z})
    OBVIOUS
  <1> HIDE DEF Bad
  <1>5. PICK s \in Bad : \A u \in SUBSET s : u # s => u \notin Bad
    BY <1>1, <1>2, SmallestCounterexample
  <1>6. PICK z \in s : SumFunctionOnSet(f, s) # f[z] + SumFunctionOnSet(f, s \ {z})
    BY <1>4
  <1>7. PICK x \in s : SumFunctionOnSet(f, s) = f[x] + SumFunctionOnSet(f, s \ {x})
    <2>1. s # {} /\ IsFiniteSet(s)
      BY <1>1, <1>6, FS_Subset
    <2> QED
      BY <2>1, SumStep, PickIn
  <1>8. s \in SUBSET S /\ x # z
    BY <1>1, <1>6, <1>7
  <1>9. SumFunctionOnSet(f, s \ {x}) = f[z] + SumFunctionOnSet(f, (s \ {x}) \ {z})
    <2>1. s \ {x} \in SUBSET s /\ s \ {x} # s /\ s \ {x} \in SUBSET S /\ z \in s \ {x}
      BY <1>8
    <2> QED
      BY <1>3, <1>5, <2>1
  <1>10. SumFunctionOnSet(f, s \ {z}) = f[x] + SumFunctionOnSet(f, (s \ {z}) \ {x})
    <2>1. s \ {z} \in SUBSET s /\ s \ {z} # s /\ s \ {z} \in SUBSET S /\ x \in s \ {z}
      BY <1>8
    <2> QED
      BY <1>3, <1>5, <2>1
  <1>11. (s \ {z}) \ {x} = (s \ {x}) \ {z}
    OBVIOUS
  <1>12. f[x] \in Nat /\ f[z] \in Nat /\ SumFunctionOnSet(f, (s \ {x}) \ {z}) \in Nat
    <2>1. IsFiniteSet((s \ {x}) \ {z}) /\ \A v \in (s \ {x}) \ {z} : f[v] \in Nat
      BY <1>8, FS_Subset
    <2> QED
      BY <1>8, <2>1, SumType
  <1> QED
    BY <1>6, <1>7, <1>9, <1>10, <1>11, <1>12

LEMMA SumAdd ==
  ASSUME NEW S, IsFiniteSet(S), NEW y, y \notin S, NEW f, \A x \in S \union {y} : f[x] \in Nat
  PROVE  SumFunctionOnSet(f, S \union {y}) = SumFunctionOnSet(f, S) + f[y]
  <1>1. IsFiniteSet(S \union {y}) /\ (S \union {y}) \ {y} = S
    BY FS_AddElement
  <1>2. SumFunctionOnSet(f, S \union {y}) = f[y] + SumFunctionOnSet(f, S)
    BY <1>1, SumRemove
  <1> QED
    BY <1>2, SumType

\* More and larger terms make a larger sum.
LEMMA SumGrows ==
  ASSUME NEW S, IsFiniteSet(S), NEW T \in SUBSET S,
         NEW f, NEW g, \A x \in S : f[x] \in Nat /\ g[x] \in Nat /\ f[x] <= g[x]
  PROVE  SumFunctionOnSet(f, T) <= SumFunctionOnSet(g, S)
  <1> DEFINE Bad == {s \in SUBSET S : ~ (SumFunctionOnSet(f, T \intersect s) <= SumFunctionOnSet(g, s))}
  <1>1. Bad \in SUBSET SUBSET S
    OBVIOUS
  <1>2. SUFFICES ASSUME Bad # {} PROVE FALSE
    <2>1. S \notin Bad
      OBVIOUS
    <2>2. T \intersect S = T
      OBVIOUS
    <2> QED
      BY <2>1, <2>2
  <1>3. \A s \in SUBSET S : s \in Bad <=> ~ (SumFunctionOnSet(f, T \intersect s) <= SumFunctionOnSet(g, s))
    OBVIOUS
  <1> HIDE DEF Bad
  <1>4. PICK s \in Bad : \A u \in SUBSET s : u # s => u \notin Bad
    BY <1>1, <1>2, SmallestCounterexample
  <1>5. s \in SUBSET S /\ IsFiniteSet(s)
    BY <1>1, FS_Subset
  <1>6. s # {}
    BY <1>3, <1>4, SumEmpty
  <1>7. PICK x \in s : TRUE
    BY <1>6
  <1> DEFINE u == s \ {x}
  <1>8. u \in SUBSET S /\ IsFiniteSet(u) /\ SumFunctionOnSet(f, T \intersect u) <= SumFunctionOnSet(g, u)
    <2>1. u \in SUBSET s /\ u # s /\ u \in SUBSET S
      BY <1>5
    <2> QED
      BY <1>3, <1>4, <1>5, <2>1, FS_Subset
  <1>9. SumFunctionOnSet(g, s) = g[x] + SumFunctionOnSet(g, u) /\ SumFunctionOnSet(g, u) \in Nat /\ f[x] \in Nat /\ g[x] \in Nat /\ f[x] <= g[x]
    BY <1>5, <1>8, SumRemove, SumType
  <1>10. SumFunctionOnSet(f, T \intersect u) \in Nat
    <2>1. IsFiniteSet(T \intersect u)
      BY <1>8, FS_Subset
    <2> QED
      BY <1>8, <2>1, SumType
  <1>11. CASE x \in T
    <2>1. (T \intersect s) \ {x} = T \intersect u /\ x \in T \intersect s
      BY <1>11
    <2>2. IsFiniteSet(T \intersect s)
      BY <1>5, FS_Subset
    <2>3. SumFunctionOnSet(f, T \intersect s) = f[x] + SumFunctionOnSet(f, T \intersect u)
      BY <1>5, <2>1, <2>2, SumRemove
    <2> QED
      BY <1>3, <1>4, <1>5, <1>8, <1>9, <1>10, <2>3
  <1>12. CASE x \notin T
    <2>1. T \intersect s = T \intersect u
      BY <1>12
    <2> QED
      BY <1>3, <1>4, <1>5, <1>8, <1>9, <1>10, <2>1
  <1> QED
    BY <1>11, <1>12

LEMMA SumSame ==
  ASSUME NEW S, IsFiniteSet(S), NEW f, NEW g, \A x \in S : f[x] \in Nat /\ g[x] = f[x]
  PROVE  SumFunctionOnSet(g, S) = SumFunctionOnSet(f, S)
  <1>1. SumFunctionOnSet(f, S) <= SumFunctionOnSet(g, S)
    BY SumGrows
  <1>2. SumFunctionOnSet(g, S) <= SumFunctionOnSet(f, S)
    BY SumGrows
  <1>3. SumFunctionOnSet(f, S) \in Nat /\ SumFunctionOnSet(g, S) \in Nat
    BY SumType
  <1> QED
    BY <1>1, <1>2, <1>3

LEMMA SumZero ==
  ASSUME NEW S, IsFiniteSet(S), NEW f, \A x \in S : f[x] = 0
  PROVE  SumFunctionOnSet(f, S) = 0
  <1> DEFINE Bad == {s \in SUBSET S : SumFunctionOnSet(f, s) # 0}
  <1>1. Bad \in SUBSET SUBSET S
    OBVIOUS
  <1>2. SUFFICES ASSUME Bad # {} PROVE FALSE
    OBVIOUS
  <1>3. \A s \in SUBSET S : s \in Bad <=> SumFunctionOnSet(f, s) # 0
    OBVIOUS
  <1> HIDE DEF Bad
  <1>4. PICK s \in Bad : \A u \in SUBSET s : u # s => u \notin Bad
    BY <1>1, <1>2, SmallestCounterexample
  <1>5. s \in SUBSET S /\ IsFiniteSet(s) /\ s # {}
    BY <1>1, <1>3, <1>4, FS_Subset, SumEmpty
  <1>6. Pick(s) \in s /\ SumFunctionOnSet(f, s) = f[Pick(s)] + SumFunctionOnSet(f, s \ {Pick(s)})
    BY <1>5, SumStep, PickIn
  <1>7. SumFunctionOnSet(f, s \ {Pick(s)}) = 0
    <2>1. s \ {Pick(s)} \in SUBSET s /\ s \ {Pick(s)} # s /\ s \ {Pick(s)} \in SUBSET S
      BY <1>5, <1>6
    <2> QED
      BY <1>3, <1>4, <2>1
  <1> QED
    BY <1>3, <1>4, <1>5, <1>6, <1>7

-----------------------------------------------------------------------------
(* The refund pipeline: what a run knows. *)

RunPCs == {"idle", "inserting", "loading", "calling", "recording", "committing", "giving_up"}

Runs == [pc : RunPCs, refund : RefundIds \union {NoRefund}, amount : 0 .. Total,
         covered : BOOLEAN, closable : BOOLEAN, holdsJob : BOOLEAN]

RefundStates == {"none", "pending", "succeeded", "failed"}

LEMMA TypesOfRefunds ==
  ASSUME TypeOK
  PROVE  /\ refund \in [RefundIds -> RefundStates]
         /\ amount \in [RefundIds -> 0 .. Total]
         /\ ledger \in [RefundIds -> Nat] /\ moved \in [RefundIds -> Nat]
         /\ executor \in [Executors -> Runs]
  BY DEF TypeOK, Runs, RunPCs, RefundStates

\* What a run knows, by where it is: one that records was paid out, and one that
\* commits holds the lock of a row that is still pending.
RunTells(run) ==
    /\ run.pc # "idle" => run.refund \in RefundIds
    /\ run.pc \in {"recording", "committing"} => moved[run.refund] >= 1
    /\ run.pc = "committing" => refund[run.refund] = "pending"

Commits(x, r) == executor[x].pc = "committing" /\ executor[x].refund = r

RunsTell ==
    /\ \A x \in Executors : RunTells(executor[x])
    /\ \A x, y \in Executors, r \in RefundIds : Commits(x, r) /\ Commits(y, r) => x = y

RefundsInv == TypeOK /\ RunsTell /\ RecordedOnce

\* What a step may do to the refund rows and their payouts.
RowForward(r) ==
    /\ refund'[r] # refund[r] =>
          <<refund[r], refund'[r]>> \in {<<"none", "pending">>, <<"pending", "succeeded">>,
                                         <<"pending", "failed">>, <<"failed", "pending">>}
    /\ refund[r] # "none" => amount'[r] = amount[r]

LEMMA IdleIsRun == Idle \in Runs /\ Idle.pc = "idle"
  <1>1. 0 \in 0 .. Total
    BY RefundsAssumption
  <1> QED
    BY <1>1 DEF Idle, Runs, RunPCs

-----------------------------------------------------------------------------
(* The runs under every step. *)

\* The rows other runs commit stay pending, and nothing is paid back.
OthersKept(x) ==
    /\ \A r \in RefundIds : moved'[r] \in Nat /\ moved'[r] >= moved[r]
    /\ \A y \in Executors, r \in RefundIds : y # x /\ Commits(y, r) => refund'[r] = "pending"

LEMMA RunMoves ==
  ASSUME TypeOK, RunsTell, NEW x \in Executors, NEW run \in Runs,
         executor' = [executor EXCEPT ![x] = run], OthersKept(x), RunTells(run)',
         run.pc = "committing" => \A y \in Executors : y # x => ~ Commits(y, run.refund)
  PROVE  RunsTell'
  <1>1. executor'[x] = run /\ \A y \in Executors : y # x => executor'[y] = executor[y]
    BY TypesOfRefunds
  <1>2. ASSUME NEW y \in Executors PROVE RunTells(executor[y])'
    <2>1. CASE y = x
      BY <1>1, <2>1 DEF RunTells
    <2>2. CASE y # x
      <3>1. RunTells(executor[y]) /\ executor'[y] = executor[y] /\ executor[y] \in Runs
        BY <1>1, <2>2, TypesOfRefunds DEF RunsTell
      <3>2. PICK other \in Runs : other = executor[y] /\ other = executor'[y]
        BY <3>1
      <3>3. RunTells(other)
        BY <3>1, <3>2
      <3>4. other.pc # "idle" => other.refund \in RefundIds
        BY <3>3 DEF RunTells
      <3>5. other.pc \in {"recording", "committing"} => moved'[other.refund] >= 1
        <4>1. ASSUME other.pc \in {"recording", "committing"} PROVE moved'[other.refund] >= 1
          <5>1. /\ other.refund \in RefundIds /\ moved[other.refund] >= 1
                /\ moved[other.refund] \in Nat
            BY <3>3, <3>4, <4>1, TypesOfRefunds DEF RunTells
          <5>2. moved'[other.refund] \in Nat /\ moved'[other.refund] >= moved[other.refund]
            BY <5>1 DEF OthersKept
          <5> QED
            BY <5>1, <5>2
        <4> QED
          BY <4>1
      <3>6. other.pc = "committing" => refund'[other.refund] = "pending"
        BY <2>2, <3>2, <3>4 DEF OthersKept, Commits
      <3> QED
        BY <3>2, <3>4, <3>5, <3>6 DEF RunTells
    <2> QED
      BY <2>1, <2>2
  <1>3. \A y, z \in Executors, r \in RefundIds : Commits(y, r)' /\ Commits(z, r)' => y = z
    BY <1>1 DEF RunsTell, Commits
  <1> QED
    BY <1>2, <1>3 DEF RunsTell

LEMMA RunsStay ==
  ASSUME TypeOK, RunsTell, executor' = executor, \A x \in Executors : OthersKept(x),
         \A y \in Executors, r \in RefundIds : Commits(y, r) => refund'[r] = "pending"
  PROVE  RunsTell'
  <1>1. ASSUME NEW y \in Executors PROVE RunTells(executor[y])'
    <2>1. PICK run \in Runs : run = executor[y] /\ run = executor'[y] /\ RunTells(run)
      BY TypesOfRefunds DEF RunsTell
    <2>2. run.pc # "idle" => run.refund \in RefundIds
      BY <2>1 DEF RunTells
    <2>3. run.pc \in {"recording", "committing"} => moved'[run.refund] >= 1
      <3>1. ASSUME run.pc \in {"recording", "committing"} PROVE moved'[run.refund] >= 1
        <4>1. /\ run.refund \in RefundIds /\ moved[run.refund] >= 1 /\ moved[run.refund] \in Nat
          BY <2>1, <2>2, <3>1, TypesOfRefunds DEF RunTells
        <4>2. moved'[run.refund] \in Nat /\ moved'[run.refund] >= moved[run.refund]
          BY <4>1 DEF OthersKept
        <4> QED
          BY <4>1, <4>2
      <3> QED
        BY <3>1
    <2>4. run.pc = "committing" => refund'[run.refund] = "pending"
      BY <2>1, <2>2 DEF Commits
    <2> QED
      BY <2>1, <2>2, <2>3, <2>4 DEF RunTells
  <1>2. \A y, z \in Executors, r \in RefundIds : Commits(y, r)' /\ Commits(z, r)' => y = z
    BY DEF RunsTell, Commits
  <1> QED
    BY <1>1, <1>2 DEF RunsTell

-----------------------------------------------------------------------------
(* Types, part by part. *)

BookingsOK ==
    /\ status \in [Bookings -> BookingStatus]
    /\ history \in [Bookings -> Seq(HistoryRows)]
    /\ payment \in [Bookings -> {"succeeded", "partially_refunded", "refunded"}]

RowsOK ==
    /\ refund \in [RefundIds -> RefundStates]
    /\ amount \in [RefundIds -> 0 .. Total]
    /\ ledger \in [RefundIds -> Nat]
    /\ old \in [RefundIds -> BOOLEAN]

QueueOK ==
    /\ job \in [RefundIds -> {"none", "waiting", "active"}]
    /\ tries \in [RefundIds -> 0 .. MaxTries - 1]

CountsOK ==
    /\ moved \in [RefundIds -> Nat]
    /\ retries \in 0 .. MaxRetries
    /\ faults \in Nat

CreditOK ==
    /\ captures \in [Bookings -> 1 .. MaxCaptures]
    /\ overtaken \in [Bookings -> BOOLEAN]

\* All but the credits, which few steps touch.
CoreOK == BookingsOK /\ RowsOK /\ QueueOK /\ CountsOK /\ executor \in [Executors -> Runs]

LEMMA TypeParts ==
  TypeOK <=> /\ BookingsOK /\ RowsOK /\ QueueOK /\ CountsOK /\ executor \in [Executors -> Runs]
             /\ CreditOK
  BY DEF TypeOK, BookingsOK, RowsOK, QueueOK, CountsOK, CreditOK, Runs, RunPCs, RefundStates

LEMMA NextTypes ==
  ASSUME BookingsOK', RowsOK', QueueOK', CountsOK', executor' \in [Executors -> Runs]
  PROVE  CoreOK'
  BY DEF CoreOK

LEMMA BookingsTyped ==
  ASSUME BookingsOK, payment' = payment,
         UNCHANGED rowVars \/ \E b \in Bookings, to \in BookingStatus : TransitionTo(b, to)
  PROVE  BookingsOK'
  <1>1. CASE UNCHANGED rowVars
    BY <1>1 DEF BookingsOK, rowVars
  <1>2. ASSUME NEW b \in Bookings, NEW to \in BookingStatus, TransitionTo(b, to) PROVE BookingsOK'
    <2>1. CASE UNCHANGED rowVars
      BY <1>1, <2>1
    <2>2. CASE /\ status' = [status EXCEPT ![b] = to]
               /\ history' = [history EXCEPT ![b] = Append(@, HistoryRow(status[b], to))]
      <3>1. PICK entry : entry = HistoryRow(status[b], to)
        OBVIOUS
      <3>2. entry \in HistoryRows
        BY <3>1 DEF BookingsOK, HistoryRow, HistoryRows
      <3>3. Append(history[b], entry) \in Seq(HistoryRows)
        BY <3>2 DEF BookingsOK
      <3> QED
        BY <2>2, <3>1, <3>3 DEF BookingsOK
    <2> QED
      BY <1>2, <2>1, <2>2 DEF TransitionTo
  <1> QED
    BY <1>1, <1>2

LEMMA QueueTyped ==
  ASSUME QueueOK, NEW r \in RefundIds, AddJob(r) \/ UNCHANGED queueVars
  PROVE  QueueOK'
  <1>1. 0 \in 0 .. MaxTries - 1
    BY RefundsAssumption
  <1> QED
    BY <1>1 DEF QueueOK, AddJob, queueVars

\* The end of a run, with or without an error.
LEMMA EndTyped ==
  ASSUME TypeOK, NEW x \in Executors, Finish(x) \/ Fail(x), executor[x].refund \in RefundIds
  PROVE  /\ QueueOK'
         /\ \E run \in Runs : /\ executor' = [executor EXCEPT ![x] = run]
                              /\ run.pc = "idle" \/ (run.pc = "giving_up" /\ run.refund = executor[x].refund)
  <1> DEFINE r == executor[x].refund
             Goal == \E run \in Runs : /\ executor' = [executor EXCEPT ![x] = run]
                                       /\ run.pc = "idle" \/ (run.pc = "giving_up" /\ run.refund = r)
  <1>0. /\ QueueOK /\ executor \in [Executors -> Runs]
        /\ 0 \in 0 .. MaxTries - 1
    BY TypeParts, RefundsAssumption
  <1>1. CASE Finish(x)
    <2>1. QueueOK'
      <3>1. \/ UNCHANGED queueVars
            \/ job' = [job EXCEPT ![r] = "none"] /\ tries' = [tries EXCEPT ![r] = 0]
        BY <1>1 DEF Finish
      <3> QED
        BY <1>0, <3>1 DEF QueueOK, queueVars
    <2>2. executor' = [executor EXCEPT ![x] = Idle]
      BY <1>1 DEF Finish
    <2> QED
      BY <2>1, <2>2, IdleIsRun
  <1>2. CASE Fail(x)
    <2>1. QueueOK'
      <3>1. \/ UNCHANGED queueVars
            \/ job' = [job EXCEPT ![r] = "none"] /\ tries' = [tries EXCEPT ![r] = 0]
            \/ /\ tries[r] + 1 < MaxTries
               /\ job' = [job EXCEPT ![r] = "waiting"] /\ tries' = [tries EXCEPT ![r] = @ + 1]
        BY <1>2 DEF Fail
      <3>2. tries[r] \in 0 .. MaxTries - 1
        BY <1>0 DEF QueueOK
      <3>3. tries[r] + 1 < MaxTries => tries[r] + 1 \in 0 .. MaxTries - 1
        BY <3>2, RefundsAssumption
      <3> QED
        BY <1>0, <3>1, <3>3 DEF QueueOK, queueVars
    <2>2. \/ executor' = [executor EXCEPT ![x] = Idle]
          \/ executor' = [executor EXCEPT ![x].pc = "giving_up", ![x].holdsJob = FALSE]
          \/ executor' = [executor EXCEPT ![x] = [@ EXCEPT !.pc = "giving_up"]]
      BY <1>2 DEF Fail
    <2>3. ASSUME executor' = [executor EXCEPT ![x] = Idle] PROVE Goal
      BY <2>3, IdleIsRun
    <2>4. ASSUME executor' = [executor EXCEPT ![x].pc = "giving_up", ![x].holdsJob = FALSE] PROVE Goal
      <3>1. PICK run : run = [executor[x] EXCEPT !.pc = "giving_up", !.holdsJob = FALSE]
        OBVIOUS
      <3>2. run \in Runs /\ run.pc = "giving_up" /\ run.refund = r
        BY <1>0, <3>1 DEF Runs, RunPCs
      <3>3. executor' = [executor EXCEPT ![x] = run]
        BY <1>0, <2>4, <3>1 DEF Runs
      <3> QED
        BY <3>2, <3>3
    <2>5. ASSUME executor' = [executor EXCEPT ![x] = [@ EXCEPT !.pc = "giving_up"]] PROVE Goal
      <3>1. PICK run : run = [executor[x] EXCEPT !.pc = "giving_up"]
        OBVIOUS
      <3>2. run \in Runs /\ run.pc = "giving_up" /\ run.refund = r
        BY <1>0, <3>1 DEF Runs, RunPCs
      <3>3. executor' = [executor EXCEPT ![x] = run]
        BY <1>0, <2>5, <3>1
      <3> QED
        BY <3>2, <3>3
    <2> QED
      BY <2>1, <2>2, <2>3, <2>4, <2>5
  <1> QED
    BY <1>1, <1>2

-----------------------------------------------------------------------------
(* The rows under every step. *)

Kept == CoreOK' /\ RunsTell' /\ RecordedOnce' /\ \A r \in RefundIds : RowForward(r)

LEMMA RecordsKept ==
  ASSUME TypeOK, RecordedOnce, ledger' = ledger,
         \A r \in RefundIds : /\ moved'[r] \in Nat /\ moved'[r] >= moved[r]
                              /\ refund'[r] = "succeeded" <=> refund[r] = "succeeded"
  PROVE  RecordedOnce'
  <1>1. ASSUME NEW r \in RefundIds
        PROVE  /\ ledger'[r] = One(refund'[r] = "succeeded")
               /\ refund'[r] = "succeeded" => moved'[r] >= 1
    BY TypesOfRefunds DEF RecordedOnce, One
  <1> QED
    BY <1>1 DEF RecordedOnce

\* A refund row is committed.
LEMMA InsertKeeps ==
  ASSUME RefundsInv, NEW r \in RefundIds, NEW n \in 0 .. Total, InsertPending(r, n), moved' = moved
  PROVE  /\ RowsOK' /\ RecordedOnce' /\ \A q \in RefundIds : RowForward(q)
         /\ payment' = payment
         /\ \A x \in Executors : OthersKept(x)
         /\ \A y \in Executors, q \in RefundIds : Commits(y, q) => refund'[q] = "pending"
  <1>0. RowsOK /\ CountsOK /\ TypeOK /\ RecordedOnce /\ RunsTell
    BY TypeParts DEF RefundsInv
  <1>1. /\ refund[r] = "none"
        /\ refund' = [refund EXCEPT ![r] = "pending"]
        /\ amount' = [amount EXCEPT ![r] = n]
        /\ UNCHANGED <<payment, ledger, old>>
    BY DEF InsertPending
  <1>2. /\ refund'[r] = "pending" /\ \A q \in RefundIds : q # r => refund'[q] = refund[q]
        /\ \A q \in RefundIds : q # r => amount'[q] = amount[q]
    BY <1>0, <1>1 DEF RowsOK
  <1>3. RowsOK'
    BY <1>0, <1>1 DEF RowsOK, RefundStates
  <1>4. \A q \in RefundIds : moved'[q] \in Nat /\ moved'[q] >= moved[q]
    BY <1>0 DEF CountsOK
  <1>5. RecordedOnce'
    BY <1>0, <1>1, <1>2, <1>4, RecordsKept
  <1>6. \A q \in RefundIds : RowForward(q)
    BY <1>1, <1>2 DEF RowForward
  <1>7. \A y \in Executors, q \in RefundIds : Commits(y, q) => refund[q] = "pending"
    BY <1>0 DEF RunsTell, RunTells, Commits
  <1> QED
    BY <1>1, <1>2, <1>3, <1>4, <1>5, <1>6, <1>7 DEF OthersKept

\* The rows and the payouts stay.
LEMMA TablesStay ==
  ASSUME RefundsInv, UNCHANGED <<refund, amount, ledger>>,
         \A q \in RefundIds : moved'[q] \in Nat /\ moved'[q] >= moved[q]
  PROVE  /\ RecordedOnce' /\ \A q \in RefundIds : RowForward(q)
         /\ \A x \in Executors : OthersKept(x)
         /\ \A y \in Executors, q \in RefundIds : Commits(y, q) => refund'[q] = "pending"
  <1>0. TypeOK /\ RecordedOnce /\ RunsTell
    BY DEF RefundsInv
  <1>1. RecordedOnce'
    BY <1>0, RecordsKept
  <1>2. \A y \in Executors, q \in RefundIds : Commits(y, q) => refund[q] = "pending"
    BY <1>0 DEF RunsTell, RunTells, Commits
  <1> QED
    BY <1>1, <1>2 DEF OthersKept, RowForward

LEMMA StepOfBookings ==
  ASSUME RefundsInv, NEW b \in Bookings, ConfirmOrder(b) \/ FailOrder(b) \/ CancelBooking(b)
  PROVE  Kept
  <1>0. /\ TypeOK /\ RunsTell /\ BookingsOK /\ RowsOK /\ QueueOK /\ CountsOK
        /\ executor \in [Executors -> Runs]
    BY TypeParts DEF RefundsInv
  <1>1. {"confirmed", "order_failed", "cancelled"} \subseteq BookingStatus
    BY DEF BookingStatus
  <1>2. /\ \E to \in BookingStatus : TransitionTo(b, to)
        /\ UNCHANGED <<executor, moved, retries, faults>>
        /\ \/ UNCHANGED <<tableVars, queueVars>>
           \/ \E r \in FreeRows(b), n \in 0 .. Total : InsertPending(r, n) /\ EnqueueRefund(r)
    <2>1. CASE ConfirmOrder(b)
      BY <1>1, <2>1 DEF ConfirmOrder
    <2>2. CASE FailOrder(b)
      <3>1. Total \in 0 .. Total
        BY RefundsAssumption
      <3> QED
        BY <1>1, <2>2, <3>1 DEF FailOrder
    <2>3. CASE CancelBooking(b)
      <3>1. 1 .. Total \subseteq 0 .. Total
        BY RefundsAssumption
      <3> QED
        BY <1>1, <2>3, <3>1 DEF CancelBooking
    <2> QED
      BY <2>1, <2>2, <2>3
  <1>3. CountsOK' /\ executor' \in [Executors -> Runs]
    BY <1>0, <1>2 DEF CountsOK
  <1>4. CASE UNCHANGED <<tableVars, queueVars>>
    <2>1. /\ RowsOK' /\ QueueOK' /\ UNCHANGED <<payment, refund, amount, ledger>>
          /\ \A q \in RefundIds : moved'[q] \in Nat /\ moved'[q] >= moved[q]
      BY <1>0, <1>2, <1>4 DEF RowsOK, QueueOK, CountsOK, tableVars, queueVars
    <2>2. BookingsOK'
      BY <1>0, <1>2, <2>1, BookingsTyped
    <2>3. RunsTell'
      BY <1>0, <1>2, <2>1, RunsStay, TablesStay
    <2> QED
      BY <1>3, <2>1, <2>2, <2>3, NextTypes, TablesStay DEF Kept
  <1>5. ASSUME NEW r \in FreeRows(b), NEW n \in 0 .. Total, InsertPending(r, n), EnqueueRefund(r)
        PROVE  Kept
    <2>1. r \in RefundIds /\ moved' = moved
      BY <1>2 DEF FreeRows, Rows
    <2>2. /\ RowsOK' /\ RecordedOnce' /\ \A q \in RefundIds : RowForward(q)
          /\ payment' = payment
          /\ \A x \in Executors : OthersKept(x)
          /\ \A y \in Executors, q \in RefundIds : Commits(y, q) => refund'[q] = "pending"
      BY <1>5, <2>1, InsertKeeps
    <2>3. BookingsOK' /\ QueueOK'
      BY <1>0, <1>2, <1>5, <2>1, <2>2, BookingsTyped, QueueTyped DEF EnqueueRefund
    <2>4. RunsTell'
      BY <1>0, <1>2, <2>2, RunsStay
    <2> QED
      BY <1>3, <2>2, <2>3, <2>4, NextTypes DEF Kept
  <1> QED
    BY <1>2, <1>4, <1>5

\* The queue, the sweep and an admin's retry.
LEMMA StepOfRows ==
  ASSUME RefundsInv, NEW r \in RefundIds, RetryRefund(r) \/ GrowsOld(r) \/ Requeue(r)
  PROVE  Kept
  <1>0. /\ TypeOK /\ RunsTell /\ RecordedOnce /\ BookingsOK /\ RowsOK /\ QueueOK /\ CountsOK
        /\ executor \in [Executors -> Runs]
    BY TypeParts DEF RefundsInv
  <1>1. /\ UNCHANGED <<rowVars, payment, amount, ledger, executor, moved>>
        /\ AddJob(r) \/ UNCHANGED queueVars
    BY DEF RetryRefund, GrowsOld, Requeue, EnqueueRefund, tableVars
  <1>2. BookingsOK' /\ QueueOK' /\ executor' \in [Executors -> Runs]
    BY <1>0, <1>1, BookingsTyped, QueueTyped
  <1>3. \A q \in RefundIds : moved'[q] \in Nat /\ moved'[q] >= moved[q]
    BY <1>0, <1>1 DEF CountsOK
  <1>4. CASE GrowsOld(r) \/ Requeue(r)
    <2>1. /\ UNCHANGED <<refund, retries, faults>>
          /\ old' = old \/ old' = [old EXCEPT ![r] = TRUE]
      BY <1>4 DEF GrowsOld, Requeue, tableVars
    <2>2. RowsOK' /\ CountsOK'
      BY <1>0, <1>1, <2>1 DEF RowsOK, CountsOK
    <2>3. RunsTell'
      BY <1>0, <1>1, <1>3, <2>1, RunsStay, TablesStay
    <2> QED
      BY <1>1, <1>2, <1>3, <2>1, <2>2, <2>3, NextTypes, TablesStay DEF Kept
  <1>5. CASE RetryRefund(r)
    <2>1. /\ refund[r] \in {"pending", "failed"}
          /\ refund' = [refund EXCEPT ![r] = "pending"]
          /\ retries < MaxRetries /\ retries' = retries + 1 /\ UNCHANGED <<old, faults>>
      BY <1>5 DEF RetryRefund
    <2>2. refund'[r] = "pending" /\ \A q \in RefundIds : q # r => refund'[q] = refund[q]
      BY <1>0, <2>1 DEF RowsOK
    <2>3. RowsOK'
      BY <1>0, <1>1, <2>1 DEF RowsOK, RefundStates
    <2>4. CountsOK'
      <3>1. retries' \in 0 .. MaxRetries
        BY <1>0, <2>1, RefundsAssumption DEF CountsOK
      <3> QED
        BY <1>0, <1>1, <2>1, <3>1 DEF CountsOK
    <2>5. RecordedOnce'
      BY <1>0, <1>1, <1>3, <2>1, <2>2, RecordsKept
    <2>6. \A q \in RefundIds : RowForward(q)
      BY <1>1, <2>1, <2>2 DEF RowForward
    <2>7. /\ \A y \in Executors, q \in RefundIds : Commits(y, q) => refund'[q] = "pending"
          /\ \A x \in Executors : OthersKept(x)
      <3>1. \A y \in Executors, q \in RefundIds : Commits(y, q) => refund[q] = "pending"
        BY <1>0 DEF RunsTell, RunTells, Commits
      <3> QED
        BY <1>3, <2>2, <3>1 DEF OthersKept
    <2>8. RunsTell'
      BY <1>0, <1>1, <2>7, RunsStay
    <2> QED
      BY <1>2, <2>3, <2>4, <2>5, <2>6, <2>8, NextTypes DEF Kept
  <1> QED
    BY <1>4, <1>5

-----------------------------------------------------------------------------
(* The runs. *)

\* A run moves and the rows stay.
LEMMA RunKeeps ==
  ASSUME RefundsInv, NEW x \in Executors, NEW run \in Runs, executor' = [executor EXCEPT ![x] = run],
         UNCHANGED <<rowVars, tableVars>>, QueueOK', CountsOK',
         \A q \in RefundIds : moved'[q] >= moved[q],
         run.pc # "idle" => run.refund \in RefundIds,
         run.pc \in {"recording", "committing"} => moved'[run.refund] >= 1,
         run.pc = "committing" => /\ refund[run.refund] = "pending"
                                  /\ \A y \in Executors : y # x => ~ Commits(y, run.refund)
  PROVE  Kept
  <1>0. /\ TypeOK /\ RunsTell /\ RecordedOnce /\ BookingsOK /\ RowsOK
        /\ executor \in [Executors -> Runs]
    BY TypeParts DEF RefundsInv
  <1>1. UNCHANGED <<payment, refund, amount, ledger, old>>
    BY DEF tableVars
  <1>2. BookingsOK' /\ RowsOK' /\ executor' \in [Executors -> Runs]
    BY <1>0, <1>1, BookingsTyped DEF RowsOK
  <1>3. \A q \in RefundIds : moved'[q] \in Nat /\ moved'[q] >= moved[q]
    BY DEF CountsOK
  <1>4. RunTells(run)'
    BY <1>1 DEF RunTells
  <1>5. RunsTell'
    BY <1>0, <1>1, <1>3, <1>4, RunMoves, TablesStay
  <1> QED
    BY <1>1, <1>2, <1>3, <1>5, NextTypes, TablesStay DEF Kept

\* A step that only moves the run of x on: its refund stays.
LEMMA RunGoesOn ==
  ASSUME RefundsInv, NEW x \in Executors, NEW pc \in RunPCs \ {"recording", "committing"},
         executor[x].refund \in RefundIds, executor' = [executor EXCEPT ![x].pc = pc],
         UNCHANGED <<rowVars, tableVars, queueVars, moved, retries, faults>>
  PROVE  Kept
  <1>0. QueueOK /\ CountsOK /\ executor \in [Executors -> Runs]
    BY TypeParts DEF RefundsInv
  <1>1. PICK run : run = [executor[x] EXCEPT !.pc = pc]
    OBVIOUS
  <1>2. /\ run \in Runs /\ run.pc = pc /\ run.refund = executor[x].refund
        /\ executor' = [executor EXCEPT ![x] = run]
    BY <1>0, <1>1 DEF Runs
  <1>3. QueueOK' /\ CountsOK' /\ \A q \in RefundIds : moved'[q] >= moved[q]
    BY <1>0 DEF QueueOK, CountsOK, queueVars
  <1> QED
    BY <1>2, <1>3, RunKeeps

LEMMA StepOfAdmins ==
  ASSUME RefundsInv, NEW a \in Admins,
         (\E b \in Bookings, n \in 1 .. Total : AdminChecks(a, b, n)) \/ AdminInserts(a)
  PROVE  Kept
  <1>0. /\ TypeOK /\ RunsTell /\ RecordedOnce /\ BookingsOK /\ RowsOK /\ QueueOK /\ CountsOK
        /\ executor \in [Executors -> Runs] /\ a \in Executors
    BY TypeParts DEF RefundsInv, Executors
  <1>1. ASSUME NEW b \in Bookings, NEW n \in 1 .. Total, AdminChecks(a, b, n) PROVE Kept
    <2>1. PICK r \in FreeRows(b) :
            executor' = [executor EXCEPT ![a] = [Idle EXCEPT !.pc = "inserting", !.refund = r, !.amount = n]]
      BY <1>1 DEF AdminChecks
    <2>2. PICK run : run = [Idle EXCEPT !.pc = "inserting", !.refund = r, !.amount = n]
      OBVIOUS
    <2>3. n \in 0 .. Total
      BY RefundsAssumption
    <2>4. run \in Runs /\ run.pc = "inserting" /\ run.refund = r /\ r \in RefundIds
      BY <2>2, <2>3 DEF Runs, RunPCs, Idle, FreeRows, Rows
    <2>5. executor' = [executor EXCEPT ![a] = run]
      BY <2>1, <2>2
    <2>6. UNCHANGED <<rowVars, tableVars, queueVars, moved, retries, faults>>
      BY <1>1 DEF AdminChecks
    <2>7. QueueOK' /\ CountsOK' /\ \A q \in RefundIds : moved'[q] >= moved[q]
      BY <1>0, <2>6 DEF QueueOK, CountsOK, queueVars
    <2> QED
      BY <1>0, <2>4, <2>5, <2>6, <2>7, RunKeeps
  <1>2. CASE AdminInserts(a)
    <2>1. PICK r, n : r = executor[a].refund /\ n = executor[a].amount
      OBVIOUS
    <2>2. r \in RefundIds /\ n \in 0 .. Total
      BY <1>0, <1>2, <2>1 DEF AdminInserts, RunsTell, RunTells, Runs
    <2>3. /\ InsertPending(r, n) /\ UNCHANGED <<rowVars, queueVars, moved, retries, faults>>
          /\ executor' = [executor EXCEPT ![a].pc = "loading"]
      BY <1>2, <2>1 DEF AdminInserts
    <2>4. /\ RowsOK' /\ RecordedOnce' /\ \A q \in RefundIds : RowForward(q)
          /\ payment' = payment
          /\ \A x \in Executors : OthersKept(x)
      BY <2>2, <2>3, InsertKeeps
    <2>5. BookingsOK' /\ QueueOK' /\ CountsOK'
      BY <1>0, <2>3, <2>4, BookingsTyped DEF QueueOK, CountsOK, queueVars
    <2>6. PICK run : run = [executor[a] EXCEPT !.pc = "loading"]
      OBVIOUS
    <2>7. /\ run \in Runs /\ run.pc = "loading" /\ run.refund = r
          /\ executor' = [executor EXCEPT ![a] = run]
      BY <1>0, <2>1, <2>3, <2>6 DEF Runs, RunPCs
    <2>8. RunTells(run)'
      BY <2>2, <2>7 DEF RunTells
    <2>9. RunsTell' /\ executor' \in [Executors -> Runs]
      BY <1>0, <2>4, <2>7, <2>8, RunMoves
    <2> QED
      BY <2>4, <2>5, <2>9, NextTypes DEF Kept
  <1> QED
    BY <1>1, <1>2

LEMMA StepOfQueue ==
  ASSUME RefundsInv, NEW w \in Workers, Stalls(w) \/ \E r \in RefundIds : TakeJob(w, r)
  PROVE  Kept
  <1>0. /\ QueueOK /\ CountsOK /\ executor \in [Executors -> Runs] /\ w \in Executors
        /\ RunTells(executor[w]) /\ RunsTell /\ RowsOK
    BY TypeParts DEF RefundsInv, Executors, RunsTell
  <1>1. ASSUME NEW r \in RefundIds, TakeJob(w, r) PROVE Kept
    <2>1. PICK run : run = [Idle EXCEPT !.pc = "loading", !.refund = r, !.holdsJob = TRUE]
      OBVIOUS
    <2>2. run \in Runs /\ run.pc = "loading" /\ run.refund = r
      BY <2>1, IdleIsRun DEF Runs, RunPCs, Idle
    <2>3. /\ executor' = [executor EXCEPT ![w] = run] /\ UNCHANGED <<rowVars, tableVars>>
          /\ job' = [job EXCEPT ![r] = "active"] /\ UNCHANGED <<tries, moved, retries, faults>>
      BY <1>1, <2>1 DEF TakeJob
    <2>4. QueueOK' /\ CountsOK' /\ \A q \in RefundIds : moved'[q] >= moved[q]
      BY <1>0, <2>3 DEF QueueOK, CountsOK
    <2> QED
      BY <1>0, <2>2, <2>3, <2>4, RunKeeps
  <1>2. CASE Stalls(w)
    <2>1. PICK run : run = [executor[w] EXCEPT !.holdsJob = FALSE]
      OBVIOUS
    <2>2. /\ run \in Runs /\ run.pc = executor[w].pc /\ run.refund = executor[w].refund
      BY <1>0, <2>1 DEF Runs
    <2>3. /\ executor' = [executor EXCEPT ![w] = run] /\ UNCHANGED <<rowVars, tableVars>>
          /\ job' = [job EXCEPT ![executor[w].refund] = "waiting"]
          /\ faults < MaxFaults /\ faults' = faults + 1 /\ UNCHANGED <<tries, moved, retries>>
      BY <1>0, <1>2, <2>1 DEF Stalls, Runs
    <2>4. QueueOK' /\ CountsOK' /\ \A q \in RefundIds : moved'[q] >= moved[q]
      <3>1. faults' \in Nat
        BY <1>0, <2>3, RefundsAssumption DEF CountsOK
      <3>2. CountsOK' /\ \A q \in RefundIds : moved'[q] >= moved[q]
        BY <1>0, <2>3, <3>1 DEF CountsOK
      <3>3. QueueOK'
        BY <1>0, <2>3 DEF QueueOK
      <3> QED
        BY <3>2, <3>3
    <2>5. run.pc = "committing" => \A y \in Executors : y # w => ~ Commits(y, run.refund)
      BY <1>0, <2>2 DEF RunsTell, RunTells, Commits
    <2> QED
      BY <1>0, <2>2, <2>3, <2>4, <2>5, RunKeeps DEF RunTells
  <1> QED
    BY <1>1, <1>2

LEMMA StepOfRun ==
  ASSUME RefundsInv, NEW x \in Executors, LoadRefund(x) \/ CallGateway(x) \/ OpenRecord(x)
  PROVE  Kept
  <1> DEFINE r == executor[x].refund
  <1>0. /\ TypeOK /\ QueueOK /\ CountsOK /\ executor \in [Executors -> Runs]
        /\ RunTells(executor[x]) /\ executor[x] \in Runs /\ RunsTell
    BY TypeParts DEF RefundsInv, RunsTell
  <1>1. r \in RefundIds
    BY <1>0 DEF LoadRefund, CallGateway, OpenRecord, RunTells
  <1>2. UNCHANGED <<rowVars, tableVars, retries>>
    BY DEF LoadRefund, CallGateway, OpenRecord
  \* A run that ends, paid out or not.
  <1>3. ASSUME Finish(x) \/ Fail(x), CountsOK', \A q \in RefundIds : moved'[q] >= moved[q]
        PROVE  Kept
    <2>1. QueueOK'
      BY <1>0, <1>1, <1>3, EndTyped
    <2>2. PICK run \in Runs : /\ executor' = [executor EXCEPT ![x] = run]
                              /\ run.pc = "idle" \/ (run.pc = "giving_up" /\ run.refund = r)
      BY <1>0, <1>1, <1>3, EndTyped
    <2> QED
      BY <1>1, <1>2, <1>3, <2>1, <2>2, RunKeeps
  <1>4. CASE LoadRefund(x)
    <2>1. UNCHANGED <<moved, retries, faults>>
      BY <1>4 DEF LoadRefund
    <2>2. CountsOK' /\ \A q \in RefundIds : moved'[q] >= moved[q]
      BY <1>0, <2>1 DEF CountsOK
    <2>3. CASE Finish(x)
      BY <1>3, <2>2, <2>3
    <2>4. CASE executor' = [executor EXCEPT ![x].pc = "calling"] /\ UNCHANGED queueVars
      <3>1. "calling" \in RunPCs \ {"recording", "committing"}
        BY DEF RunPCs
      <3> QED
        BY <1>1, <1>2, <2>1, <2>4, <3>1, RunGoesOn
    <2> QED
      BY <1>4, <2>3, <2>4 DEF LoadRefund
  <1>5. CASE CallGateway(x)
    <2>1. \/ UNCHANGED <<moved, faults>> /\ Fail(x)
          \/ /\ moved' = [moved EXCEPT ![r] = @ + 1]
             /\ \/ UNCHANGED <<queueVars, faults>> /\ executor' = [executor EXCEPT ![x].pc = "recording"]
                \/ faults < MaxFaults /\ faults' = faults + 1 /\ Fail(x)
      BY <1>5 DEF CallGateway
    <2>2. CASE UNCHANGED <<moved, faults>> /\ Fail(x)
      <3>1. CountsOK' /\ \A q \in RefundIds : moved'[q] >= moved[q]
        BY <1>0, <1>2, <2>2 DEF CountsOK
      <3> QED
        BY <1>3, <2>2, <3>1
    <2>3. CASE moved' = [moved EXCEPT ![r] = @ + 1]
      <3>1. /\ moved' \in [RefundIds -> Nat] /\ moved'[r] >= 1
            /\ \A q \in RefundIds : moved'[q] >= moved[q]
        BY <1>0, <1>1, <2>3 DEF CountsOK
      <3>2. CASE faults < MaxFaults /\ faults' = faults + 1 /\ Fail(x)
        <4>1. faults' \in Nat
          BY <1>0, <3>2, RefundsAssumption DEF CountsOK
        <4>2. CountsOK'
          BY <1>0, <1>2, <3>1, <4>1 DEF CountsOK
        <4> QED
          BY <1>3, <3>1, <3>2, <4>2
      <3>3. CASE UNCHANGED <<queueVars, faults>> /\ executor' = [executor EXCEPT ![x].pc = "recording"]
        <4>1. CountsOK' /\ QueueOK'
          BY <1>0, <1>2, <3>1, <3>3 DEF CountsOK, QueueOK, queueVars
        <4>2. PICK run : run = [executor[x] EXCEPT !.pc = "recording"]
          OBVIOUS
        <4>3. /\ run \in Runs /\ run.pc = "recording" /\ run.refund = r
              /\ executor' = [executor EXCEPT ![x] = run]
          BY <1>0, <3>3, <4>2 DEF Runs, RunPCs
        <4> QED
          BY <1>1, <1>2, <3>1, <4>1, <4>3, RunKeeps
      <3> QED
        BY <2>1, <2>3, <3>1, <3>2, <3>3, <2>2
    <2> QED
      BY <2>1, <2>2, <2>3
  <1>6. CASE OpenRecord(x)
    <2>1. /\ UNCHANGED <<moved, faults>> /\ executor[x].pc = "recording" /\ ~ RowLocked(r)
          /\ \/ Finish(x)
             \/ /\ refund[r] = "pending" /\ UNCHANGED queueVars
                /\ executor' = [executor EXCEPT
                      ![x].pc = "committing",
                      ![x].covered = Covers(r),
                      ![x].closable = Closable(BookingOf[r])]
      BY <1>6 DEF OpenRecord
    <2>2. CountsOK' /\ \A q \in RefundIds : moved'[q] >= moved[q]
      BY <1>0, <1>2, <2>1 DEF CountsOK
    <2>3. CASE Finish(x)
      BY <1>3, <2>2, <2>3
    <2>4. CASE /\ refund[r] = "pending" /\ UNCHANGED queueVars
               /\ \E covered, closable \in BOOLEAN :
                     executor' = [executor EXCEPT ![x].pc = "committing",
                                                  ![x].covered = covered, ![x].closable = closable]
      <3>1. PICK covered, closable \in BOOLEAN :
               executor' = [executor EXCEPT ![x].pc = "committing",
                                            ![x].covered = covered, ![x].closable = closable]
        BY <2>4
      <3>2. PICK run : run = [executor[x] EXCEPT !.pc = "committing",
                                                 !.covered = covered, !.closable = closable]
        OBVIOUS
      <3>3. run \in Runs /\ run.pc = "committing" /\ run.refund = r
        BY <1>0, <3>2 DEF Runs, RunPCs
      <3>4. executor' = [executor EXCEPT ![x] = run]
        BY <1>0, <3>1, <3>2 DEF Runs
      <3>5. QueueOK'
        BY <1>0, <2>4 DEF QueueOK, queueVars
      <3>6. moved'[r] >= 1
        BY <1>0, <2>1 DEF RunTells
      <3>7. \A y \in Executors : ~ Commits(y, r)
        BY <2>1 DEF RowLocked, Commits
      <3> QED
        BY <1>1, <1>2, <2>2, <2>4, <3>3, <3>4, <3>5, <3>6, <3>7, RunKeeps
    <2>5. Covers(r) \in BOOLEAN /\ Closable(BookingOf[r]) \in BOOLEAN
      BY DEF Covers, Closable
    <2> QED
      BY <2>1, <2>3, <2>4, <2>5, Zenon
  <1> QED
    BY <1>4, <1>5, <1>6

\* The recording transaction commits.
LEMMA StepOfRecord ==
  ASSUME RefundsInv, NEW x \in Executors, CommitRecord(x)
  PROVE  Kept
  <1>0. /\ TypeOK /\ BookingsOK /\ RowsOK /\ QueueOK /\ CountsOK /\ executor \in [Executors -> Runs]
        /\ RunTells(executor[x]) /\ RunsTell /\ RecordedOnce
    BY TypeParts DEF RefundsInv, RunsTell
  <1>1. PICK r : r = executor[x].refund
    OBVIOUS
  <1>2. /\ Commits(x, r) /\ r \in RefundIds /\ refund[r] = "pending" /\ moved[r] >= 1
    BY <1>0, <1>1 DEF CommitRecord, RunTells, Commits
  <1>3. /\ refund' = [refund EXCEPT ![r] = "succeeded"]
        /\ ledger' = [ledger EXCEPT ![r] = @ + 1]
        /\ Finish(x) /\ UNCHANGED <<amount, old, moved, retries, faults>>
        /\ UNCHANGED rowVars \/ TransitionTo(BookingOf[r], "refunded")
        /\ \E s \in {"refunded", "partially_refunded"} :
              payment' = [payment EXCEPT ![BookingOf[r]] = s]
    BY <1>1 DEF CommitRecord
  <1>4. /\ refund'[r] = "succeeded" /\ ledger'[r] = ledger[r] + 1
        /\ \A q \in RefundIds : q # r => refund'[q] = refund[q] /\ ledger'[q] = ledger[q]
    BY <1>0, <1>2, <1>3 DEF RowsOK
  <1>5. RowsOK' /\ CountsOK'
    <2>1. ledger' \in [RefundIds -> Nat]
      BY <1>0, <1>2, <1>3 DEF RowsOK
    <2>2. refund' \in [RefundIds -> RefundStates]
      BY <1>0, <1>3 DEF RowsOK, RefundStates
    <2> QED
      BY <1>0, <1>3, <2>1, <2>2 DEF RowsOK, CountsOK
  <1>6. BookingsOK'
    <2>1. BookingOf[r] \in Bookings /\ "refunded" \in BookingStatus
      BY <1>2, RefundsAssumption DEF BookingStatus
    <2>2. payment' \in [Bookings -> {"succeeded", "partially_refunded", "refunded"}]
      BY <1>0, <1>3 DEF BookingsOK
    <2>3. CASE UNCHANGED rowVars
      BY <1>0, <2>2, <2>3 DEF BookingsOK, rowVars
    <2>4. CASE /\ status' = [status EXCEPT ![BookingOf[r]] = "refunded"]
               /\ history' = [history EXCEPT ![BookingOf[r]] =
                     Append(@, HistoryRow(status[BookingOf[r]], "refunded"))]
      <3>1. PICK entry : entry = HistoryRow(status[BookingOf[r]], "refunded")
        OBVIOUS
      <3>2. entry \in HistoryRows
        BY <1>0, <2>1, <3>1 DEF BookingsOK, HistoryRow, HistoryRows
      <3>3. Append(history[BookingOf[r]], entry) \in Seq(HistoryRows)
        BY <1>0, <2>1, <3>2 DEF BookingsOK
      <3> QED
        BY <1>0, <2>1, <2>2, <2>4, <3>1, <3>3 DEF BookingsOK
    <2> QED
      BY <1>3, <2>3, <2>4 DEF TransitionTo
  <1>7. QueueOK'
    BY <1>0, <1>1, <1>2, <1>3, EndTyped
  <1>8. executor' = [executor EXCEPT ![x] = Idle]
    BY <1>3 DEF Finish
  <1>9. OthersKept(x)
    <2>1. ASSUME NEW y \in Executors, NEW q \in RefundIds, y # x, Commits(y, q) PROVE refund'[q] = "pending"
      <3>1. q # r
        BY <1>0, <1>2, <2>1 DEF RunsTell
      <3>2. refund[q] = "pending"
        BY <1>0, <2>1 DEF RunsTell, RunTells, Commits
      <3> QED
        BY <1>4, <3>1, <3>2
    <2>2. \A q \in RefundIds : moved'[q] \in Nat /\ moved'[q] >= moved[q]
      BY <1>0, <1>3 DEF CountsOK
    <2> QED
      BY <2>1, <2>2 DEF OthersKept
  <1>10. RunsTell' /\ executor' \in [Executors -> Runs]
    BY <1>0, <1>8, <1>9, IdleIsRun, RunMoves DEF RunTells
  <1>11. RecordedOnce'
    <2>1. ASSUME NEW q \in RefundIds
          PROVE  /\ ledger'[q] = One(refund'[q] = "succeeded")
                 /\ refund'[q] = "succeeded" => moved'[q] >= 1
      BY <1>0, <1>2, <1>3, <1>4 DEF RecordedOnce, One
    <2> QED
      BY <2>1 DEF RecordedOnce
  <1>12. \A q \in RefundIds : RowForward(q)
    BY <1>2, <1>3, <1>4 DEF RowForward
  <1> QED
    BY <1>5, <1>6, <1>7, <1>10, <1>11, <1>12, NextTypes DEF Kept

\* The recording transaction is rolled back.
LEMMA StepOfThrow ==
  ASSUME RefundsInv, NEW x \in Executors, RecordThrows(x)
  PROVE  Kept
  <1>0. /\ TypeOK /\ QueueOK /\ CountsOK /\ RunTells(executor[x])
    BY TypeParts DEF RefundsInv, RunsTell
  <1>1. PICK r : r = executor[x].refund
    OBVIOUS
  <1>2. /\ r \in RefundIds /\ Fail(x)
        /\ UNCHANGED <<rowVars, tableVars, moved, retries>> /\ faults' = faults + 1
    BY <1>0, <1>1 DEF RecordThrows, RunTells
  <1>3. CountsOK' /\ \A q \in RefundIds : moved'[q] >= moved[q]
    BY <1>0, <1>2 DEF CountsOK
  <1>4. QueueOK'
    BY <1>0, <1>1, <1>2, EndTyped
  <1>5. PICK run \in Runs : /\ executor' = [executor EXCEPT ![x] = run]
                            /\ run.pc = "idle" \/ (run.pc = "giving_up" /\ run.refund = r)
    BY <1>0, <1>1, <1>2, EndTyped
  <1> QED
    BY <1>2, <1>3, <1>4, <1>5, RunKeeps

\* A second attempt is credited.
LEMMA StepOfCapture ==
  ASSUME RefundsInv, NEW b \in Bookings, CaptureAgain(b)
  PROVE  Kept
  <1>0. /\ TypeOK /\ RunsTell /\ BookingsOK /\ RowsOK /\ QueueOK /\ CountsOK
        /\ executor \in [Executors -> Runs]
    BY TypeParts DEF RefundsInv
  <1>1. /\ UNCHANGED <<rowVars, refund, amount, ledger, old, queueVars, executor, moved,
                       retries, faults>>
        /\ payment' = [payment EXCEPT ![b] = "succeeded"]
    BY DEF CaptureAgain
  <1>2. BookingsOK'
    BY <1>0, <1>1 DEF BookingsOK, rowVars
  <1>3. RowsOK' /\ QueueOK' /\ CountsOK' /\ executor' \in [Executors -> Runs]
    BY <1>0, <1>1 DEF RowsOK, QueueOK, CountsOK, queueVars
  <1>4. \A q \in RefundIds : moved'[q] \in Nat /\ moved'[q] >= moved[q]
    BY <1>0, <1>1 DEF CountsOK
  <1>5. RunsTell'
    BY <1>0, <1>1, <1>4, RunsStay, TablesStay
  <1> QED
    BY <1>1, <1>2, <1>3, <1>4, <1>5, NextTypes, TablesStay DEF Kept

\* A run gives up.
LEMMA StepOfGivingUp ==
  ASSUME RefundsInv, NEW x \in Executors, GiveUp(x)
  PROVE  Kept
  <1>0. /\ TypeOK /\ BookingsOK /\ RowsOK /\ QueueOK /\ CountsOK /\ executor \in [Executors -> Runs]
        /\ RunTells(executor[x]) /\ RunsTell /\ RecordedOnce
    BY TypeParts DEF RefundsInv, RunsTell
  <1>1. PICK r : r = executor[x].refund
    OBVIOUS
  <1>2. r \in RefundIds /\ \A y \in Executors : ~ Commits(y, r)
    BY <1>0, <1>1 DEF GiveUp, RunTells, RowLocked, Commits
  <1>3. /\ refund' = IF refund[r] = "pending" THEN [refund EXCEPT ![r] = "failed"] ELSE refund
        /\ executor' = [executor EXCEPT ![x] = Idle]
        /\ UNCHANGED <<rowVars, payment, amount, ledger, old, queueVars, moved, retries, faults>>
    BY <1>1 DEF GiveUp
  <1>4. /\ \A q \in RefundIds : q # r => refund'[q] = refund[q]
        /\ refund'[r] = refund[r] \/ (refund[r] = "pending" /\ refund'[r] = "failed")
    BY <1>0, <1>2, <1>3 DEF RowsOK
  <1>5. BookingsOK' /\ RowsOK' /\ QueueOK' /\ CountsOK'
    <2>1. BookingsOK'
      BY <1>0, <1>3, BookingsTyped
    <2>2. RowsOK'
      BY <1>0, <1>3 DEF RowsOK, RefundStates
    <2>3. QueueOK' /\ CountsOK'
      BY <1>0, <1>3 DEF QueueOK, CountsOK, queueVars
    <2> QED
      BY <2>1, <2>2, <2>3
  <1>6. \A q \in RefundIds : moved'[q] \in Nat /\ moved'[q] >= moved[q]
    BY <1>0, <1>3 DEF CountsOK
  <1>7. OthersKept(x)
    <2>1. ASSUME NEW y \in Executors, NEW q \in RefundIds, Commits(y, q) PROVE refund'[q] = "pending"
      <3>1. refund[q] = "pending" /\ q # r
        BY <1>0, <1>2, <2>1 DEF RunsTell, RunTells, Commits
      <3> QED
        BY <1>4, <3>1
    <2> QED
      BY <1>6, <2>1 DEF OthersKept
  <1>8. RunsTell' /\ executor' \in [Executors -> Runs]
    BY <1>0, <1>3, <1>7, IdleIsRun, RunMoves DEF RunTells
  <1>9. RecordedOnce'
    BY <1>0, <1>3, <1>4, <1>6, RecordsKept
  <1>10. \A q \in RefundIds : RowForward(q)
    BY <1>3, <1>4 DEF RowForward
  <1> QED
    BY <1>5, <1>8, <1>9, <1>10, NextTypes DEF Kept

LEMMA StepOfDeath ==
  ASSUME RefundsInv, NEW x \in Executors, Dies(x)
  PROVE  Kept
  <1>0. QueueOK /\ CountsOK
    BY TypeParts DEF RefundsInv
  <1>1. /\ executor' = [executor EXCEPT ![x] = Idle]
        /\ UNCHANGED <<rowVars, tableVars, moved, retries>>
        /\ faults < MaxFaults /\ faults' = faults + 1
        /\ \/ UNCHANGED queueVars
           \/ /\ \E s \in {"waiting", "none"} : job' = [job EXCEPT ![executor[x].refund] = s]
              /\ UNCHANGED tries
    BY DEF Dies
  <1>2. faults' \in Nat
    BY <1>0, <1>1, RefundsAssumption DEF CountsOK
  <1>3. CountsOK' /\ \A q \in RefundIds : moved'[q] >= moved[q]
    BY <1>0, <1>1, <1>2 DEF CountsOK
  <1>4. QueueOK'
    BY <1>0, <1>1 DEF QueueOK, queueVars
  <1> QED
    BY <1>1, <1>3, <1>4, IdleIsRun, RunKeeps

-----------------------------------------------------------------------------
LEMMA InitIsGood == Init => RefundsInv
  <1> SUFFICES ASSUME Init PROVE RefundsInv
    OBVIOUS
  <1>1. \A x \in Executors : executor[x] = Idle
    BY DEF Init
  <1>2. BookingsOK
    <2>1. /\ HistoryRow("pending", "pending") \in HistoryRows
          /\ HistoryRow("pending", "awaiting_payment") \in HistoryRows
          /\ HistoryRow("awaiting_payment", "paid") \in HistoryRows
      BY DEF HistoryRow, HistoryRows, BookingStatus
    <2>2. <<HistoryRow("pending", "pending"), HistoryRow("pending", "awaiting_payment"),
            HistoryRow("awaiting_payment", "paid")>> \in Seq(HistoryRows)
      BY <2>1
    <2>3. "paid" \in BookingStatus
      BY DEF BookingStatus
    <2> QED
      BY <2>2, <2>3 DEF Init, BookingsOK
  <1>3. 0 \in 0 .. Total /\ 0 \in 0 .. MaxTries - 1 /\ 0 \in 0 .. MaxRetries /\ 0 \in 0 .. MaxFaults
    BY RefundsAssumption
  <1>4. RowsOK /\ QueueOK /\ CountsOK
    BY <1>3 DEF Init, RowsOK, RefundStates, QueueOK, CountsOK
  <1>5. executor \in [Executors -> Runs]
    BY IdleIsRun DEF Init
  <1>6. RunsTell
    BY <1>1, IdleIsRun DEF RunsTell, RunTells, Commits
  <1>7. RecordedOnce
    BY DEF Init, RecordedOnce, One
  <1>8. CreditOK
    BY RefundsAssumption DEF Init, CreditOK
  <1> QED
    BY <1>2, <1>4, <1>5, <1>6, <1>7, <1>8, TypeParts DEF RefundsInv

LEMMA StepIsGood ==
  ASSUME RefundsInv, [Next]_vars
  PROVE  Kept
  <1>1. CASE Next
    BY <1>1, StepOfBookings, StepOfRows, StepOfAdmins, StepOfQueue, StepOfRun, StepOfRecord,
       StepOfGivingUp, StepOfDeath, StepOfCapture
       DEF Next, Pipeline, Step
  <1>2. CASE UNCHANGED vars
    <2>1. UNCHANGED <<rowVars, payment, refund, amount, ledger, old, executor, moved>>
      BY <1>2 DEF vars, tableVars
    <2>2. UNCHANGED <<job, tries, retries, faults>>
      BY <1>2 DEF vars, queueVars
    <2>3. RunsTell' /\ RecordedOnce' /\ \A r \in RefundIds : RowForward(r)
      BY <2>1 DEF RefundsInv, RunsTell, RunTells, Commits, RecordedOnce, RowForward
    <2>4. BookingsOK' /\ RowsOK' /\ QueueOK' /\ CountsOK' /\ executor' \in [Executors -> Runs]
      BY <2>1, <2>2, TypeParts
         DEF RefundsInv, BookingsOK, RowsOK, QueueOK, CountsOK, rowVars
    <2> QED
      BY <2>3, <2>4, NextTypes DEF Kept
  <1> QED
    BY <1>1, <1>2

LEMMA CreditsStep ==
  [Next]_vars => \/ UNCHANGED creditVars
                 \/ \E b \in Bookings :
                       \/ CaptureAgain(b)
                       \/ Overtake(b) /\ captures' = captures
  <1>1. CASE \E b \in Bookings : FailOrder(b) \/ CancelBooking(b)
    BY <1>1 DEF FailOrder, CancelBooking
  <1>2. CASE \E b \in Bookings :
                ConfirmOrder(b) \/ \E a \in Admins, n \in 1 .. Total : AdminChecks(a, b, n)
    BY <1>2 DEF ConfirmOrder, AdminChecks
  <1>3. CASE \/ \E a \in Admins : AdminInserts(a)
             \/ \E r \in RefundIds : \/ RetryRefund(r) \/ GrowsOld(r) \/ Requeue(r)
                                     \/ \E w \in Workers : TakeJob(w, r)
             \/ \E w \in Workers : Stalls(w)
    BY <1>3 DEF AdminInserts, RetryRefund, GrowsOld, Requeue, TakeJob, Stalls
  <1>4. ASSUME NEW x \in Executors, Step(x) \/ Dies(x) PROVE UNCHANGED creditVars
    BY <1>4 DEF Step, LoadRefund, CallGateway, OpenRecord, CommitRecord, GiveUp, Dies
  <1>5. CASE UNCHANGED vars
    BY <1>5 DEF vars
  <1> QED
    BY <1>1, <1>2, <1>3, <1>4, <1>5 DEF Next, Pipeline

LEMMA CreditsTyped ==
  ASSUME CreditOK, [Next]_vars
  PROVE  CreditOK' /\ \A b \in Bookings : captures'[b] >= captures[b]
  <1>1. \A b \in Bookings : captures[b] \in Nat /\ MaxCaptures \in Nat
    BY RefundsAssumption DEF CreditOK
  <1>2. CASE UNCHANGED creditVars
    BY <1>1, <1>2 DEF CreditOK, creditVars
  <1>3. ASSUME NEW b \in Bookings, CaptureAgain(b) PROVE CreditOK' /\ \A c \in Bookings : captures'[c] >= captures[c]
    <2>1. captures' = [captures EXCEPT ![b] = @ + 1] /\ captures[b] < MaxCaptures /\ overtaken' = overtaken
      BY <1>3 DEF CaptureAgain
    <2>2. captures[b] + 1 \in 1 .. MaxCaptures
      BY <1>1, <2>1 DEF CreditOK
    <2> QED
      BY <1>1, <2>1, <2>2 DEF CreditOK
  <1>4. ASSUME NEW b \in Bookings, Overtake(b), captures' = captures
        PROVE  CreditOK' /\ \A c \in Bookings : captures'[c] >= captures[c]
    <2>1. PICK late : late = (\/ overtaken[b]
                              \/ payment[b] = "refunded"
                              \/ \E x \in Executors : /\ executor[x].pc = "committing"
                                                     /\ executor[x].covered
                                                     /\ BookingOf[executor[x].refund] = b)
      OBVIOUS
    <2>2. late \in BOOLEAN
      BY <2>1
    <2>3. overtaken' = [overtaken EXCEPT ![b] = late]
      BY <1>4, <2>1, Zenon DEF Overtake
    <2>4. overtaken' \in [Bookings -> BOOLEAN]
      BY <2>2, <2>3 DEF CreditOK
    <2> QED
      BY <1>1, <1>4, <2>4 DEF CreditOK
  <1> QED
    BY <1>2, <1>3, <1>4, CreditsStep

LEMMA StepKeeps ==
  ASSUME RefundsInv, [Next]_vars
  PROVE  RefundsInv' /\ CreditOK' /\ \A b \in Bookings : captures'[b] >= captures[b]
  <1>1. CreditOK
    BY TypeParts DEF RefundsInv
  <1>2. CreditOK' /\ \A b \in Bookings : captures'[b] >= captures[b]
    BY <1>1, CreditsTyped
  <1>3. Kept
    BY StepIsGood
  <1>4. TypeOK'
    BY <1>2, <1>3 DEF Kept, CoreOK, TypeOK, BookingsOK, RowsOK, QueueOK, CountsOK, CreditOK,
                      Runs, RunPCs, RefundStates
  <1> QED
    BY <1>2, <1>3, <1>4 DEF Kept, RefundsInv

LEMMA Inductive == Spec => []RefundsInv
  <1>1. RefundsInv /\ [Next]_vars => RefundsInv'
    BY StepKeeps
  <1> QED
    BY <1>1, InitIsGood, PTL DEF Spec

-----------------------------------------------------------------------------

\* Every table, job and run keeps its type, whatever crashes, stalls or is retried.
THEOREM RefundsTypeCorrect == Spec => []TypeOK
  <1>1. RefundsInv => TypeOK
    BY DEF RefundsInv
  <1> QED
    BY <1>1, Inductive, PTL

\* However many workers and admin requests execute a refund at once, its recording
\* transaction, which locks the row and reads its status again, writes one ledger row,
\* and only for a refund the gateway paid out.
THEOREM RefundsRecordedOnce == Spec => []RecordedOnce
  <1>1. RefundsInv => RecordedOnce
    BY DEF RefundsInv
  <1> QED
    BY <1>1, Inductive, PTL

\* A refund row goes from pending to an outcome, and back only from failed by an
\* admin's retry; a succeeded one is final, and the amount stays as it was committed.
THEOREM RefundsMoveForward == Spec => RowsMoveForward
  <1>1. RefundsInv /\ [Next]_vars => [\A r \in RefundIds : RowForward(r)]_vars
    BY StepIsGood DEF Kept
  <1>2. (\A r \in RefundIds : RowForward(r)) =>
           \A r \in RefundIds :
              /\ refund'[r] # refund[r] =>
                    <<refund[r], refund'[r]>> \in
                        {<<"none", "pending">>, <<"pending", "succeeded">>,
                         <<"pending", "failed">>, <<"failed", "pending">>}
              /\ refund[r] # "none" => amount'[r] = amount[r]
    BY DEF RowForward
  <1> QED
    BY <1>1, <1>2, Inductive, PTL DEF Spec, RowsMoveForward

-----------------------------------------------------------------------------
(* Refunds implements BookingLifecycle. *)

LEMMA TransitionIsMove ==
  ASSUME NEW b \in Bookings, NEW to \in BookingStatus, TransitionTo(b, to)
  PROVE  Lifecycle!Next
  BY DEF Lifecycle!Next, Lifecycle!Move, Lifecycle!TransitionTo, TransitionTo,
         Lifecycle!BookingStatus, BookingStatus, Lifecycle!LegalTransitions,
         LegalTransitions, Lifecycle!HistoryRow, HistoryRow, Lifecycle!rowVars, rowVars

LEMMA StepIsLifecycleStep ==
  RefundsInv /\ [Next]_vars => [Lifecycle!Next]_(Lifecycle!rowVars)
  <1> SUFFICES ASSUME RefundsInv, [Next]_vars PROVE Lifecycle!Next \/ UNCHANGED rowVars
    BY DEF Lifecycle!rowVars, rowVars
  <1>1. {"confirmed", "order_failed", "cancelled", "refunded"} \subseteq BookingStatus
    BY DEF BookingStatus
  <1>2. CASE \E b \in Bookings : ConfirmOrder(b) \/ FailOrder(b) \/ CancelBooking(b)
    BY <1>1, <1>2, TransitionIsMove DEF ConfirmOrder, FailOrder, CancelBooking
  <1>3. ASSUME NEW x \in Executors, CommitRecord(x)
        PROVE  Lifecycle!Next \/ UNCHANGED rowVars
    <2>1. executor[x].refund \in RefundIds
      BY <1>3 DEF CommitRecord, RefundsInv, RunsTell, RunTells
    <2>2. BookingOf[executor[x].refund] \in Bookings
      BY <2>1, RefundsAssumption
    <2> QED
      BY <1>1, <1>3, <2>2, TransitionIsMove DEF CommitRecord
  <1>4. ASSUME NEW x \in Executors,
               LoadRefund(x) \/ CallGateway(x) \/ OpenRecord(x) \/ GiveUp(x) \/ Dies(x)
        PROVE  UNCHANGED rowVars
    BY <1>4 DEF LoadRefund, CallGateway, OpenRecord, GiveUp, Dies
  <1>5. CASE \/ \E b \in Bookings : CaptureAgain(b)
             \/ \E a \in Admins : \/ AdminInserts(a)
                                  \/ \E b \in Bookings, n \in 1 .. Total : AdminChecks(a, b, n)
             \/ \E r \in RefundIds : \/ RetryRefund(r) \/ GrowsOld(r) \/ Requeue(r)
                                     \/ \E w \in Workers : TakeJob(w, r)
             \/ \E w \in Workers : Stalls(w)
    BY <1>5 DEF CaptureAgain, AdminInserts, AdminChecks, RetryRefund, GrowsOld, Requeue, TakeJob, Stalls
  <1>6. CASE UNCHANGED vars
    BY <1>6 DEF vars
  <1> QED
    BY <1>2, <1>3, <1>4, <1>5, <1>6 DEF Next, Pipeline, Step

\* A paid booking has lived a whole lifecycle so far.
LEMMA InitIsResumption == Init => Lifecycle!TypeOK /\ Lifecycle!HistoryIsComplete
  <1> SUFFICES ASSUME Init PROVE Lifecycle!TypeOK /\ Lifecycle!HistoryIsComplete
    OBVIOUS
  <1>1. PICK r1, r2, r3 : /\ r1 = HistoryRow("pending", "pending")
                          /\ r2 = HistoryRow("pending", "awaiting_payment")
                          /\ r3 = HistoryRow("awaiting_payment", "paid")
    OBVIOUS
  <1>2. /\ r1 \in Lifecycle!HistoryRows /\ r2 \in Lifecycle!HistoryRows /\ r3 \in Lifecycle!HistoryRows
        /\ r1 = Lifecycle!HistoryRow("pending", "pending")
        /\ r2.from = r1.to /\ r3.from = r2.to /\ r3.to = "paid"
        /\ <<r2.from, r2.to>> \in Lifecycle!LegalTransitions
        /\ <<r3.from, r3.to>> \in Lifecycle!LegalTransitions
    BY <1>1 DEF HistoryRow, Lifecycle!HistoryRow, Lifecycle!HistoryRows,
                Lifecycle!BookingStatus, Lifecycle!LegalTransitions
  <1>3. /\ status = [b \in Bookings |-> "paid"]
        /\ history = [b \in Bookings |-> <<r1, r2, r3>>]
    BY <1>1 DEF Init
  <1>4. Lifecycle!TypeOK
    <2>1. <<r1, r2, r3>> \in Seq(Lifecycle!HistoryRows)
      <3> HIDE DEF Lifecycle!HistoryRows
      <3> QED
        BY <1>2
    <2>2. "paid" \in Lifecycle!BookingStatus
      BY DEF Lifecycle!BookingStatus
    <2> QED
      BY <1>3, <2>1, <2>2 DEF Lifecycle!TypeOK
  <1>5. ASSUME NEW b \in Bookings
        PROVE  Lifecycle!HistoryTellsStatus(b)
    <2>1. /\ status[b] = "paid" /\ Len(history[b]) = 3
          /\ history[b][1] = r1 /\ history[b][2] = r2 /\ history[b][3] = r3
      BY <1>3
    <2>2. status[b] # Lifecycle!Absent
      BY <2>1 DEF Lifecycle!Absent
    <2>3. ASSUME NEW i \in 2 .. Len(history[b])
          PROVE  /\ history[b][i].from = history[b][i - 1].to
                 /\ <<history[b][i].from, history[b][i].to>> \in Lifecycle!LegalTransitions
      <3>1. i \in {2, 3}
        BY <2>1
      <3> QED
        BY <1>2, <2>1, <3>1
    <2>4. Len(history[b]) > 0 /\ history[b][Len(history[b])].to = status[b]
      BY <1>2, <2>1
    <2> QED
      BY <1>2, <2>1, <2>2, <2>3, <2>4, Zenon DEF Lifecycle!HistoryTellsStatus
  <1> QED
    BY <1>4, <1>5 DEF Lifecycle!HistoryIsComplete

\* T5 to T8 implement the booking state machine: whatever the executors, the admin and
\* the sweep do, a paid booking moves along LEGAL_TRANSITIONS with its history rows.
THEOREM RefundsImplementLifecycle == Spec => ImplementsLifecycle
  <1> QED
    BY Inductive, InitIsResumption, StepIsLifecycleStep, PTL
       DEF Spec, ImplementsLifecycle, Lifecycle!Resumed

-----------------------------------------------------------------------------
(* The money of a payment, and what pays it out. *)

Executes == {"loading", "calling", "recording", "committing"}

\* A run that may still ask the gateway to pay refund r out.
Calls(run, r) == run.refund = r /\ run.pc \in {"loading", "calling"}

Ahead(r) == {x \in Executors : Calls(executor[x], r)}

\* The queue has refund r to hand out, or the sweep may give it to the queue.
Startable(r) ==
    \/ job[r] = "waiting"
    \/ /\ job[r] = "none"
       /\ refund[r] = "pending"
       /\ \A a \in Admins : ~ (executor[a].refund = r /\ executor[a].pc \in Executes)

Explained(r) ==
    /\ IsFiniteSet(Ahead(r))
    /\ moved[r] + Cardinality(Ahead(r)) + One(Startable(r)) <= 1 + faults + retries

\* A row that does not exist was not paid out and has no job, and one past the
\* sweep's five minutes is in no admin's hands.
RowBegins(r) ==
    /\ refund[r] = "none" => moved[r] = 0 /\ job[r] = "none" /\ old[r] = FALSE
    /\ refund[r] # "none" => amount[r] >= 1
    /\ old[r] => \A a \in Admins : executor[a].refund # r

RunBegins(run) ==
    /\ run.pc = "inserting" => run.amount >= 1
    /\ run.pc \in Executes => refund[run.refund] # "none"
    /\ run.holdsJob => run.pc \in Executes

Begun ==
    /\ \A r \in RefundIds : RowBegins(r)
    /\ \A x \in Executors : RunBegins(executor[x])

\* A run that finds the payment covered finds it covered by its row and by the
\* succeeded ones.
Covering(run) == run.pc = "committing" /\ run.covered

Money ==
    /\ \A b \in Bookings : PaidOut(b) <= captures[b] * Total
    /\ \A x \in Executors : Covering(executor[x]) => Covers(executor[x].refund)
    /\ RollupIsSupported

PayoutsExplained == \A r \in RefundIds : Explained(r)

MoneyInv == RefundsInv /\ Begun /\ Money /\ PayoutsExplained

MoneyKept == Begun' /\ Money' /\ PayoutsExplained'

-----------------------------------------------------------------------------
(* Sums over the rows of a payment. *)

LEMMA RowsFinite ==
  ASSUME NEW b \in Bookings, NEW S \in SUBSET Rows(b)
  PROVE  IsFiniteSet(S)
  <1>1. IsFiniteSet(Rows(b))
    BY RefundsAssumption DEF Rows
  <1> QED
    BY <1>1, FS_Subset

LEMMA BookingOfRow ==
  ASSUME NEW r \in RefundIds
  PROVE  BookingOf[r] \in Bookings /\ r \in Rows(BookingOf[r])
  BY RefundsAssumption DEF Rows

\* Steps that pay nothing out and record nothing.
LEMMA MoneyStays ==
  ASSUME RefundsInv, Begun, Money, TypeOK', moved' = moved, payment' = payment,
         captures' = captures,
         \A b \in Bookings : status'[b] = "refunded" => status[b] = "refunded",
         \A r \in RefundIds : /\ refund'[r] = "succeeded" <=> refund[r] = "succeeded"
                              /\ refund[r] # "none" => amount'[r] = amount[r],
         \A x \in Executors : Covering(executor'[x]) =>
             /\ executor'[x].refund \in RefundIds
             /\ refund[executor'[x].refund] # "none"
             /\ Covers(executor'[x].refund)
  PROVE  Money'
  <1>1. /\ \A r \in RefundIds : /\ amount[r] \in Nat /\ amount'[r] \in Nat /\ moved[r] \in Nat
                                /\ refund[r] = "none" => moved[r] = 0
    <2>1. TypeOK /\ amount' \in [RefundIds -> 0 .. Total] /\ amount \in [RefundIds -> 0 .. Total]
      BY DEF RefundsInv, TypeOK
    <2> QED
      BY <2>1, RefundsAssumption DEF TypeOK, Begun, RowBegins
  <1>2. ASSUME NEW b \in Bookings, NEW S \in SUBSET Rows(b), \A r \in S : refund[r] # "none"
        PROVE  SumFunctionOnSet(amount', S) = SumFunctionOnSet(amount, S)
    <2>1. IsFiniteSet(S) /\ \A r \in S : amount[r] \in Nat /\ amount'[r] = amount[r]
      BY <1>1, <1>2, RowsFinite DEF Rows
    <2> QED
      BY <2>1, SumSame
  <1>3. ASSUME NEW b \in Bookings PROVE SucceededRows(b)' = SucceededRows(b)
    BY DEF SucceededRows, Rows
  <1>4. ASSUME NEW b \in Bookings PROVE AmountOf(SucceededRows(b))' = AmountOf(SucceededRows(b))
    <2>1. SucceededRows(b) \in SUBSET Rows(b) /\ \A r \in SucceededRows(b) : refund[r] # "none"
      BY DEF SucceededRows
    <2> QED
      BY <1>2, <1>3, <2>1 DEF AmountOf
  <1>5. ASSUME NEW b \in Bookings PROVE PaidOut(b)' = PaidOut(b)
    <2> DEFINE f == [r \in RefundIds |-> moved[r] * amount[r]]
               g == [r \in RefundIds |-> moved[r] * amount'[r]]
    <2>1. ASSUME NEW r \in Rows(b) PROVE f[r] \in Nat /\ g[r] = f[r]
      <3>1. r \in RefundIds
        BY DEF Rows
      <3>2. CASE refund[r] = "none"
        <4>1. moved[r] = 0 /\ f[r] = moved[r] * amount[r] /\ g[r] = moved[r] * amount'[r]
          BY <1>1, <3>1, <3>2
        <4> QED
          BY <1>1, <3>1, <4>1
      <3>3. CASE refund[r] # "none"
        BY <1>1, <3>1, <3>3
      <3> QED
        BY <3>2, <3>3
    <2>2. IsFiniteSet(Rows(b))
      BY RowsFinite
    <2> HIDE DEF f, g
    <2>3. SumFunctionOnSet(g, Rows(b)) = SumFunctionOnSet(f, Rows(b))
      BY <2>1, <2>2, SumSame
    <2> QED
      BY <2>3 DEF PaidOut, f, g, Rows
  <1>6. ASSUME NEW x \in Executors, Covering(executor'[x]) PROVE Covers(executor[x].refund)'
    <2>1. PICK r : r = executor'[x].refund
      OBVIOUS
    <2>2. r \in RefundIds /\ refund[r] # "none" /\ Covers(r)
      BY <1>6, <2>1
    <2> DEFINE b == BookingOf[r]
               S == SucceededRows(b) \union {r}
    <2>3. b \in Bookings /\ S \in SUBSET Rows(b) /\ \A q \in S : refund[q] # "none"
      BY <2>2, BookingOfRow DEF SucceededRows
    <2>4. SumFunctionOnSet(amount', S) = SumFunctionOnSet(amount, S)
      BY <1>2, <2>3
    <2>5. SucceededRows(b)' = SucceededRows(b)
      BY <1>3, <2>3
    <2>6. SumFunctionOnSet(amount, S) >= Total
      BY <2>2 DEF Covers, AmountOf
    <2> QED
      BY <2>1, <2>4, <2>5, <2>6 DEF Covers, AmountOf
  <1>7. \A b \in Bookings : PaidOut(b)' <= captures'[b] * Total
    BY <1>5 DEF Money
  <1>8. RollupIsSupported'
    BY <1>3, <1>4 DEF Money, RollupIsSupported
  <1> QED
    BY <1>6, <1>7, <1>8 DEF Money

\* The gateway pays refund r out.
LEMMA MoneyPaid ==
  ASSUME RefundsInv, Money, NEW r \in RefundIds,
         moved' = [moved EXCEPT ![r] = @ + 1],
         PaidOut(BookingOf[r]) + amount[r] <= captures[BookingOf[r]] * Total,
         UNCHANGED <<rowVars, tableVars, captures>>,
         \A x \in Executors : Covering(executor'[x]) => executor'[x] = executor[x]
  PROVE  Money'
  <1> DEFINE f == [q \in RefundIds |-> moved[q] * amount[q]]
             g == [q \in RefundIds |-> moved'[q] * amount[q]]
  <1>1. /\ UNCHANGED <<status, payment, refund, amount>>
        /\ \A q \in RefundIds : amount[q] \in Nat /\ moved[q] \in Nat
        /\ moved'[r] = moved[r] + 1 /\ \A q \in RefundIds : q # r => moved'[q] = moved[q]
    <2>1. TypeOK /\ amount \in [RefundIds -> 0 .. Total] /\ moved \in [RefundIds -> Nat]
      BY DEF RefundsInv, TypeOK
    <2> QED
      BY <2>1, RefundsAssumption DEF rowVars, tableVars
  <1>2. /\ \A q \in RefundIds : f[q] \in Nat /\ (q # r => g[q] = f[q])
        /\ g[r] = f[r] + amount[r]
    <2>1. \A q \in RefundIds : moved[q] * amount[q] \in Nat
      BY <1>1
    <2>2. (moved[r] + 1) * amount[r] = moved[r] * amount[r] + amount[r]
      BY <1>1
    <2> QED
      BY <1>1, <2>1, <2>2
  <1> HIDE DEF f, g
  <1>3. \A q \in RefundIds : g[q] \in Nat
    BY <1>1, <1>2
  <1>4. ASSUME NEW b \in Bookings
        PROVE  /\ PaidOut(b) = SumFunctionOnSet(f, Rows(b))
               /\ PaidOut(b)' = SumFunctionOnSet(g, Rows(b))
    BY <1>1 DEF PaidOut, f, g, Rows
  <1>5. ASSUME NEW b \in Bookings PROVE PaidOut(b)' <= captures'[b] * Total
    <2>1. /\ PaidOut(b) <= captures[b] * Total /\ captures' = captures
          /\ IsFiniteSet(Rows(b)) /\ \A q \in Rows(b) : q \in RefundIds
      BY RowsFinite DEF Money, Rows
    <2> DEFINE most == captures[b] * Total
    <2> HIDE DEF most
    <2>0. PaidOut(b) <= most /\ most \in Nat /\ captures'[b] * Total = most
      <3>1. captures[b] \in Nat
        BY RefundsAssumption DEF RefundsInv, TypeOK
      <3> QED
        BY <2>1, <3>1, RefundsAssumption DEF most
    <2>2. CASE b # BookingOf[r]
      <3>1. \A q \in Rows(b) : f[q] \in Nat /\ g[q] = f[q]
        BY <1>2, <2>2 DEF Rows
      <3> QED
        BY <1>4, <2>0, <2>1, <3>1, SumSame
    <2>3. CASE b = BookingOf[r]
      <3> DEFINE S == Rows(b) \ {r}
      <3>1. r \in Rows(b) /\ S \in SUBSET Rows(b)
        BY <2>3 DEF Rows
      <3>2. IsFiniteSet(S)
        BY <2>1, FS_Subset
      <3>3. SumFunctionOnSet(f, Rows(b)) = f[r] + SumFunctionOnSet(f, S)
        BY <1>2, <2>1, <3>1, SumRemove
      <3>4. SumFunctionOnSet(g, Rows(b)) = g[r] + SumFunctionOnSet(g, S)
        BY <1>3, <2>1, <3>1, SumRemove
      <3>5. \A q \in S : f[q] \in Nat /\ g[q] = f[q]
        BY <1>2, <2>1
      <3>6. SumFunctionOnSet(g, S) = SumFunctionOnSet(f, S) /\ SumFunctionOnSet(f, S) \in Nat
        BY <3>2, <3>5, SumSame, SumType
      <3>7. PaidOut(b) + amount[r] <= most
        BY <2>3 DEF most
      <3> QED
        BY <1>1, <1>2, <1>3, <1>4, <2>0, <3>3, <3>4, <3>6, <3>7
    <2> QED
      BY <2>2, <2>3
  <1>6. /\ RollupIsSupported'
        /\ \A x \in Executors : Covering(executor[x])' => Covers(executor[x].refund)'
    <2>1. \A b \in Bookings : SucceededRows(b)' = SucceededRows(b)
      BY <1>1 DEF SucceededRows, Rows
    <2>2. \A S : AmountOf(S)' = AmountOf(S)
      BY <1>1 DEF AmountOf
    <2>3. RollupIsSupported'
      BY <1>1, <2>1 DEF Money, RollupIsSupported, AmountOf
    <2>4. ASSUME NEW x \in Executors, Covering(executor[x])' PROVE Covers(executor[x].refund)'
      <3>1. executor'[x] = executor[x] /\ Covers(executor[x].refund)
        BY <2>4 DEF Money, Covering
      <3> QED
        BY <1>1, <3>1 DEF Covers, AmountOf, SucceededRows, Rows
    <2> QED
      BY <2>3, <2>4
  <1> QED
    BY <1>5, <1>6 DEF Money

\* Where a payment captured once is covered already, the payouts leave nothing for
\* another run to record.
LEMMA NothingLeft ==
  ASSUME RefundsInv, Begun, Money, NEW r \in RefundIds, refund[r] = "pending", moved[r] >= 1,
         captures[BookingOf[r]] = 1
  PROVE  ~ (AmountOf(SucceededRows(BookingOf[r])) >= Total)
  <1> DEFINE b == BookingOf[r]
             f == [q \in RefundIds |-> moved[q] * amount[q]]
             S == SucceededRows(b)
  <1>1. SUFFICES ASSUME AmountOf(S) >= Total PROVE FALSE
    OBVIOUS
  <1>2. /\ \A q \in RefundIds : amount[q] \in Nat /\ moved[q] \in Nat
        /\ \A q \in RefundIds : refund[q] # "none" => amount[q] >= 1
        /\ \A q \in RefundIds : refund[q] = "succeeded" => moved[q] >= 1
    <2>1. TypeOK /\ amount \in [RefundIds -> 0 .. Total] /\ moved \in [RefundIds -> Nat]
      BY DEF RefundsInv, TypeOK
    <2> QED
      BY <2>1, RefundsAssumption DEF RefundsInv, RecordedOnce, Begun, RowBegins
  <1>3. ASSUME NEW q \in RefundIds
        PROVE  f[q] \in Nat /\ (moved[q] >= 1 => amount[q] <= f[q])
    <2>1. ASSUME NEW m \in Nat, NEW a \in Nat, m >= 1 PROVE a <= m * a
      <3>1. PICK k \in Nat : m = k + 1
        <4>1. m - 1 \in Nat /\ m = (m - 1) + 1
          BY <2>1
        <4> QED
          BY <4>1
      <3>2. k * a \in Nat
        OBVIOUS
      <3>3. (k + 1) * a = k * a + a
        OBVIOUS
      <3> QED
        BY <3>1, <3>2, <3>3
    <2>2. moved[q] * amount[q] \in Nat
      BY <1>2
    <2> QED
      BY <1>2, <2>1, <2>2
  <1> HIDE DEF f
  <1>4. b \in Bookings /\ r \in Rows(b) /\ S \in SUBSET Rows(b) /\ r \notin S
    BY BookingOfRow DEF SucceededRows
  <1>5. IsFiniteSet(Rows(b)) /\ IsFiniteSet(S) /\ IsFiniteSet(S \union {r})
        /\ (S \union {r}) \in SUBSET Rows(b)
    BY <1>4, RowsFinite
  <1>6. \A q \in S \union {r} : q \in RefundIds /\ moved[q] >= 1
    BY <1>2 DEF SucceededRows, Rows
  <1>7. SumFunctionOnSet(amount, S \union {r}) = SumFunctionOnSet(amount, S) + amount[r]
    BY <1>2, <1>4, <1>5, <1>6, SumAdd
  <1>8. SumFunctionOnSet(amount, S \union {r}) <= SumFunctionOnSet(f, S \union {r})
    BY <1>2, <1>3, <1>5, <1>6, SumGrows
  <1>9. SumFunctionOnSet(f, S \union {r}) <= SumFunctionOnSet(f, Rows(b))
    BY <1>3, <1>5, SumGrows DEF Rows
  <1>10. SumFunctionOnSet(f, Rows(b)) <= Total
    <2>1. 1 * Total = Total
      BY RefundsAssumption
    <2> QED
      BY <1>4, <2>1 DEF Money, PaidOut, f
  <1>11. /\ SumFunctionOnSet(f, S \union {r}) \in Nat /\ SumFunctionOnSet(f, Rows(b)) \in Nat
         /\ SumFunctionOnSet(amount, S) \in Nat /\ SumFunctionOnSet(amount, S) >= Total
    BY <1>1, <1>2, <1>3, <1>5, <1>6, SumType DEF AmountOf, Rows
  <1>12. amount[r] >= 1 /\ amount[r] \in Nat /\ Total \in Nat
    BY <1>2, RefundsAssumption
  <1> QED
    BY <1>7, <1>8, <1>9, <1>10, <1>11, <1>12

\* The recording transaction of x commits refund r.
LEMMA MoneyRecorded ==
  ASSUME RefundsInv, Begun, Money, TypeOK', NEW x \in Executors, CommitRecord(x),
         NEW r, r = executor[x].refund
  PROVE  Money'
  <1> DEFINE b == BookingOf[r]
             S == SucceededRows(b)
  <1>0. TypeOK /\ executor \in [Executors -> Runs] /\ RunTells(executor[x]) /\ RunsTell
    BY TypesOfRefunds DEF RefundsInv, RunsTell
  <1>1. /\ r \in RefundIds /\ refund[r] = "pending" /\ moved[r] >= 1
        /\ executor[x].pc = "committing"
    BY <1>0 DEF CommitRecord, RunTells
  <1>2. b \in Bookings /\ r \in Rows(b) /\ S \in SUBSET Rows(b) /\ r \notin S
    BY <1>1, BookingOfRow DEF SucceededRows
  <1>3. captures[b] = 1 => ~ (AmountOf(S) >= Total)
    BY <1>1, NothingLeft
  <1>4. captures[b] = 1 => payment[b] # "refunded" /\ status[b] # "refunded"
    BY <1>2, <1>3 DEF Money, RollupIsSupported
  <1>5. /\ refund' = [refund EXCEPT ![r] = "succeeded"]
        /\ payment' = [payment EXCEPT ![b] = IF executor[x].covered
                                            THEN "refunded"
                                            ELSE "partially_refunded"]
        /\ executor' = [executor EXCEPT ![x] = Idle]
        /\ UNCHANGED <<amount, moved, captures>>
    BY DEF CommitRecord, Finish, creditVars
  <1>6. /\ refund'[r] = "succeeded" /\ \A q \in RefundIds : q # r => refund'[q] = refund[q]
        /\ payment'[b] = IF executor[x].covered THEN "refunded" ELSE "partially_refunded"
        /\ \A c \in Bookings : c # b => payment'[c] = payment[c]
    <2>1. refund \in [RefundIds -> RefundStates] /\ payment = [c \in Bookings |-> payment[c]]
      BY <1>0 DEF TypeOK, RefundStates
    <2> QED
      BY <1>1, <1>2, <1>5, <2>1
  <1>7. /\ captures[b] = 1 /\ status'[b] = "refunded" => executor[x].covered
        /\ status'[b] = "refunded" => executor[x].covered \/ status[b] = "refunded"
        /\ \A c \in Bookings : c # b => status'[c] = status[c]
    <2>1. status = [c \in Bookings |-> status[c]]
      BY <1>0 DEF TypeOK
    <2>2. CASE executor[x].covered /\ executor[x].closable
      <3>1. TransitionTo(b, "refunded")
        BY <2>2 DEF CommitRecord
      <3>2. \A c \in Bookings : c # b => status'[c] = status[c]
        BY <2>1, <3>1 DEF TransitionTo, rowVars
      <3> QED
        BY <2>2, <3>2
    <2>3. CASE ~ (executor[x].covered /\ executor[x].closable)
      BY <1>4, <2>3 DEF CommitRecord, rowVars
    <2> QED
      BY <2>2, <2>3
  <1>8. /\ SucceededRows(b)' = S \union {r}
        /\ \A c \in Bookings : c # b => SucceededRows(c)' = SucceededRows(c)
    BY <1>1, <1>2, <1>6 DEF SucceededRows, Rows
  <1>9. \A c \in Bookings : SucceededRows(c) \subseteq SucceededRows(c)'
    BY <1>8
  <1>10. \A q \in RefundIds : amount[q] \in Nat
    <2>1. amount \in [RefundIds -> 0 .. Total]
      BY <1>0 DEF TypeOK
    <2> QED
      BY <2>1, RefundsAssumption
  <1>11. ASSUME NEW y \in Executors, Covering(executor'[y]) PROVE Covers(executor[y].refund)'
    <2>1. y # x /\ executor'[y] = executor[y]
      BY <1>0, <1>5, <1>11, IdleIsRun DEF Covering
    <2>2. PICK q : q = executor[y].refund
      OBVIOUS
    <2>3. q \in RefundIds /\ Covers(q)
      BY <1>0, <1>11, <2>1, <2>2 DEF Money, RunsTell, RunTells, Covering
    <2> DEFINE c == BookingOf[q]
    <2>4. c \in Bookings /\ q \in Rows(c)
      BY <2>3, BookingOfRow
    <2>5. PICK A, B : A = SucceededRows(c) \union {q} /\ B = SucceededRows(c)' \union {q}
      OBVIOUS
    <2>6. A \in SUBSET Rows(c) /\ B \in SUBSET Rows(c) /\ A \in SUBSET B
      BY <1>9, <2>4, <2>5 DEF SucceededRows, Rows
    <2>7. /\ IsFiniteSet(A) /\ IsFiniteSet(B)
          /\ \A p \in B : amount[p] \in Nat
      BY <1>10, <2>4, <2>6, RowsFinite DEF Rows
    <2>8. /\ SumFunctionOnSet(amount, A) <= SumFunctionOnSet(amount, B)
          /\ SumFunctionOnSet(amount, A) \in Nat /\ SumFunctionOnSet(amount, B) \in Nat
      BY <2>6, <2>7, SumGrows, SumType
    <2>9. SumFunctionOnSet(amount, A) >= Total
      BY <2>3, <2>5 DEF Covers, AmountOf
    <2>10. SumFunctionOnSet(amount, B) >= Total
      BY <2>8, <2>9, RefundsAssumption
    <2> QED
      BY <1>5, <2>1, <2>2, <2>5, <2>10 DEF Covers, AmountOf
  <1>12. RollupIsSupported'
    <2>1. executor[x].covered => AmountOf(S \union {r}) >= Total
      BY <1>1 DEF Money, Covering, Covers
    <2>2. AmountOf(S) >= Total => AmountOf(S \union {r}) >= Total
      <3>1. /\ IsFiniteSet(S) /\ IsFiniteSet(S \union {r}) /\ S \in SUBSET (S \union {r})
            /\ \A q \in S \union {r} : amount[q] \in Nat
        <4>1. S \union {r} \in SUBSET Rows(b)
          BY <1>2
        <4> QED
          BY <1>2, <1>10, <4>1, RowsFinite DEF Rows
      <3>2. /\ SumFunctionOnSet(amount, S) <= SumFunctionOnSet(amount, S \union {r})
            /\ SumFunctionOnSet(amount, S) \in Nat /\ SumFunctionOnSet(amount, S \union {r}) \in Nat
        BY <3>1, SumGrows, SumType
      <3> QED
        BY <3>2, RefundsAssumption DEF AmountOf
    <2>3. /\ executor[x].covered => AmountOf(SucceededRows(b))' >= Total
          /\ status[b] = "refunded" => AmountOf(SucceededRows(b))' >= Total
      BY <1>2, <1>5, <1>8, <2>1, <2>2 DEF AmountOf, Money, RollupIsSupported
    <2>4. ASSUME NEW c \in Bookings
          PROVE  /\ "refunded" \in {payment'[c], status'[c]} => AmountOf(SucceededRows(c))' >= Total
                 /\ SucceededRows(c)' = {} => payment'[c] = "succeeded"
                 /\ captures'[c] = 1 =>
                       /\ status'[c] = "refunded" => payment'[c] = "refunded"
                       /\ payment'[c] = "succeeded" => SucceededRows(c)' = {}
      <3>1. CASE c = b
        BY <1>5, <1>6, <1>7, <1>8, <2>3, <3>1
      <3>2. CASE c # b
        <4>1. AmountOf(SucceededRows(c))' = AmountOf(SucceededRows(c))
          BY <1>5, <1>8, <3>2 DEF AmountOf
        <4> QED
          BY <1>5, <1>6, <1>7, <1>8, <3>2, <4>1 DEF Money, RollupIsSupported
      <3> QED
        BY <3>1, <3>2
    <2> QED
      BY <2>4 DEF RollupIsSupported
  <1>13. ASSUME NEW c \in Bookings PROVE PaidOut(c)' <= captures'[c] * Total
    BY <1>5 DEF Money, PaidOut, Rows
  <1> QED
    BY <1>11, <1>12, <1>13 DEF Money

\* ... and every other step leaves the runs that find a payment covered alone.
LEMMA MoneyRests ==
  ASSUME RefundsInv, Begun, Money, TypeOK', moved' = moved, payment' = payment,
         captures' = captures,
         \A b \in Bookings : status'[b] = "refunded" => status[b] = "refunded",
         \A r \in RefundIds : /\ refund'[r] = "succeeded" <=> refund[r] = "succeeded"
                              /\ refund[r] # "none" => amount'[r] = amount[r],
         \A x \in Executors : Covering(executor'[x]) =>
             Covering(executor[x]) /\ executor'[x].refund = executor[x].refund
  PROVE  Money'
  <1>1. ASSUME NEW x \in Executors, Covering(executor'[x])
        PROVE  /\ executor'[x].refund \in RefundIds
               /\ refund[executor'[x].refund] # "none"
               /\ Covers(executor'[x].refund)
    <2>1. Covering(executor[x]) /\ executor'[x].refund = executor[x].refund /\ RunTells(executor[x])
      BY <1>1 DEF RefundsInv, RunsTell
    <2> QED
      BY <2>1 DEF Money, Covering, RunTells
  <1> QED
    BY <1>1, MoneyStays

-----------------------------------------------------------------------------
(* Calls ahead of a refund. *)

LEMMA AheadAfter ==
  ASSUME TypeOK, NEW x \in Executors, NEW run, executor' = [executor EXCEPT ![x] = run],
         NEW r, IsFiniteSet(Ahead(r))
  PROVE  /\ IsFiniteSet(Ahead(r)')
         /\ Cardinality(Ahead(r)') + One(Calls(executor[x], r)) = Cardinality(Ahead(r)) + One(Calls(run, r))
         /\ Cardinality(Ahead(r)') \in Nat /\ Cardinality(Ahead(r)) \in Nat
  <1>1. executor'[x] = run /\ \A y \in Executors : y # x => executor'[y] = executor[y]
    BY TypesOfRefunds
  <1>2. x \in Ahead(r) <=> Calls(executor[x], r)
    BY DEF Ahead
  <1>3. Cardinality(Ahead(r)) \in Nat
    BY FS_CardinalityType
  <1>4. CASE Calls(run, r)
    <2>1. Ahead(r)' = Ahead(r) \union {x}
      BY <1>1, <1>4 DEF Ahead
    <2>2. /\ IsFiniteSet(Ahead(r) \union {x})
          /\ Cardinality(Ahead(r) \union {x}) = IF x \in Ahead(r) THEN Cardinality(Ahead(r)) ELSE Cardinality(Ahead(r)) + 1
      BY FS_AddElement
    <2> QED
      BY <1>2, <1>3, <1>4, <2>1, <2>2 DEF One
  <1>5. CASE ~ Calls(run, r)
    <2>1. Ahead(r)' = Ahead(r) \ {x}
      BY <1>1, <1>5 DEF Ahead
    <2>2. /\ IsFiniteSet(Ahead(r) \ {x})
          /\ Cardinality(Ahead(r) \ {x}) = IF x \in Ahead(r) THEN Cardinality(Ahead(r)) - 1 ELSE Cardinality(Ahead(r))
      BY FS_RemoveElement
    <2>3. Cardinality(Ahead(r) \ {x}) \in Nat
      BY <2>2, FS_CardinalityType
    <2> QED
      BY <1>2, <1>3, <1>5, <2>1, <2>2, <2>3 DEF One
  <1> QED
    BY <1>4, <1>5

LEMMA CountsTyped ==
  ASSUME TypeOK, TypeOK'
  PROVE  /\ \A r \in RefundIds : moved[r] \in Nat /\ moved'[r] \in Nat
         /\ {faults, faults', retries, retries'} \subseteq Nat
  <1>1. moved \in [RefundIds -> Nat] /\ retries \in 0 .. MaxRetries /\ faults \in Nat
    BY DEF TypeOK
  <1>2. moved' \in [RefundIds -> Nat] /\ retries' \in 0 .. MaxRetries /\ faults' \in Nat
    BY DEF TypeOK
  <1> QED
    BY <1>1, <1>2, RefundsAssumption

LEMMA ExplainedAfter ==
  ASSUME TypeOK, TypeOK', NEW x \in Executors, NEW run, executor' = [executor EXCEPT ![x] = run],
         NEW r \in RefundIds, Explained(r),
         moved'[r] + One(Calls(run, r)) + One(Startable(r))' + faults + retries
            <= moved[r] + One(Calls(executor[x], r)) + One(Startable(r)) + faults' + retries'
  PROVE  Explained(r)'
  <1>1. /\ moved[r] \in Nat /\ moved'[r] \in Nat /\ faults \in Nat /\ retries \in Nat
        /\ faults' \in Nat /\ retries' \in Nat
    BY CountsTyped
  <1>2. /\ IsFiniteSet(Ahead(r)')
        /\ Cardinality(Ahead(r)') + One(Calls(executor[x], r)) = Cardinality(Ahead(r)) + One(Calls(run, r))
        /\ Cardinality(Ahead(r)') \in Nat /\ Cardinality(Ahead(r)) \in Nat
    BY AheadAfter DEF Explained
  <1>3. /\ One(Calls(executor[x], r)) \in {0, 1} /\ One(Calls(run, r)) \in {0, 1}
        /\ One(Startable(r)) \in {0, 1} /\ One(Startable(r))' \in {0, 1}
    BY DEF One
  <1>4. moved[r] + Cardinality(Ahead(r)) + One(Startable(r)) <= 1 + faults + retries
    BY DEF Explained
  <1>5. moved'[r] + Cardinality(Ahead(r)') + One(Startable(r))' <= 1 + faults' + retries'
    <2> HIDE DEF One
    <2> QED
      BY <1>1, <1>2, <1>3, <1>4
  <1> QED
    BY <1>2, <1>5 DEF Explained

\* Refunds a step has nothing to do with.
LEMMA RowElsewhere ==
  ASSUME TypeOK, TypeOK', NEW q \in RefundIds, RowBegins(q), Explained(q),
         moved'[q] = moved[q], job'[q] = job[q], refund'[q] = refund[q], amount'[q] = amount[q],
         old'[q] = old[q], faults' >= faults, retries' >= retries,
         \A y \in Executors : \/ executor'[y] = executor[y]
                              \/ executor[y].refund # q /\ executor'[y].refund # q
  PROVE  RowBegins(q)' /\ Explained(q)'
  <1>1. Ahead(q)' = Ahead(q)
    BY DEF Ahead, Calls
  <1>2. Startable(q)' <=> Startable(q)
    BY DEF Startable, Executors
  <1>3. One(Startable(q))' = One(Startable(q)) /\ One(Startable(q)) \in {0, 1}
    BY <1>2 DEF One
  <1>4. Cardinality(Ahead(q)) \in Nat
    BY FS_CardinalityType DEF Explained
  <1>5. /\ moved[q] \in Nat /\ faults \in Nat /\ retries \in Nat
        /\ faults' \in Nat /\ retries' \in Nat
    BY CountsTyped
  <1>6. moved[q] + Cardinality(Ahead(q)) + One(Startable(q)) <= 1 + faults + retries
    BY DEF Explained
  <1>7. moved[q] + Cardinality(Ahead(q)) + One(Startable(q)) <= 1 + faults' + retries'
    BY <1>3, <1>4, <1>5, <1>6
  <1>8. Explained(q)'
    BY <1>1, <1>3, <1>7 DEF Explained
  <1>9. RowBegins(q)'
    BY DEF RowBegins, Executors
  <1> QED
    BY <1>8, <1>9

\* A step that is about refund r alone.
LEMMA OneRow ==
  ASSUME RefundsInv, Begun, PayoutsExplained, TypeOK', Kept, NEW r,
         faults' >= faults, retries' >= retries,
         \A q \in RefundIds : q # r =>
             /\ moved'[q] = moved[q] /\ job'[q] = job[q] /\ refund'[q] = refund[q]
             /\ amount'[q] = amount[q] /\ old'[q] = old[q],
         \A y \in Executors :
             \/ executor'[y] = executor[y]
             \/ /\ RunBegins(executor[y])'
                /\ \A q \in RefundIds : q # r => executor[y].refund # q /\ executor'[y].refund # q,
         r \in RefundIds => RowBegins(r)' /\ Explained(r)'
  PROVE  Begun' /\ PayoutsExplained'
  <1>0. TypeOK /\ TypeOK' /\ RunsTell
    BY DEF RefundsInv, Kept
  <1>1. ASSUME NEW q \in RefundIds PROVE RowBegins(q)' /\ Explained(q)'
    <2>1. CASE q = r
      BY <2>1
    <2>2. CASE q # r
      <3>1. /\ \A y \in Executors : \/ executor'[y] = executor[y]
                                    \/ executor[y].refund # q /\ executor'[y].refund # q
            /\ moved'[q] = moved[q] /\ job'[q] = job[q] /\ refund'[q] = refund[q]
            /\ amount'[q] = amount[q] /\ old'[q] = old[q]
            /\ RowBegins(q) /\ Explained(q)
        BY <2>2 DEF Begun, PayoutsExplained
      <3> QED
        BY <1>0, <3>1, RowElsewhere
    <2> QED
      BY <2>1, <2>2
  <1>2. ASSUME NEW y \in Executors PROVE RunBegins(executor[y])'
    <2>1. CASE executor'[y] = executor[y]
      <3>1. PICK run \in Runs : run = executor[y] /\ run = executor'[y] /\ RunBegins(run) /\ RunTells(run)
        BY <1>0, <2>1, TypesOfRefunds DEF Begun, RunsTell
      <3>2. run.pc \in Executes => refund'[run.refund] # "none"
        <4>1. run.pc \in Executes => run.refund \in RefundIds /\ refund[run.refund] # "none"
          BY <3>1 DEF RunBegins, RunTells, Executes
        <4> QED
          BY <4>1 DEF Kept, RowForward
      <3> QED
        BY <3>1, <3>2 DEF RunBegins
    <2> QED
      BY <2>1
  <1> QED
    BY <1>1, <1>2 DEF Begun, PayoutsExplained

-----------------------------------------------------------------------------
(* Every step. *)

LEMMA MoneyOfBookings ==
  ASSUME MoneyInv, TypeOK', captures' = captures, NEW b \in Bookings,
         ConfirmOrder(b) \/ FailOrder(b) \/ CancelBooking(b)
  PROVE  MoneyKept
  <1>0. RefundsInv /\ Begun /\ Money /\ PayoutsExplained /\ Kept /\ TypeOK /\ TypeOK'
    <2>1. RefundsInv
      BY DEF MoneyInv
    <2> QED
      BY <2>1, StepOfBookings DEF MoneyInv, Kept, RefundsInv
  <1>1. /\ \E to \in {"confirmed", "order_failed", "cancelled"} : TransitionTo(b, to)
        /\ UNCHANGED <<executor, moved, retries, faults>>
        /\ \/ UNCHANGED <<tableVars, queueVars>>
           \/ \E r \in FreeRows(b), n \in 1 .. Total : InsertPending(r, n) /\ EnqueueRefund(r)
    <2>1. CASE ConfirmOrder(b)
      BY <2>1 DEF ConfirmOrder
    <2>2. CASE FailOrder(b)
      <3>1. Total \in 1 .. Total
        BY RefundsAssumption
      <3> QED
        BY <2>2, <3>1 DEF FailOrder
    <2>3. CASE CancelBooking(b)
      BY <2>3 DEF CancelBooking
    <2> QED
      BY <2>1, <2>2, <2>3
  <1>2. \A c \in Bookings : status'[c] = "refunded" => status[c] = "refunded"
    <2>1. status = [c \in Bookings |-> status[c]]
      BY <1>0 DEF TypeOK
    <2> QED
      BY <1>1, <2>1 DEF TransitionTo, rowVars
  <1>3. faults' >= faults /\ retries' >= retries
    <2>1. {faults, retries} \subseteq Nat
      BY <1>0, CountsTyped
    <2> QED
      BY <1>1, <2>1
  <1>4. CASE UNCHANGED <<tableVars, queueVars>>
    <2>1. UNCHANGED <<payment, refund, amount, old, job, moved, executor>>
      BY <1>1, <1>4 DEF tableVars, queueVars
    <2>2. Begun' /\ PayoutsExplained'
      <3>1. NoRefund \notin RefundIds
        BY RefundsAssumption
      <3> QED
        BY <1>0, <1>3, <2>1, <3>1, OneRow
    <2>3. Money'
      BY <1>0, <1>2, <2>1, MoneyRests
    <2> QED
      BY <2>2, <2>3 DEF MoneyKept
  <1>5. ASSUME NEW r \in FreeRows(b), NEW n \in 1 .. Total, InsertPending(r, n), EnqueueRefund(r)
        PROVE  MoneyKept
    <2>1. /\ r \in RefundIds /\ \A x \in Executors : executor[x].refund # r
          /\ UNCHANGED <<executor, moved, retries, faults>>
      BY <1>1 DEF FreeRows, Rows
    <2>2. /\ refund[r] = "none" /\ refund'[r] = "pending" /\ amount'[r] = n
          /\ \A q \in RefundIds : q # r => refund'[q] = refund[q] /\ amount'[q] = amount[q]
          /\ UNCHANGED <<payment, old>>
      <3>1. refund \in [RefundIds -> RefundStates] /\ amount \in [RefundIds -> 0 .. Total]
        BY <1>0, TypesOfRefunds
      <3> QED
        BY <1>5, <2>1, <3>1 DEF InsertPending
    <2>3. \A q \in RefundIds : q # r => job'[q] = job[q]
      <3>1. job = [q \in RefundIds |-> job[q]]
        BY <1>0 DEF TypeOK
      <3> QED
        BY <1>5, <3>1 DEF EnqueueRefund, AddJob, queueVars
    <2>4. RowBegins(r)'
      <3>1. old'[r] = FALSE
        BY <1>0, <2>1, <2>2 DEF Begun, RowBegins
      <3>2. n >= 1
        BY RefundsAssumption
      <3> QED
        BY <2>2, <3>1, <3>2 DEF RowBegins
    <2>5. Explained(r)'
      <3>1. Ahead(r)' = {}
        BY <2>1 DEF Ahead, Calls
      <3>2. moved'[r] = 0
        BY <1>0, <2>1, <2>2 DEF Begun, RowBegins
      <3>3. One(Startable(r))' \in {0, 1}
        BY DEF One
      <3>4. faults' \in Nat /\ retries' \in Nat
        BY <1>0, CountsTyped
      <3>5. moved'[r] + 0 + One(Startable(r))' <= 1 + faults' + retries'
        BY <3>2, <3>3, <3>4
      <3> QED
        BY <3>1, <3>5, FS_EmptySet DEF Explained
    <2>6. Begun' /\ PayoutsExplained'
      BY <1>0, <1>3, <2>1, <2>2, <2>3, <2>4, <2>5, OneRow
    <2>7. Money'
      BY <1>0, <1>2, <2>1, <2>2, MoneyRests
    <2> QED
      BY <2>6, <2>7 DEF MoneyKept
  <1> QED
    BY <1>1, <1>4, <1>5

\* The queue, the sweep and an admin's retry.
LEMMA MoneyOfRows ==
  ASSUME MoneyInv, TypeOK', captures' = captures, NEW r \in RefundIds,
         RetryRefund(r) \/ GrowsOld(r) \/ Requeue(r)
  PROVE  MoneyKept
  <1>0. RefundsInv /\ Begun /\ Money /\ PayoutsExplained /\ Kept /\ TypeOK /\ TypeOK'
    <2>1. RefundsInv
      BY DEF MoneyInv
    <2> QED
      BY <2>1, StepOfRows DEF MoneyInv, Kept, RefundsInv
  <1>1. UNCHANGED <<rowVars, payment, amount, executor, moved, faults>> /\ (AddJob(r) \/ UNCHANGED queueVars)
    BY DEF RetryRefund, GrowsOld, Requeue, EnqueueRefund, tableVars
  <1>2. /\ refund \in [RefundIds -> RefundStates] /\ {faults, retries, retries'} \subseteq Nat
        /\ job = [q \in RefundIds |-> job[q]] /\ old = [q \in RefundIds |-> old[q]]
        /\ moved[r] \in Nat
    <2>1. refund \in [RefundIds -> RefundStates] /\ moved[r] \in Nat
      BY <1>0, TypesOfRefunds
    <2>2. {faults, retries, retries'} \subseteq Nat
      BY <1>0, CountsTyped
    <2>3. job = [q \in RefundIds |-> job[q]] /\ old = [q \in RefundIds |-> old[q]]
      BY <1>0 DEF TypeOK
    <2> QED
      BY <2>1, <2>2, <2>3
  <1>3. /\ \A q \in RefundIds : q # r => job'[q] = job[q]
        /\ job'[r] = job[r] \/ (job[r] = "none" /\ job'[r] = "waiting")
    BY <1>1, <1>2 DEF AddJob, queueVars
  <1>4. /\ refund[r] # "none" /\ refund'[r] # "none"
        /\ refund'[r] = "succeeded" <=> refund[r] = "succeeded"
        /\ \A q \in RefundIds : q # r => refund'[q] = refund[q] /\ old'[q] = old[q]
        /\ faults' = faults /\ faults' >= faults /\ retries' >= retries
    BY <1>1, <1>2 DEF RetryRefund, GrowsOld, Requeue, tableVars
  <1>5. RowBegins(r)'
    <2>1. old'[r] => \A a \in Admins : executor'[a].refund # r
      BY <1>0, <1>1, <1>2 DEF RetryRefund, GrowsOld, Requeue, tableVars, Begun, RowBegins
    <2> QED
      BY <1>0, <1>1, <1>4, <2>1 DEF Begun, RowBegins
  <1>6. Explained(r)'
    <2>1. Ahead(r)' = Ahead(r)
      BY <1>1 DEF Ahead
    <2>2. Explained(r)
      BY <1>0 DEF PayoutsExplained
    <2>3. One(Startable(r))' \in {0, 1} /\ One(Startable(r)) \in {0, 1} /\ Cardinality(Ahead(r)) \in Nat
      BY <2>2, FS_CardinalityType DEF One, Explained
    <2>4. One(Startable(r))' + retries <= One(Startable(r)) + retries'
      <3>1. CASE RetryRefund(r)
        <4>1. retries' = retries + 1
          BY <3>1 DEF RetryRefund
        <4> QED
          BY <1>2, <2>3, <4>1
      <3>2. CASE GrowsOld(r)
        <4>1. Startable(r)' => Startable(r)
          BY <3>2 DEF GrowsOld, Startable, queueVars
        <4> QED
          BY <1>2, <1>4, <4>1 DEF One
      <3>3. CASE Requeue(r)
        <4>1. Startable(r)' => Startable(r)
          <5>1. \A a \in Admins : executor[a].refund # r
            BY <1>0, <3>3 DEF Requeue, Begun, RowBegins
          <5>2. CASE job[r] = "none"
            BY <3>3, <5>1, <5>2 DEF Requeue, Startable
          <5>3. CASE job[r] # "none"
            BY <3>3, <5>3 DEF Requeue, AddJob, Startable, queueVars, tableVars
          <5> QED
            BY <5>2, <5>3
        <4> QED
          BY <1>2, <1>4, <4>1 DEF One
      <3> QED
        BY <3>1, <3>2, <3>3
    <2>5. moved[r] + Cardinality(Ahead(r)) + One(Startable(r)) <= 1 + faults + retries
      BY <2>2 DEF Explained
    <2>6. retries' \in Nat
      BY <1>0, CountsTyped
    <2>7. moved'[r] + Cardinality(Ahead(r)) + One(Startable(r))' <= 1 + faults' + retries'
      <3> HIDE DEF One
      <3> QED
        BY <1>1, <1>2, <1>4, <2>3, <2>4, <2>5, <2>6
    <2> QED
      BY <2>1, <2>2, <2>7 DEF Explained
  <1>7. Begun' /\ PayoutsExplained'
    BY <1>0, <1>1, <1>3, <1>4, <1>5, <1>6, OneRow
  <1>8. Money'
    <2>1. UNCHANGED <<status, payment, amount, executor, moved>>
      BY <1>1 DEF rowVars
    <2> QED
      BY <1>0, <1>4, <2>1, MoneyRests
  <1> QED
    BY <1>7, <1>8 DEF MoneyKept

\* A step of x that takes its run to another place of the same refund r.
LEMMA RunProceeds ==
  ASSUME MoneyInv, TypeOK', Kept, NEW x \in Executors, NEW run, executor' = [executor EXCEPT ![x] = run],
         NEW r \in RefundIds, executor[x].refund \in {r, NoRefund}, run.refund \in {r, NoRefund},
         \A q \in RefundIds : q # r =>
             /\ moved'[q] = moved[q] /\ job'[q] = job[q] /\ refund'[q] = refund[q]
             /\ amount'[q] = amount[q] /\ old'[q] = old[q],
         faults' >= faults, retries' >= retries,
         RunBegins(run)', RowBegins(r)',
         moved'[r] + One(Calls(run, r)) + One(Startable(r))' + faults + retries
            <= moved[r] + One(Calls(executor[x], r)) + One(Startable(r)) + faults' + retries'
  PROVE  Begun' /\ PayoutsExplained'
  <1>0. RefundsInv /\ Begun /\ PayoutsExplained /\ TypeOK /\ TypeOK'
    BY DEF MoneyInv, RefundsInv, Kept
  <1>1. executor'[x] = run /\ \A y \in Executors : y # x => executor'[y] = executor[y]
    BY <1>0, TypesOfRefunds
  <1>2. Explained(r)'
    <2>1. Explained(r)
      BY <1>0 DEF PayoutsExplained
    <2> QED
      BY <1>0, <2>1, ExplainedAfter
  <1>3. RunBegins(executor[x])'
    BY <1>1
  <1>4. ASSUME NEW y \in Executors
        PROVE  \/ executor'[y] = executor[y]
               \/ /\ RunBegins(executor[y])'
                  /\ \A q \in RefundIds : q # r => executor[y].refund # q /\ executor'[y].refund # q
    <2>1. NoRefund \notin RefundIds
      BY RefundsAssumption
    <2> QED
      BY <1>1, <1>3, <2>1
  <1> QED
    BY <1>0, <1>2, <1>4, OneRow

\* What a step that leaves refund r and its amount there needs for the row.
LEMMA RowGoesOn ==
  ASSUME NEW r \in RefundIds, RowBegins(r), refund[r] # "none", refund'[r] # "none",
         amount'[r] = amount[r], old'[r] = old[r],
         \A a \in Admins : executor'[a].refund = r => executor[a].refund = r
  PROVE  RowBegins(r)'
  BY DEF RowBegins

LEMMA StartableStays ==
  ASSUME TypeOK, NEW x \in Executors, NEW run, executor' = [executor EXCEPT ![x] = run], NEW r,
         job'[r] = job[r], refund'[r] = refund[r], run.refund = executor[x].refund,
         run.pc \in Executes <=> executor[x].pc \in Executes
  PROVE  One(Startable(r))' = One(Startable(r))
  <1>1. executor'[x] = run /\ \A y \in Executors : y # x => executor'[y] = executor[y]
    BY TypesOfRefunds
  <1>2. Startable(r)' <=> Startable(r)
    BY <1>1 DEF Startable, Executors
  <1> QED
    BY <1>2 DEF One

LEMMA MoneyOfAdmins ==
  ASSUME MoneyInv, TypeOK', captures' = captures, NEW a \in Admins,
         (\E b \in Bookings, n \in 1 .. Total : AdminChecks(a, b, n)) \/ AdminInserts(a)
  PROVE  MoneyKept
  <1>0. RefundsInv /\ Begun /\ Money /\ PayoutsExplained /\ Kept /\ TypeOK /\ TypeOK'
    <2>1. RefundsInv
      BY DEF MoneyInv
    <2> QED
      BY <2>1, StepOfAdmins DEF MoneyInv, Kept, RefundsInv
  <1>1. /\ a \in Executors /\ executor \in [Executors -> Runs] /\ RunTells(executor[a]) /\ RunBegins(executor[a])
        /\ refund \in [RefundIds -> RefundStates] /\ amount \in [RefundIds -> 0 .. Total]
        /\ {faults, retries} \subseteq Nat /\ NoRefund \notin RefundIds
    BY <1>0, TypesOfRefunds, CountsTyped, RefundsAssumption DEF RefundsInv, RunsTell, Executors, Begun
  <1>2. ASSUME NEW b \in Bookings, NEW n \in 1 .. Total, AdminChecks(a, b, n) PROVE MoneyKept
    <2>1. PICK r \in FreeRows(b) :
            executor' = [executor EXCEPT ![a] = [Idle EXCEPT !.pc = "inserting", !.refund = r, !.amount = n]]
      BY <1>2 DEF AdminChecks
    <2>2. PICK run : run = [Idle EXCEPT !.pc = "inserting", !.refund = r, !.amount = n]
      OBVIOUS
    <2>3. /\ run.pc = "inserting" /\ run.refund = r /\ run.amount = n /\ run.holdsJob = FALSE
          /\ executor' = [executor EXCEPT ![a] = run]
          /\ executor[a].pc = "idle" /\ executor[a].refund = NoRefund
          /\ UNCHANGED <<rowVars, tableVars, queueVars, moved, retries, faults>>
      <3>1. executor[a] = Idle /\ UNCHANGED <<rowVars, tableVars, queueVars, moved, retries, faults>>
        BY <1>2 DEF AdminChecks
      <3>2. run.pc = "inserting" /\ run.refund = r /\ run.amount = n /\ run.holdsJob = FALSE
        BY <2>2 DEF Idle
      <3>3. executor' = [executor EXCEPT ![a] = run]
        BY <2>1, <2>2
      <3>4. Idle.pc = "idle" /\ Idle.refund = NoRefund
        BY DEF Idle
      <3> QED
        BY <3>1, <3>2, <3>3, <3>4
    <2>4. UNCHANGED <<status, payment, refund, amount, old, job, moved, retries, faults>>
      BY <2>3 DEF rowVars, tableVars, queueVars
    <2>5. /\ r \in RefundIds /\ refund[r] = "none" /\ job[r] = "none" /\ moved[r] = 0 /\ old[r] = FALSE
      BY <1>0 DEF FreeRows, Rows, Begun, RowBegins
    <2>6. RunBegins(run)' /\ RowBegins(r)'
      <3>1. n >= 1
        BY RefundsAssumption
      <3> QED
        BY <2>3, <2>4, <2>5, <3>1 DEF RunBegins, RowBegins, Executes
    <2>7. /\ One(Startable(r))' = 0 /\ One(Startable(r)) = 0
          /\ One(Calls(run, r)) = 0 /\ One(Calls(executor[a], r)) = 0
      BY <2>3, <2>4, <2>5 DEF One, Startable, Calls
    <2>8. Begun' /\ PayoutsExplained'
      <3>1. moved'[r] + One(Calls(run, r)) + One(Startable(r))' + faults + retries
               <= moved[r] + One(Calls(executor[a], r)) + One(Startable(r)) + faults' + retries'
        <4> HIDE DEF One
        <4> QED
          BY <1>1, <2>4, <2>5, <2>7
      <3>2. faults' >= faults /\ retries' >= retries
        BY <1>1, <2>4
      <3> QED
        BY <1>0, <1>1, <2>3, <2>4, <2>5, <2>6, <3>1, <3>2, RunProceeds
    <2>9. Money'
      <3>1. \A x \in Executors : Covering(executor'[x]) =>
               Covering(executor[x]) /\ executor'[x].refund = executor[x].refund
        BY <1>1, <2>3 DEF Covering
      <3> QED
        BY <1>0, <2>4, <3>1, MoneyRests
    <2> QED
      BY <2>8, <2>9 DEF MoneyKept
  <1>3. CASE AdminInserts(a)
    <2>1. PICK r, n : r = executor[a].refund /\ n = executor[a].amount
      OBVIOUS
    <2>2. PICK run : run = [executor[a] EXCEPT !.pc = "loading"]
      OBVIOUS
    <2>3. /\ executor[a].pc = "inserting" /\ r \in RefundIds /\ n >= 1 /\ executor[a].holdsJob = FALSE
          /\ executor[a] \in Runs
      BY <1>1, <1>3, <2>1 DEF AdminInserts, RunTells, RunBegins, Executes, Runs
    <2>4. /\ run.pc = "loading" /\ run.refund = r /\ run.holdsJob = FALSE
          /\ executor' = [executor EXCEPT ![a] = run]
      BY <1>1, <1>3, <2>1, <2>2, <2>3 DEF AdminInserts, Runs
    <2>5. /\ UNCHANGED <<status, payment, old, job, moved, retries, faults>>
          /\ refund[r] = "none" /\ refund'[r] = "pending" /\ amount'[r] = n
          /\ \A q \in RefundIds : q # r => refund'[q] = refund[q] /\ amount'[q] = amount[q]
      BY <1>1, <1>3, <2>1, <2>3 DEF AdminInserts, InsertPending, rowVars, queueVars
    <2>6. job[r] = "none" /\ moved[r] = 0 /\ old[r] = FALSE
      BY <1>0, <2>3, <2>5 DEF Begun, RowBegins
    <2>7. RunBegins(run)' /\ RowBegins(r)'
      BY <2>3, <2>4, <2>5, <2>6 DEF RunBegins, RowBegins, Executes
    <2>8. Explained(r)'
      <3>1. Ahead(r) = {}
        <4>1. ASSUME NEW y \in Executors, Calls(executor[y], r) PROVE FALSE
          BY <1>0, <2>5, <4>1 DEF Calls, Begun, RunBegins, Executes
        <4> QED
          BY <4>1 DEF Ahead
      <3>2. IsFiniteSet(Ahead(r)) /\ Cardinality(Ahead(r)) = 0
        BY <3>1, FS_EmptySet
      <3>3. /\ IsFiniteSet(Ahead(r)')
            /\ Cardinality(Ahead(r)') + One(Calls(executor[a], r)) = Cardinality(Ahead(r)) + One(Calls(run, r))
            /\ Cardinality(Ahead(r)') \in Nat
        <4>1. /\ TypeOK /\ a \in Executors /\ executor' = [executor EXCEPT ![a] = run]
              /\ IsFiniteSet(Ahead(r))
          BY <1>0, <1>1, <2>4, <3>2
        <4> QED
          BY ONLY <4>1, AheadAfter
      <3>4. One(Calls(executor[a], r)) = 0 /\ One(Calls(run, r)) = 1
        BY <2>1, <2>3, <2>4 DEF One, Calls
      <3>5. One(Startable(r))' = 0
        <4>1. executor'[a] = run /\ a \in Admins
          BY <1>1, <2>4
        <4> QED
          BY <2>4, <2>5, <2>6, <4>1 DEF One, Startable, Executes
      <3>6. moved'[r] + Cardinality(Ahead(r)') + One(Startable(r))' <= 1 + faults' + retries'
        <4> HIDE DEF One
        <4> QED
          BY <1>1, <2>5, <2>6, <3>2, <3>3, <3>4, <3>5
      <3> QED
        BY <3>3, <3>6 DEF Explained
    <2>9. Begun' /\ PayoutsExplained'
      <3>1. executor'[a] = run /\ \A y \in Executors : y # a => executor'[y] = executor[y]
        BY <1>1, <2>4
      <3>2. RunBegins(executor[a])'
        BY <2>7, <3>1
      <3>3. faults' >= faults /\ retries' >= retries
        BY <1>1, <2>5
      <3>4. ASSUME NEW y \in Executors
            PROVE  \/ executor'[y] = executor[y]
                   \/ /\ RunBegins(executor[y])'
                      /\ \A q \in RefundIds : q # r => executor[y].refund # q /\ executor'[y].refund # q
        BY <2>1, <2>4, <3>1, <3>2
      <3>5. \A q \in RefundIds : q # r =>
               /\ moved'[q] = moved[q] /\ job'[q] = job[q] /\ refund'[q] = refund[q]
               /\ amount'[q] = amount[q] /\ old'[q] = old[q]
        BY <2>5
      <3> QED
        BY <1>0, <2>7, <2>8, <3>3, <3>4, <3>5, OneRow
    <2>10. Money'
      <3>1. \A x \in Executors : Covering(executor'[x]) =>
               Covering(executor[x]) /\ executor'[x].refund = executor[x].refund
        BY <1>1, <2>4 DEF Covering
      <3>2. \A q \in RefundIds : /\ refund'[q] = "succeeded" <=> refund[q] = "succeeded"
                                 /\ refund[q] # "none" => amount'[q] = amount[q]
        BY <2>5
      <3> QED
        BY <1>0, <2>5, <3>1, <3>2, MoneyRests
    <2> QED
      BY <2>9, <2>10 DEF MoneyKept
  <1> QED
    BY <1>2, <1>3

LEMMA MoneyOfQueue ==
  ASSUME MoneyInv, TypeOK', captures' = captures, NEW w \in Workers,
         Stalls(w) \/ \E r \in RefundIds : TakeJob(w, r)
  PROVE  MoneyKept
  <1>0. RefundsInv /\ Begun /\ Money /\ PayoutsExplained /\ Kept /\ TypeOK /\ TypeOK'
    <2>1. RefundsInv
      BY DEF MoneyInv
    <2> QED
      BY <2>1, StepOfQueue DEF MoneyInv, Kept, RefundsInv
  <1>1. /\ w \in Executors /\ executor \in [Executors -> Runs]
        /\ RunTells(executor[w]) /\ RunBegins(executor[w])
        /\ job = [q \in RefundIds |-> job[q]] /\ {faults, retries} \subseteq Nat
        /\ NoRefund \notin RefundIds /\ \A a \in Admins : a # w
    BY <1>0, TypesOfRefunds, CountsTyped, RefundsAssumption
       DEF RefundsInv, RunsTell, Executors, Begun, TypeOK
  <1>2. ASSUME NEW r \in RefundIds, TakeJob(w, r) PROVE MoneyKept
    <2>1. PICK run : run = [Idle EXCEPT !.pc = "loading", !.refund = r, !.holdsJob = TRUE]
      OBVIOUS
    <2>2. run.pc = "loading" /\ run.refund = r /\ Idle.pc = "idle" /\ Idle.refund = NoRefund
      BY <2>1 DEF Idle
    <2>3. /\ executor' = [executor EXCEPT ![w] = run] /\ executor[w] = Idle /\ job[r] = "waiting"
          /\ UNCHANGED <<rowVars, tableVars, tries, moved, retries, faults>>
          /\ job' = [job EXCEPT ![r] = "active"]
      BY <1>2, <2>1 DEF TakeJob
    <2>4. /\ UNCHANGED <<status, payment, refund, amount, old, moved, retries, faults>>
          /\ job'[r] = "active" /\ \A q \in RefundIds : q # r => job'[q] = job[q]
      BY <1>1, <2>3 DEF rowVars, tableVars
    <2>5. /\ executor'[w] = run /\ \A y \in Executors : y # w => executor'[y] = executor[y]
          /\ \A a \in Admins : executor'[a] = executor[a]
      BY <1>1, <2>3 DEF Executors
    <2>6. refund[r] # "none" /\ RowBegins(r)
      BY <1>0, <2>3 DEF Begun, RowBegins
    <2>7. RunBegins(run)' /\ RowBegins(r)'
      <3>1. RunBegins(run)'
        BY <2>2, <2>4, <2>6 DEF RunBegins, Executes
      <3>2. RowBegins(r)'
        BY <2>4, <2>5, <2>6, RowGoesOn
      <3> QED
        BY <3>1, <3>2
    <2>8. /\ One(Startable(r))' = 0 /\ One(Startable(r)) = 1
          /\ One(Calls(run, r)) = 1 /\ One(Calls(executor[w], r)) = 0
      BY <2>2, <2>3, <2>4 DEF One, Startable, Calls
    <2>9. Begun' /\ PayoutsExplained'
      <3>1. moved'[r] + One(Calls(run, r)) + One(Startable(r))' + faults + retries
               <= moved[r] + One(Calls(executor[w], r)) + One(Startable(r)) + faults' + retries'
        <4>1. moved[r] \in Nat
          BY <1>0, CountsTyped
        <4> HIDE DEF One
        <4> QED
          BY <1>1, <2>4, <2>8, <4>1
      <3>2. faults' >= faults /\ retries' >= retries
        BY <1>1, <2>4
      <3> QED
        BY <1>0, <1>1, <2>2, <2>3, <2>4, <2>7, <3>1, <3>2, RunProceeds
    <2>10. Money'
      <3>1. \A x \in Executors : Covering(executor'[x]) =>
               Covering(executor[x]) /\ executor'[x].refund = executor[x].refund
        BY <2>2, <2>5 DEF Covering
      <3> QED
        BY <1>0, <2>4, <3>1, MoneyRests
    <2> QED
      BY <2>9, <2>10 DEF MoneyKept
  <1>3. CASE Stalls(w)
    <2>1. PICK run, r : run = [executor[w] EXCEPT !.holdsJob = FALSE] /\ r = executor[w].refund
      OBVIOUS
    <2>2. /\ run.pc = executor[w].pc /\ run.refund = r /\ run.holdsJob = FALSE
          /\ run.amount = executor[w].amount /\ run.covered = executor[w].covered
      BY <1>1, <2>1 DEF Runs
    <2>3. /\ executor' = [executor EXCEPT ![w] = run] /\ executor[w].holdsJob
          /\ UNCHANGED <<rowVars, tableVars, tries, moved, retries>>
          /\ job' = [job EXCEPT ![r] = "waiting"]
          /\ faults' = faults + 1
      BY <1>1, <1>3, <2>1 DEF Stalls, Runs
    <2>4. /\ UNCHANGED <<status, payment, refund, amount, old, moved, retries>>
          /\ \A q \in RefundIds : q # r => job'[q] = job[q]
      BY <1>1, <2>3 DEF rowVars, tableVars
    <2>5. /\ executor'[w] = run /\ \A y \in Executors : y # w => executor'[y] = executor[y]
          /\ \A a \in Admins : executor'[a] = executor[a]
      BY <1>1, <2>3 DEF Executors
    <2>6. r \in RefundIds /\ refund[r] # "none" /\ RowBegins(r)
      BY <1>0, <1>1, <2>1, <2>3 DEF Begun, RunTells, RunBegins, Executes
    <2>7. RunBegins(run)' /\ RowBegins(r)'
      <3>1. RunBegins(run)'
        BY <1>1, <2>1, <2>2, <2>4 DEF RunBegins
      <3>2. RowBegins(r)'
        BY <2>4, <2>5, <2>6, RowGoesOn
      <3> QED
        BY <3>1, <3>2
    <2>8. /\ One(Startable(r))' \in {0, 1} /\ One(Startable(r)) \in {0, 1}
          /\ One(Calls(run, r)) \in {0, 1} /\ One(Calls(executor[w], r)) = One(Calls(run, r))
      BY <2>1, <2>2 DEF One, Calls
    <2>9. Begun' /\ PayoutsExplained'
      <3>1. moved'[r] + One(Calls(run, r)) + One(Startable(r))' + faults + retries
               <= moved[r] + One(Calls(executor[w], r)) + One(Startable(r)) + faults' + retries'
        <4>1. moved[r] \in Nat
          BY <1>0, <2>6, CountsTyped
        <4> HIDE DEF One
        <4> QED
          BY <1>1, <2>3, <2>4, <2>8, <4>1
      <3>2. faults' >= faults /\ retries' >= retries
        BY <1>1, <2>3, <2>4
      <3>3. executor[w].refund \in {r, NoRefund} /\ run.refund \in {r, NoRefund}
        BY <2>1, <2>2
      <3>4. \A q \in RefundIds : q # r =>
               /\ moved'[q] = moved[q] /\ job'[q] = job[q] /\ refund'[q] = refund[q]
               /\ amount'[q] = amount[q] /\ old'[q] = old[q]
        BY <2>4
      <3> QED
        BY <1>0, <1>1, <2>3, <2>6, <2>7, <3>1, <3>2, <3>3, <3>4, RunProceeds
    <2>10. Money'
      <3>1. \A x \in Executors : Covering(executor'[x]) =>
               Covering(executor[x]) /\ executor'[x].refund = executor[x].refund
        BY <2>1, <2>2, <2>5 DEF Covering
      <3> QED
        BY <1>0, <2>4, <3>1, MoneyRests
    <2> QED
      BY <2>9, <2>10 DEF MoneyKept
  <1> QED
    BY <1>2, <1>3

-----------------------------------------------------------------------------
(* Runs that end. *)

LEMMA EndsIdle ==
  ASSUME TypeOK, NEW x \in Executors, Finish(x) \/ Fail(x)
  PROVE  /\ \E run \in Runs : /\ executor' = [executor EXCEPT ![x] = run]
                              /\ run.pc \in {"idle", "giving_up"} /\ run.holdsJob = FALSE
                              /\ run.refund \in {executor[x].refund, NoRefund}
         /\ \A q \in RefundIds : q # executor[x].refund => job'[q] = job[q]
  <1> DEFINE r == executor[x].refund
             Goal == \E run \in Runs : /\ executor' = [executor EXCEPT ![x] = run]
                                       /\ run.pc \in {"idle", "giving_up"} /\ run.holdsJob = FALSE
                                       /\ run.refund \in {r, NoRefund}
  <1>0. executor \in [Executors -> Runs] /\ job = [q \in RefundIds |-> job[q]]
    BY TypesOfRefunds DEF TypeOK
  <1>1. \A q \in RefundIds : q # r => job'[q] = job[q]
    <2>1. job' = job \/ \E s : job' = [job EXCEPT ![r] = s]
      BY DEF Finish, Fail, queueVars
    <2> QED
      BY <1>0, <2>1
  <1>2. Idle \in Runs /\ Idle.pc = "idle" /\ Idle.holdsJob = FALSE /\ Idle.refund = NoRefund
    BY IdleIsRun DEF Idle
  <1>3. \/ executor' = [executor EXCEPT ![x] = Idle]
        \/ executor' = [executor EXCEPT ![x].pc = "giving_up", ![x].holdsJob = FALSE]
        \/ /\ executor' = [executor EXCEPT ![x] = [@ EXCEPT !.pc = "giving_up"]]
           /\ ~ executor[x].holdsJob
    BY DEF Finish, Fail
  <1>4. ASSUME executor' = [executor EXCEPT ![x] = Idle] PROVE Goal
    BY <1>2, <1>4
  <1>5. ASSUME executor' = [executor EXCEPT ![x].pc = "giving_up", ![x].holdsJob = FALSE] PROVE Goal
    <2>1. PICK run : run = [executor[x] EXCEPT !.pc = "giving_up", !.holdsJob = FALSE]
      OBVIOUS
    <2>2. run \in Runs /\ run.pc = "giving_up" /\ run.refund = r /\ run.holdsJob = FALSE
      BY <1>0, <2>1 DEF Runs, RunPCs
    <2>3. executor' = [executor EXCEPT ![x] = run]
      BY <1>0, <1>5, <2>1 DEF Runs
    <2> QED
      BY <2>2, <2>3
  <1>6. ASSUME executor' = [executor EXCEPT ![x] = [@ EXCEPT !.pc = "giving_up"]], ~ executor[x].holdsJob
        PROVE  Goal
    <2>1. PICK run : run = [executor[x] EXCEPT !.pc = "giving_up"]
      OBVIOUS
    <2>2. run \in Runs /\ run.pc = "giving_up" /\ run.refund = r /\ run.holdsJob = FALSE
      BY <1>0, <1>6, <2>1 DEF Runs, RunPCs
    <2>3. executor' = [executor EXCEPT ![x] = run]
      BY <1>0, <1>6, <2>1
    <2> QED
      BY <2>2, <2>3
  <1> QED
    BY <1>1, <1>3, <1>4, <1>5, <1>6

\* A run that ends without paying out, before it records anything.
LEMMA MoneyOfEnd ==
  ASSUME MoneyInv, TypeOK', Kept, NEW x \in Executors, NEW r, r = executor[x].refund,
         \/ Finish(x) /\ executor[x].pc \in Executes /\ refund'[r] # "pending"
         \/ Fail(x) /\ executor[x].pc = "calling"
         \/ Fail(x) /\ executor[x].pc = "committing" /\ moved' = moved /\ faults' = faults + 1,
         refund[r] # "none" /\ refund'[r] # "none", UNCHANGED <<amount, old, retries>>,
         \A q \in RefundIds : q # r => moved'[q] = moved[q] /\ refund'[q] = refund[q],
         faults' >= faults, moved'[r] + faults <= moved[r] + faults'
  PROVE  Begun' /\ PayoutsExplained'
  <1>0. Begun /\ TypeOK /\ TypeOK' /\ RunTells(executor[x])
    BY DEF MoneyInv, RefundsInv, RunsTell, Kept
  <1>1. r \in RefundIds /\ executor \in [Executors -> Runs]
    BY <1>0, TypesOfRefunds DEF RunTells, Executes
  <1>2. PICK run \in Runs : /\ executor' = [executor EXCEPT ![x] = run]
                            /\ run.pc \in {"idle", "giving_up"} /\ run.holdsJob = FALSE
                            /\ run.refund \in {r, NoRefund}
    BY <1>0, EndsIdle
  <1>3. \A q \in RefundIds : q # r => job'[q] = job[q]
    BY <1>0, EndsIdle
  <1>4. executor'[x] = run /\ \A y \in Executors : y # x => executor'[y] = executor[y]
    BY <1>1, <1>2
  <1>5. RunBegins(run)' /\ RowBegins(r)'
    <2>1. RunBegins(run)'
      BY <1>2 DEF RunBegins, Executes
    <2>2. \A a \in Admins : executor'[a].refund = r => executor[a].refund = r
      BY <1>4 DEF Executors
    <2>3. RowBegins(r)'
      BY <1>0, <1>1, <2>2, RowGoesOn DEF Begun
    <2> QED
      BY <2>1, <2>3
  <1>6. ~ (moved' = moved /\ faults' = faults + 1) =>
           One(Calls(run, r)) + One(Startable(r))' <= One(Calls(executor[x], r)) + One(Startable(r))
    <2>1. One(Calls(run, r)) = 0
      BY <1>2 DEF One, Calls
    <2>2. CASE Fail(x) /\ executor[x].pc = "calling"
      <3>1. One(Calls(executor[x], r)) = 1
        BY <2>2 DEF One, Calls
      <3>2. One(Startable(r))' \in {0, 1} /\ One(Startable(r)) \in {0, 1}
        BY DEF One
      <3> QED
        BY <2>1, <3>1, <3>2
    <2>3. CASE Finish(x) /\ refund'[r] # "pending"
      <3>1. Startable(r)' => Startable(r)
        <4>1. job'[r] = "waiting" => job[r] = "waiting"
          <5>1. job \in [RefundIds -> {"none", "waiting", "active"}]
            BY <1>0 DEF TypeOK
          <5> QED
            BY <1>1, <2>3, <5>1 DEF Finish, queueVars
        <4> QED
          BY <2>3, <4>1 DEF Startable
      <3>2. One(Startable(r))' <= One(Startable(r)) /\ One(Startable(r))' \in {0, 1} /\ One(Startable(r)) \in {0, 1}
        BY <3>1 DEF One
      <3>3. One(Calls(executor[x], r)) \in {0, 1}
        BY DEF One
      <3> QED
        BY <2>1, <3>2, <3>3
    <2> QED
      BY <2>2, <2>3
  <1>7. moved'[r] + One(Calls(run, r)) + One(Startable(r))' + faults + retries
           <= moved[r] + One(Calls(executor[x], r)) + One(Startable(r)) + faults' + retries'
    <2>1. /\ One(Calls(executor[x], r)) \in {0, 1} /\ One(Calls(run, r)) \in {0, 1}
          /\ One(Startable(r)) \in {0, 1} /\ One(Startable(r))' \in {0, 1}
      BY DEF One
    <2>2. /\ moved[r] \in Nat /\ moved'[r] \in Nat /\ faults \in Nat /\ faults' \in Nat
          /\ retries \in Nat /\ retries' = retries
      BY <1>0, <1>1, CountsTyped
    <2>3. CASE moved' = moved /\ faults' = faults + 1
      <3>1. One(Calls(run, r)) = 0
        BY <1>2 DEF One, Calls
      <3> HIDE DEF One
      <3> QED
        BY <2>1, <2>2, <2>3, <3>1
    <2>4. CASE ~ (moved' = moved /\ faults' = faults + 1)
      <3> HIDE DEF One
      <3> QED
        BY <1>6, <2>1, <2>2, <2>4
    <2> QED
      BY <2>3, <2>4
  <1>8. retries' >= retries
    <2>1. retries \in Nat /\ retries' = retries
      BY <1>0, CountsTyped
    <2> QED
      BY <2>1
  <1>9. executor[x].refund \in {r, NoRefund}
    OBVIOUS
  <1>10. \A q \in RefundIds : q # r =>
             /\ moved'[q] = moved[q] /\ job'[q] = job[q] /\ refund'[q] = refund[q]
             /\ amount'[q] = amount[q] /\ old'[q] = old[q]
    BY <1>3
  <1> QED
    BY <1>1, <1>2, <1>5, <1>7, <1>8, <1>9, <1>10, RunProceeds

\* A run that goes on, from one place where it executes the refund to another.
LEMMA MoneyOfProgress ==
  ASSUME MoneyInv, TypeOK', Kept, NEW x \in Executors, NEW run, executor' = [executor EXCEPT ![x] = run],
         NEW r, r = executor[x].refund, run.refund = r, run.holdsJob = executor[x].holdsJob,
         executor[x].pc \in Executes, run.pc \in Executes,
         UNCHANGED <<tableVars, job, retries, faults>>,
         \A q \in RefundIds : q # r => moved'[q] = moved[q],
         moved'[r] + One(Calls(run, r)) <= moved[r] + One(Calls(executor[x], r))
  PROVE  Begun' /\ PayoutsExplained'
  <1>0. /\ Begun /\ TypeOK /\ TypeOK' /\ RunTells(executor[x]) /\ RunBegins(executor[x])
        /\ NoRefund \notin RefundIds
    BY RefundsAssumption DEF MoneyInv, RefundsInv, RunsTell, Kept, Begun
  <1>1. r \in RefundIds /\ executor \in [Executors -> Runs] /\ refund[r] # "none"
    BY <1>0, TypesOfRefunds DEF RunTells, RunBegins, Executes
  <1>2. executor'[x] = run /\ \A y \in Executors : y # x => executor'[y] = executor[y]
    BY <1>1
  <1>3. UNCHANGED <<refund, amount, old>>
    BY DEF tableVars
  <1>4. RunBegins(run)' /\ RowBegins(r)'
    <2>1. RunBegins(run)'
      BY <1>0, <1>1, <1>3 DEF RunBegins, Executes
    <2>2. \A a \in Admins : executor'[a].refund = r => executor[a].refund = r
      BY <1>2 DEF Executors
    <2>3. RowBegins(r)'
      BY <1>0, <1>1, <1>3, <2>2, RowGoesOn DEF Begun
    <2> QED
      BY <2>1, <2>3
  <1>5. moved'[r] + One(Calls(run, r)) + One(Startable(r))' + faults + retries
           <= moved[r] + One(Calls(executor[x], r)) + One(Startable(r)) + faults' + retries'
    <2>1. One(Startable(r))' = One(Startable(r)) /\ One(Startable(r)) \in {0, 1}
      <3>1. One(Startable(r))' = One(Startable(r))
        <4>1. job'[r] = job[r] /\ refund'[r] = refund[r] /\ run.refund = executor[x].refund
          BY <1>3
        <4>2. run.pc \in Executes <=> executor[x].pc \in Executes
          OBVIOUS
        <4>3. TypeOK /\ x \in Executors /\ executor' = [executor EXCEPT ![x] = run]
          BY <1>0
        <4> QED
          BY ONLY <4>1, <4>2, <4>3, StartableStays
      <3> QED
        BY <3>1 DEF One
    <2>2. One(Calls(executor[x], r)) \in {0, 1} /\ One(Calls(run, r)) \in {0, 1}
      BY DEF One
    <2>3. /\ moved[r] \in Nat /\ moved'[r] \in Nat /\ faults \in Nat /\ retries \in Nat
      BY <1>0, <1>1, CountsTyped
    <2> HIDE DEF One
    <2> QED
      BY <2>1, <2>2, <2>3
  <1>6. faults' >= faults /\ retries' >= retries
    <2>1. faults \in Nat /\ retries \in Nat
      BY <1>0, CountsTyped
    <2> QED
      BY <2>1
  <1>7. executor[x].refund \in {r, NoRefund} /\ run.refund \in {r, NoRefund}
    OBVIOUS
  <1>8. \A q \in RefundIds : q # r =>
             /\ moved'[q] = moved[q] /\ job'[q] = job[q] /\ refund'[q] = refund[q]
             /\ amount'[q] = amount[q] /\ old'[q] = old[q]
    BY <1>3
  <1> QED
    BY <1>1, <1>4, <1>5, <1>6, <1>7, <1>8, RunProceeds

LEMMA MoneyOfRun ==
  ASSUME MoneyInv, TypeOK', captures' = captures, NEW x \in Executors,
         LoadRefund(x) \/ CallGateway(x) \/ OpenRecord(x)
  PROVE  MoneyKept
  <1>0. RefundsInv /\ Begun /\ Money /\ PayoutsExplained /\ Kept /\ TypeOK /\ TypeOK'
    <2>1. RefundsInv
      BY DEF MoneyInv
    <2> QED
      BY <2>1, StepOfRun DEF MoneyInv, Kept, RefundsInv
  <1>1. PICK r : r = executor[x].refund
    OBVIOUS
  <1>2. /\ executor \in [Executors -> Runs] /\ executor[x] \in Runs
        /\ RunTells(executor[x]) /\ RunBegins(executor[x])
        /\ {faults, retries} \subseteq Nat
    BY <1>0, TypesOfRefunds, CountsTyped DEF RefundsInv, RunsTell, Begun
  <1>3. /\ r \in RefundIds /\ refund[r] # "none" /\ executor[x].pc \in {"loading", "calling", "recording"}
        /\ UNCHANGED <<rowVars, tableVars, retries>>
        /\ UNCHANGED <<status, payment, refund, amount, old, retries>>
    BY <1>1, <1>2 DEF LoadRefund, CallGateway, OpenRecord, RunTells, RunBegins, Executes,
       rowVars, tableVars
  <1>4. moved[r] \in Nat /\ moved' [r] \in Nat
    BY <1>0, <1>3, CountsTyped
  \* A run that ends while nothing was paid out.
  <1>5. ASSUME UNCHANGED <<moved, faults>>,
               (Finish(x) /\ refund[r] # "pending") \/ (Fail(x) /\ executor[x].pc = "calling")
        PROVE  MoneyKept
    <2>1. Begun' /\ PayoutsExplained'
      <3>1. \/ Finish(x) /\ executor[x].pc \in Executes /\ refund'[r] # "pending"
            \/ Fail(x) /\ executor[x].pc = "calling"
        BY <1>3, <1>5 DEF Executes
      <3>2. faults' >= faults /\ moved'[r] + faults <= moved[r] + faults'
        BY <1>2, <1>4, <1>5
      <3> QED
        BY <1>0, <1>1, <1>3, <1>5, <3>1, <3>2, MoneyOfEnd
    <2>2. PICK run \in Runs : /\ executor' = [executor EXCEPT ![x] = run]
                              /\ run.pc \in {"idle", "giving_up"}
      BY <1>0, <1>5, EndsIdle
    <2>3. \A y \in Executors : Covering(executor'[y]) =>
             Covering(executor[y]) /\ executor'[y].refund = executor[y].refund
      BY <1>2, <2>2 DEF Covering
    <2>4. Money'
      BY <1>0, <1>3, <1>5, <2>3, MoneyRests
    <2> QED
      BY <2>1, <2>4 DEF MoneyKept
  <1>6. CASE LoadRefund(x)
    <2>1. UNCHANGED <<moved, faults>> /\ executor[x].pc = "loading"
      BY <1>6 DEF LoadRefund
    <2>2. CASE Finish(x) /\ refund[r] # "pending"
      BY <1>5, <2>1, <2>2
    <2>3. CASE executor' = [executor EXCEPT ![x].pc = "calling"] /\ UNCHANGED queueVars
      <3>1. PICK run : run = [executor[x] EXCEPT !.pc = "calling"]
        OBVIOUS
      <3>2. /\ run.pc = "calling" /\ run.refund = r /\ run.holdsJob = executor[x].holdsJob
            /\ executor' = [executor EXCEPT ![x] = run] /\ UNCHANGED job
        BY <1>1, <1>2, <2>3, <3>1 DEF Runs, queueVars
      <3>3. One(Calls(run, r)) = 1 /\ One(Calls(executor[x], r)) = 1
        BY <1>1, <2>1, <3>2 DEF One, Calls
      <3>4. Begun' /\ PayoutsExplained'
        <4>1. moved'[r] + One(Calls(run, r)) <= moved[r] + One(Calls(executor[x], r))
          BY <1>4, <2>1, <3>3
        <4>2. executor[x].pc \in Executes /\ run.pc \in Executes
          BY <2>1, <3>2 DEF Executes
        <4> QED
          BY <1>0, <1>1, <1>3, <2>1, <3>2, <4>1, <4>2, MoneyOfProgress
      <3>5. \A y \in Executors : Covering(executor'[y]) =>
               Covering(executor[y]) /\ executor'[y].refund = executor[y].refund
        BY <1>2, <3>2 DEF Covering
      <3>6. Money'
        BY <1>0, <1>3, <2>1, <3>5, MoneyRests
      <3> QED
        BY <3>4, <3>6 DEF MoneyKept
    <2> QED
      BY <1>1, <1>6, <2>2, <2>3 DEF LoadRefund
  <1>7. CASE CallGateway(x)
    <2>1. /\ executor[x].pc = "calling"
          /\ \/ UNCHANGED <<moved, faults>> /\ Fail(x)
             \/ /\ PaidOut(BookingOf[r]) + amount[r] <= captures[BookingOf[r]] * Total
                /\ moved' = [moved EXCEPT ![r] = @ + 1]
                /\ \/ UNCHANGED <<queueVars, faults>> /\ executor' = [executor EXCEPT ![x].pc = "recording"]
                   \/ faults' = faults + 1 /\ Fail(x)
      BY <1>1, <1>7 DEF CallGateway
    <2>2. CASE UNCHANGED <<moved, faults>> /\ Fail(x)
      BY <1>5, <2>1, <2>2
    <2>3. ASSUME PaidOut(BookingOf[r]) + amount[r] <= captures[BookingOf[r]] * Total,
                 moved' = [moved EXCEPT ![r] = @ + 1],
                 \/ UNCHANGED <<queueVars, faults>> /\ executor' = [executor EXCEPT ![x].pc = "recording"]
                 \/ faults' = faults + 1 /\ Fail(x)
          PROVE  MoneyKept
      <3>1. /\ moved'[r] = moved[r] + 1 /\ \A q \in RefundIds : q # r => moved'[q] = moved[q]
        <4>1. moved \in [RefundIds -> Nat]
          BY <1>0, TypesOfRefunds
        <4> QED
          BY <1>3, <2>3, <4>1
      <3>2. CASE UNCHANGED <<queueVars, faults>> /\ executor' = [executor EXCEPT ![x].pc = "recording"]
        <4>1. PICK run : run = [executor[x] EXCEPT !.pc = "recording"]
          OBVIOUS
        <4>2. /\ run.pc = "recording" /\ run.refund = r /\ run.holdsJob = executor[x].holdsJob
              /\ executor' = [executor EXCEPT ![x] = run] /\ UNCHANGED job
          BY <1>1, <1>2, <3>2, <4>1 DEF Runs, queueVars
        <4>3. One(Calls(run, r)) = 0 /\ One(Calls(executor[x], r)) = 1
          BY <1>1, <2>1, <4>2 DEF One, Calls
        <4>4. Begun' /\ PayoutsExplained'
          <5>1. moved'[r] + One(Calls(run, r)) <= moved[r] + One(Calls(executor[x], r))
            BY <1>4, <3>1, <4>3
          <5>2. executor[x].pc \in Executes /\ run.pc \in Executes
            BY <2>1, <4>2 DEF Executes
          <5>3. UNCHANGED <<tableVars, job, retries, faults>>
            BY <1>3, <3>2, <4>2
          <5>4. \A q \in RefundIds : q # r => moved'[q] = moved[q]
            BY <3>1
          <5> QED
            BY <1>0, <1>1, <4>2, <5>1, <5>2, <5>3, <5>4, MoneyOfProgress
        <4>5. \A y \in Executors : Covering(executor'[y]) => executor'[y] = executor[y]
          BY <1>2, <4>2 DEF Covering
        <4>6. Money'
          BY <1>0, <1>3, <2>3, <4>5, MoneyPaid
        <4> QED
          BY <4>4, <4>6 DEF MoneyKept
      <3>3. CASE faults' = faults + 1 /\ Fail(x)
        <4>1. Begun' /\ PayoutsExplained'
          <5>1. faults' >= faults /\ moved'[r] + faults <= moved[r] + faults'
            BY <1>2, <1>4, <3>1, <3>3
          <5>2. refund'[r] # "none" /\ \A q \in RefundIds : q # r => moved'[q] = moved[q] /\ refund'[q] = refund[q]
            BY <1>3, <3>1
          <5> QED
            BY <1>0, <1>1, <1>3, <2>1, <3>3, <5>1, <5>2, MoneyOfEnd
        <4>2. PICK run \in Runs : /\ executor' = [executor EXCEPT ![x] = run]
                                  /\ run.pc \in {"idle", "giving_up"}
          BY <1>0, <3>3, EndsIdle
        <4>3. \A y \in Executors : Covering(executor'[y]) => executor'[y] = executor[y]
          BY <1>2, <4>2 DEF Covering
        <4>4. Money'
          BY <1>0, <1>3, <2>3, <4>3, MoneyPaid
        <4> QED
          BY <4>1, <4>4 DEF MoneyKept
      <3> QED
        BY <2>3, <3>2, <3>3
    <2> QED
      BY <2>1, <2>2, <2>3
  <1>8. CASE OpenRecord(x)
    <2>1. /\ UNCHANGED <<moved, faults>> /\ executor[x].pc = "recording"
          /\ \/ Finish(x) /\ refund[r] # "pending"
             \/ /\ refund[r] = "pending" /\ UNCHANGED queueVars
                /\ executor' = [executor EXCEPT ![x].pc = "committing",
                                                ![x].covered = Covers(r),
                                                ![x].closable = Closable(BookingOf[r])]
      BY <1>1, <1>8 DEF OpenRecord
    <2>2. CASE Finish(x) /\ refund[r] # "pending"
      BY <1>5, <2>1, <2>2
    <2>3. CASE /\ UNCHANGED queueVars
               /\ executor' = [executor EXCEPT ![x].pc = "committing",
                                               ![x].covered = Covers(r),
                                               ![x].closable = Closable(BookingOf[r])]
      <3>2. PICK run : run = [executor[x] EXCEPT !.pc = "committing",
                                                 !.covered = Covers(r),
                                                 !.closable = Closable(BookingOf[r])]
        OBVIOUS
      <3>3. /\ run.pc = "committing" /\ run.refund = r /\ run.holdsJob = executor[x].holdsJob
            /\ run.covered => Covers(r)
        BY <1>1, <1>2, <3>2 DEF Runs
      <3>4. executor' = [executor EXCEPT ![x] = run] /\ UNCHANGED job
        BY <1>1, <1>2, <2>3, <3>2 DEF Runs, queueVars
      <3>5. One(Calls(run, r)) = 0 /\ One(Calls(executor[x], r)) = 0
        BY <1>1, <2>1, <3>3 DEF One, Calls
      <3>6. Begun' /\ PayoutsExplained'
        <4>1. moved'[r] + One(Calls(run, r)) <= moved[r] + One(Calls(executor[x], r))
          BY <1>4, <2>1, <3>5
        <4>2. executor[x].pc \in Executes /\ run.pc \in Executes
          BY <2>1, <3>3 DEF Executes
        <4> QED
          BY <1>0, <1>1, <1>3, <2>1, <3>3, <3>4, <4>1, <4>2, MoneyOfProgress
      <3>7. ASSUME NEW y \in Executors, Covering(executor'[y])
            PROVE  /\ executor'[y].refund \in RefundIds
                   /\ refund[executor'[y].refund] # "none"
                   /\ Covers(executor'[y].refund)
        <4>1. CASE y = x
          <5>1. executor'[x] = run
            BY <1>2, <3>4
          <5> QED
            BY <1>3, <3>3, <3>7, <4>1, <5>1 DEF Covering
        <4>2. CASE y # x
          <5>1. executor'[y] = executor[y] /\ RunTells(executor[y])
            BY <1>0, <1>2, <3>4, <4>2 DEF RefundsInv, RunsTell
          <5> QED
            BY <1>0, <3>7, <5>1 DEF Money, Covering, RunTells
        <4> QED
          BY <4>1, <4>2
      <3>8. Money'
        BY <1>0, <1>3, <2>1, <3>7, MoneyStays
      <3> QED
        BY <3>6, <3>8 DEF MoneyKept
    <2> QED
      BY <2>1, <2>2, <2>3
  <1> QED
    BY <1>6, <1>7, <1>8

LEMMA MoneyOfRecord ==
  ASSUME MoneyInv, TypeOK', captures' = captures, NEW x \in Executors, CommitRecord(x)
  PROVE  MoneyKept
  <1>0. RefundsInv /\ Begun /\ Money /\ PayoutsExplained /\ Kept /\ TypeOK /\ TypeOK'
    <2>1. RefundsInv
      BY DEF MoneyInv
    <2> QED
      BY <2>1, StepOfRecord DEF MoneyInv, Kept, RefundsInv
  <1>1. PICK r : r = executor[x].refund
    OBVIOUS
  <1>2. /\ r \in RefundIds /\ refund[r] = "pending" /\ executor[x].pc = "committing"
        /\ refund \in [RefundIds -> RefundStates]
    BY <1>0, <1>1, TypesOfRefunds DEF CommitRecord, RefundsInv, RunsTell, RunTells
  <1>3. /\ Finish(x) /\ refund' = [refund EXCEPT ![r] = "succeeded"]
        /\ UNCHANGED <<amount, old, moved, retries, faults>>
    BY <1>1 DEF CommitRecord
  <1>4. refund'[r] = "succeeded" /\ \A q \in RefundIds : q # r => refund'[q] = refund[q]
    BY <1>2, <1>3
  <1>5. Begun' /\ PayoutsExplained'
    <2>1. faults' >= faults /\ moved'[r] + faults <= moved[r] + faults'
      <3>1. faults \in Nat /\ moved[r] \in Nat
        BY <1>0, <1>2, CountsTyped
      <3> QED
        BY <1>3, <3>1
    <2>2. Finish(x) /\ executor[x].pc \in Executes /\ refund'[r] # "pending"
      BY <1>2, <1>3, <1>4 DEF Executes
    <2>3. \A q \in RefundIds : q # r => moved'[q] = moved[q] /\ refund'[q] = refund[q]
      BY <1>3, <1>4
    <2>4. refund[r] # "none" /\ refund'[r] # "none"
      BY <1>2, <1>4
    <2> QED
      BY <1>0, <1>1, <1>3, <2>1, <2>2, <2>3, <2>4, MoneyOfEnd
  <1>6. Money'
    BY <1>0, <1>1, MoneyRecorded
  <1> QED
    BY <1>5, <1>6 DEF MoneyKept

\* A run that is over: it gave up, or its process died.
LEMMA MoneyOfOver ==
  ASSUME MoneyInv, TypeOK', captures' = captures, NEW x \in Executors, GiveUp(x) \/ Dies(x)
  PROVE  MoneyKept
  <1>0. RefundsInv /\ Begun /\ Money /\ PayoutsExplained /\ Kept /\ TypeOK /\ TypeOK'
    <2>1. RefundsInv
      BY DEF MoneyInv
    <2> QED
      BY <2>1, StepOfGivingUp, StepOfDeath DEF MoneyInv, Kept, RefundsInv
  <1>1. PICK r : r = executor[x].refund
    OBVIOUS
  <1>2. /\ executor \in [Executors -> Runs] /\ executor[x] \in Runs
        /\ RunTells(executor[x]) /\ RunBegins(executor[x])
        /\ {faults, retries} \subseteq Nat /\ refund \in [RefundIds -> RefundStates]
        /\ job = [q \in RefundIds |-> job[q]]
        /\ NoRefund \notin RefundIds
    <2>1. executor \in [Executors -> Runs] /\ refund \in [RefundIds -> RefundStates]
      BY <1>0, TypesOfRefunds
    <2>2. RunTells(executor[x]) /\ RunBegins(executor[x])
      BY <1>0 DEF RefundsInv, RunsTell, Begun
    <2>3. {faults, retries} \subseteq Nat
      BY <1>0, CountsTyped
    <2>4. job = [q \in RefundIds |-> job[q]]
      BY <1>0 DEF TypeOK
    <2> QED
      BY <2>1, <2>2, <2>3, <2>4, RefundsAssumption
  <1>3. /\ executor' = [executor EXCEPT ![x] = Idle]
        /\ UNCHANGED <<rowVars, payment, amount, ledger, old, moved, retries>>
        /\ \/ refund' = refund
           \/ refund[r] = "pending" /\ refund' = [refund EXCEPT ![r] = "failed"]
        /\ faults' \in {faults, faults + 1}
    BY <1>1 DEF GiveUp, Dies, tableVars
  <1>4. UNCHANGED <<status, payment, amount, old, moved, retries>>
    BY <1>3 DEF rowVars
  <1>5. /\ executor'[x] = Idle /\ \A y \in Executors : y # x => executor'[y] = executor[y]
        /\ Idle.pc = "idle" /\ Idle.refund = NoRefund /\ Idle.holdsJob = FALSE
    <2>1. Idle.pc = "idle" /\ Idle.refund = NoRefund /\ Idle.holdsJob = FALSE
      BY DEF Idle
    <2> QED
      BY <1>2, <1>3, <2>1
  <1>6. /\ \A q \in RefundIds : q # r => refund'[q] = refund[q]
        /\ \A q \in RefundIds : refund'[q] = "succeeded" <=> refund[q] = "succeeded"
    BY <1>2, <1>3
  <1>7. Money'
    <2>1. \A y \in Executors : Covering(executor'[y]) =>
             Covering(executor[y]) /\ executor'[y].refund = executor[y].refund
      BY <1>5 DEF Covering
    <2>2. \A q \in RefundIds : /\ refund'[q] = "succeeded" <=> refund[q] = "succeeded"
                               /\ refund[q] # "none" => amount'[q] = amount[q]
      BY <1>4, <1>6
    <2> QED
      BY <1>0, <1>4, <2>1, <2>2, MoneyRests
  <1>8. RunBegins(Idle)'
    BY <1>5 DEF RunBegins, Executes, Idle
  <1>9. /\ faults' >= faults /\ retries' >= retries
    BY <1>2, <1>3
  <1>10. \A q \in RefundIds : q # r => job'[q] = job[q]
    <2>1. job' = job \/ \E s : job' = [job EXCEPT ![r] = s]
      BY <1>1 DEF GiveUp, Dies, queueVars
    <2> QED
      BY <1>2, <2>1
  <1>11. \A q \in RefundIds : q # r =>
             /\ moved'[q] = moved[q] /\ job'[q] = job[q] /\ refund'[q] = refund[q]
             /\ amount'[q] = amount[q] /\ old'[q] = old[q]
    BY <1>4, <1>6, <1>10
  <1>12. CASE r \notin RefundIds
    <2>1. ASSUME NEW y \in Executors
          PROVE  \/ executor'[y] = executor[y]
                 \/ /\ RunBegins(executor[y])'
                    /\ \A q \in RefundIds : q # r => executor[y].refund # q /\ executor'[y].refund # q
      BY <1>1, <1>2, <1>5, <1>8
    <2>2. Begun' /\ PayoutsExplained'
      BY <1>0, <1>9, <1>11, <1>12, <2>1, OneRow
    <2> QED
      BY <1>7, <2>2 DEF MoneyKept
  <1>13. CASE r \in RefundIds
    <2>1. RowBegins(r)'
      <3>1. RowBegins(r)
        BY <1>0, <1>13 DEF Begun
      <3>2. \A a \in Admins : executor'[a].refund = r => executor[a].refund = r
        BY <1>2, <1>5, <1>13 DEF Executors
      <3>3. CASE refund[r] # "none"
        <4>1. refund'[r] # "none"
          BY <1>2, <1>3, <1>13, <3>3
        <4> QED
          BY <1>4, <1>13, <3>1, <3>2, <3>3, <4>1, RowGoesOn
      <3>4. CASE refund[r] = "none"
        <4>1. ~ executor[x].holdsJob
          BY <1>1, <1>2, <3>4 DEF RunBegins
        <4>2. refund'[r] = refund[r] /\ job' = job
          BY <1>1, <1>3, <3>4, <4>1 DEF GiveUp, Dies, queueVars
        <4> QED
          BY <1>4, <3>1, <3>4, <4>2 DEF RowBegins
      <3> QED
        BY <3>3, <3>4
    <2>2. One(Calls(Idle, r)) = 0
      BY <1>5 DEF One, Calls
    <2>3. /\ One(Startable(r))' \in {0, 1} /\ One(Startable(r)) \in {0, 1}
          /\ One(Calls(executor[x], r)) \in {0, 1}
      BY DEF One
    <2>4. One(Startable(r))' + faults <= One(Startable(r)) + faults'
      <3>1. CASE Dies(x)
        <4>1. faults' = faults + 1
          BY <3>1 DEF Dies
        <4> QED
          BY <1>2, <2>3, <4>1
      <3>2. CASE GiveUp(x)
        <4>1. job' = job /\ faults' = faults
          BY <3>2 DEF GiveUp, queueVars
        <4>2. refund'[r] # "pending"
          BY <1>1, <1>2, <1>13, <3>2 DEF GiveUp
        <4>3. Startable(r)' => Startable(r)
          BY <4>1, <4>2 DEF Startable
        <4>4. One(Startable(r))' <= One(Startable(r))
          BY <4>3 DEF One
        <4> QED
          BY <1>2, <2>3, <4>1, <4>4
      <3> QED
        BY <3>1, <3>2
    <2>5. moved'[r] + One(Calls(Idle, r)) + One(Startable(r))' + faults + retries
             <= moved[r] + One(Calls(executor[x], r)) + One(Startable(r)) + faults' + retries'
      <3>1. moved[r] \in Nat /\ faults' \in Nat
        BY <1>0, <1>13, CountsTyped
      <3> HIDE DEF One
      <3> QED
        BY <1>2, <1>4, <2>2, <2>3, <2>4, <3>1
    <2>6. executor[x].refund \in {r, NoRefund} /\ Idle.refund \in {r, NoRefund}
      BY <1>1, <1>5
    <2>7. Begun' /\ PayoutsExplained'
      BY <1>0, <1>3, <1>8, <1>9, <1>11, <1>13, <2>1, <2>5, <2>6, RunProceeds
    <2> QED
      BY <1>7, <2>7 DEF MoneyKept
  <1> QED
    BY <1>12, <1>13

\* The recording is rolled back.
LEMMA MoneyOfThrow ==
  ASSUME MoneyInv, TypeOK', captures' = captures, NEW x \in Executors, RecordThrows(x)
  PROVE  MoneyKept
  <1>0. RefundsInv /\ Begun /\ Money /\ PayoutsExplained /\ Kept /\ TypeOK /\ TypeOK'
    <2>1. RefundsInv
      BY DEF MoneyInv
    <2> QED
      BY <2>1, StepOfThrow DEF MoneyInv, RefundsInv
  <1>1. PICK r : r = executor[x].refund
    OBVIOUS
  <1>2. /\ r \in RefundIds /\ refund[r] = "pending" /\ executor[x].pc = "committing"
        /\ Fail(x) /\ UNCHANGED <<rowVars, tableVars, moved, retries>> /\ faults' = faults + 1
        /\ executor \in [Executors -> Runs]
    BY <1>0, <1>1, TypesOfRefunds DEF RecordThrows, RefundsInv, RunsTell, RunTells
  <1>3. UNCHANGED <<status, payment, refund, amount, old, moved, retries>>
    BY <1>2 DEF rowVars, tableVars
  <1>4. Begun' /\ PayoutsExplained'
    <2>1. faults' >= faults /\ moved'[r] + faults <= moved[r] + faults'
      <3>1. faults \in Nat /\ moved[r] \in Nat
        BY <1>0, <1>2, CountsTyped
      <3> QED
        BY <1>2, <1>3, <3>1
    <2>2. \A q \in RefundIds : q # r => moved'[q] = moved[q] /\ refund'[q] = refund[q]
      BY <1>3
    <2>3. refund[r] # "none" /\ refund'[r] # "none"
      BY <1>2, <1>3
    <2> QED
      BY <1>0, <1>1, <1>2, <1>3, <2>1, <2>2, <2>3, MoneyOfEnd
  <1>5. PICK run \in Runs : /\ executor' = [executor EXCEPT ![x] = run]
                            /\ run.pc \in {"idle", "giving_up"}
    BY <1>0, <1>2, EndsIdle
  <1>6. \A y \in Executors : Covering(executor'[y]) =>
           Covering(executor[y]) /\ executor'[y].refund = executor[y].refund
    BY <1>2, <1>5 DEF Covering
  <1>7. Money'
    BY <1>0, <1>3, <1>6, MoneyRests
  <1> QED
    BY <1>4, <1>7 DEF MoneyKept

\* A second attempt is credited: the gateway may pay more back, and the payment reads
\* succeeded again.
LEMMA MoneyOfCapture ==
  ASSUME MoneyInv, TypeOK', NEW b \in Bookings, CaptureAgain(b)
  PROVE  MoneyKept
  <1>0. RefundsInv /\ Begun /\ Money /\ PayoutsExplained /\ TypeOK
    BY DEF MoneyInv, RefundsInv
  <1>1. /\ UNCHANGED <<status, refund, amount, old, job, executor, moved, faults, retries>>
        /\ captures' = [captures EXCEPT ![b] = @ + 1]
        /\ payment' = [payment EXCEPT ![b] = "succeeded"]
        /\ status[b] = "paid"
    BY DEF CaptureAgain, rowVars, queueVars
  <1>2. /\ captures'[b] = captures[b] + 1 /\ \A c \in Bookings : captures[c] \in Nat /\ captures[c] >= 1
        /\ payment'[b] = "succeeded"
        /\ \A c \in Bookings : c # b => captures'[c] = captures[c] /\ payment'[c] = payment[c]
    <2>1. captures \in [Bookings -> 1 .. MaxCaptures] /\ payment = [c \in Bookings |-> payment[c]]
      BY <1>0 DEF TypeOK
    <2> QED
      BY <1>1, <2>1, RefundsAssumption
  <1>3. Begun'
    BY <1>0, <1>1 DEF Begun, RowBegins, RunBegins
  <1>4. PayoutsExplained'
    <2>1. \A r \in RefundIds : Ahead(r)' = Ahead(r) /\ (Startable(r)' <=> Startable(r))
      BY <1>1 DEF Ahead, Startable
    <2>2. \A r \in RefundIds : One(Startable(r))' = One(Startable(r))
      BY <2>1 DEF One
    <2> QED
      BY <1>0, <1>1, <2>1, <2>2 DEF PayoutsExplained, Explained
  <1>5. \A c \in Bookings : SucceededRows(c)' = SucceededRows(c) /\ PaidOut(c)' = PaidOut(c)
    BY <1>1 DEF SucceededRows, Rows, PaidOut
  <1>6. RollupIsSupported'
    <2>1. ASSUME NEW c \in Bookings
          PROVE  /\ "refunded" \in {payment'[c], status'[c]} => AmountOf(SucceededRows(c))' >= Total
                 /\ SucceededRows(c)' = {} => payment'[c] = "succeeded"
                 /\ captures'[c] = 1 =>
                       /\ status'[c] = "refunded" => payment'[c] = "refunded"
                       /\ payment'[c] = "succeeded" => SucceededRows(c)' = {}
      <3>1. CASE c = b
        BY <1>1, <1>2, <3>1
      <3>2. CASE c # b
        BY <1>0, <1>1, <1>2, <1>5, <3>2 DEF Money, RollupIsSupported, AmountOf
      <3> QED
        BY <3>1, <3>2
    <2> QED
      BY <2>1 DEF RollupIsSupported
  <1>7. ASSUME NEW c \in Bookings PROVE PaidOut(c)' <= captures'[c] * Total
    <2>1. PaidOut(c) <= captures[c] * Total /\ captures[c] \in Nat /\ Total \in Nat
      BY <1>0, <1>2, RefundsAssumption DEF Money
    <2>2. PaidOut(c) \in Nat
      <3> DEFINE f == [q \in RefundIds |-> moved[q] * amount[q]]
      <3>1. ASSUME NEW q \in Rows(c) PROVE f[q] \in Nat
        <4>1. amount \in [RefundIds -> 0 .. Total] /\ moved \in [RefundIds -> Nat]
          BY <1>0 DEF TypeOK
        <4>2. amount[q] \in Nat /\ moved[q] \in Nat /\ q \in RefundIds
          BY <4>1, RefundsAssumption DEF Rows
        <4> QED
          BY <4>2
      <3> HIDE DEF f
      <3>2. SumFunctionOnSet(f, Rows(c)) \in Nat
        BY <3>1, RowsFinite, SumType
      <3> QED
        BY <3>2 DEF PaidOut, f
    <2>3. CASE c # b
      BY <1>2, <1>5, <2>1, <2>3
    <2>4. CASE c = b
      <3>1. (captures[c] + 1) * Total = captures[c] * Total + Total /\ captures[c] * Total \in Nat
        BY <2>1
      <3> QED
        BY <1>2, <1>5, <2>1, <2>2, <2>4, <3>1
    <2> QED
      BY <2>3, <2>4
  <1>8. ASSUME NEW x \in Executors, Covering(executor[x])' PROVE Covers(executor[x].refund)'
    BY <1>0, <1>1, <1>8 DEF Money, Covering, Covers, AmountOf, SucceededRows, Rows
  <1>9. Money'
    BY <1>6, <1>7, <1>8 DEF Money
  <1> QED
    BY <1>3, <1>4, <1>9 DEF MoneyKept

-----------------------------------------------------------------------------

LEMMA MoneyInit == Init => MoneyInv
  <1> SUFFICES ASSUME Init PROVE MoneyInv
    OBVIOUS
  <1>1. RefundsInv
    BY InitIsGood
  <1>2. /\ \A x \in Executors : executor[x] = Idle
        /\ \A r \in RefundIds : /\ refund[r] = "none" /\ job[r] = "none" /\ old[r] = FALSE
                                /\ moved[r] = 0 /\ amount[r] = 0
        /\ \A b \in Bookings : payment[b] = "succeeded" /\ status[b] = "paid" /\ captures[b] = 1
        /\ faults = 0 /\ retries = 0
        /\ Idle.pc = "idle" /\ Idle.refund = NoRefund /\ Idle.holdsJob = FALSE
        /\ NoRefund \notin RefundIds /\ Total \in Nat
    BY RefundsAssumption DEF Init, Idle
  <1>3. Begun
    BY <1>2 DEF Begun, RowBegins, RunBegins, Executes
  <1>4. ASSUME NEW b \in Bookings PROVE PaidOut(b) <= captures[b] * Total
    <2> DEFINE f == [r \in RefundIds |-> moved[r] * amount[r]]
    <2>1. \A r \in Rows(b) : f[r] = 0
      BY <1>2 DEF Rows
    <2> HIDE DEF f
    <2>2. SumFunctionOnSet(f, Rows(b)) = 0
      BY <2>1, RowsFinite, SumZero
    <2> QED
      BY <1>2, <2>2 DEF PaidOut, f
  <1>5. RollupIsSupported
    BY <1>2 DEF RollupIsSupported, SucceededRows, Rows
  <1>6. Money
    BY <1>2, <1>4, <1>5 DEF Money, Covering
  <1>7. ASSUME NEW r \in RefundIds PROVE Explained(r)
    <2>1. Ahead(r) = {}
      BY <1>2 DEF Ahead, Calls
    <2>2. One(Startable(r)) = 0
      BY <1>2 DEF One, Startable
    <2> QED
      BY <1>2, <2>1, <2>2, FS_EmptySet DEF Explained
  <1> QED
    BY <1>1, <1>3, <1>6, <1>7 DEF MoneyInv, PayoutsExplained

LEMMA MoneyStep ==
  ASSUME MoneyInv, [Next]_vars
  PROVE  MoneyInv'
  <1>0. RefundsInv /\ RefundsInv' /\ TypeOK'
    <2>1. RefundsInv
      BY DEF MoneyInv
    <2> QED
      BY <2>1, StepKeeps DEF RefundsInv
  <1>1. CASE \E b \in Bookings : CaptureAgain(b)
    <2>1. MoneyKept
      BY <1>0, <1>1, MoneyOfCapture
    <2> QED
      BY <1>0, <2>1 DEF MoneyInv, MoneyKept
  <1>2. CASE Next /\ ~ \E b \in Bookings : CaptureAgain(b)
    <2>1. captures' = captures
      BY <1>2, CreditsStep DEF creditVars
    <2>2. MoneyKept
      BY <1>0, <1>2, <2>1, MoneyOfBookings, MoneyOfRows, MoneyOfAdmins, MoneyOfQueue, MoneyOfRun,
         MoneyOfRecord, MoneyOfOver
         DEF Next, Pipeline, Step
    <2> QED
      BY <1>0, <2>2 DEF MoneyInv, MoneyKept
  <1>3. CASE UNCHANGED vars
    <2>1. UNCHANGED <<status, payment, refund, amount, old, job, executor, captures, moved,
                      retries, faults>>
      BY <1>3 DEF vars, tableVars, queueVars, rowVars, creditVars
    <2>2. Begun'
      BY <2>1 DEF MoneyInv, Begun, RowBegins, RunBegins
    <2>3. Money'
      <3>1. \A b \in Bookings : SucceededRows(b)' = SucceededRows(b) /\ PaidOut(b)' = PaidOut(b)
        BY <2>1 DEF SucceededRows, Rows, PaidOut
      <3>2. RollupIsSupported'
        BY <2>1, <3>1 DEF MoneyInv, Money, RollupIsSupported, AmountOf
      <3>3. ASSUME NEW x \in Executors, Covering(executor[x])' PROVE Covers(executor[x].refund)'
        BY <2>1, <3>3 DEF MoneyInv, Money, Covering, Covers, AmountOf, SucceededRows, Rows
      <3>4. \A b \in Bookings : PaidOut(b)' <= captures'[b] * Total
        BY <2>1, <3>1 DEF MoneyInv, Money
      <3> QED
        BY <3>2, <3>3, <3>4 DEF Money
    <2>4. PayoutsExplained'
      <3>1. \A r \in RefundIds : Ahead(r)' = Ahead(r) /\ (Startable(r)' <=> Startable(r))
        BY <2>1 DEF Ahead, Startable
      <3>2. \A r \in RefundIds : One(Startable(r))' = One(Startable(r))
        BY <3>1 DEF One
      <3> QED
        BY <2>1, <3>1, <3>2 DEF MoneyInv, PayoutsExplained, Explained
    <2> QED
      BY <1>0, <2>2, <2>3, <2>4 DEF MoneyInv
  <1> QED
    BY <1>1, <1>2, <1>3

LEMMA MoneyInductive == Spec => []MoneyInv
  <1>1. MoneyInv /\ [Next]_vars => MoneyInv'
    BY MoneyStep
  <1> QED
    BY <1>1, MoneyInit, PTL DEF Spec

\* The rollup each recording transaction computes from the rows it can see, while others
\* record refunds of the same payment, never claims more than the rows support.  Where the
\* gateway captured the payment once it is never undone either: a later recording cannot
\* see less, because no more is paid out than was captured.
THEOREM RollupsAreSupported == Spec => []RollupIsSupported
  <1>1. MoneyInv => RollupIsSupported
    BY DEF MoneyInv, Money
  <1> QED
    BY <1>1, MoneyInductive, PTL

LEMMA MoneyExplains ==
  ASSUME MoneyInv
  PROVE  PayoutsHaveACause
  <1> SUFFICES ASSUME NEW r \in RefundIds PROVE moved[r] <= 1 + faults + retries
    BY DEF PayoutsHaveACause
  <1>1. TypeOK /\ Explained(r)
    BY DEF MoneyInv, RefundsInv, PayoutsExplained
  <1>2. moved \in [RefundIds -> Nat] /\ retries \in 0 .. MaxRetries /\ faults \in Nat
    BY <1>1 DEF TypeOK
  <1>3. Cardinality(Ahead(r)) \in Nat /\ One(Startable(r)) \in {0, 1}
    BY <1>1, FS_CardinalityType DEF Explained, One
  <1>4. moved[r] + Cardinality(Ahead(r)) + One(Startable(r)) <= 1 + faults + retries
    BY <1>1 DEF Explained
  <1> HIDE DEF One
  <1> QED
    BY <1>2, <1>3, <1>4, RefundsAssumption

\* A refund is paid out once, and once more for each crash, stall, lost answer or admin's
\* retry: the calls ahead of it, with the job or the sweep that may start another, never
\* exceed what those events allow.
THEOREM PayoutsAreCaused == Spec => []PayoutsHaveACause
  <1>1. MoneyInv => PayoutsHaveACause
    BY MoneyExplains
  <1> QED
    BY <1>1, MoneyInductive, PTL

-----------------------------------------------------------------------------
(* The booking a covering refund closes. *)

\* A recording that covers the payment of a cancelled or failed booking has seen it so,
\* or was overtaken.
ClosingInv ==
    \A b \in Bookings :
        /\ payment[b] = "refunded" /\ Closable(b) => overtaken[b]
        /\ \A x \in Executors :
              Covering(executor[x]) /\ BookingOf[executor[x].refund] = b /\ Closable(b)
              => executor[x].closable \/ overtaken[b]

\* A step that leaves the booking, the payment and the covering recordings alone.
LEMMA ClosingRests ==
  ASSUME ClosingInv, UNCHANGED <<status, payment, overtaken>>,
         \A y \in Executors : Covering(executor'[y]) =>
             /\ Covering(executor[y]) /\ executor'[y].refund = executor[y].refund
             /\ executor'[y].closable = executor[y].closable
  PROVE  ClosingInv'
  <1>1. ASSUME NEW b \in Bookings
        PROVE  /\ payment'[b] = "refunded" /\ Closable(b)' => overtaken'[b]
               /\ \A x \in Executors :
                     Covering(executor[x])' /\ BookingOf[executor'[x].refund] = b /\ Closable(b)'
                     => executor'[x].closable \/ overtaken'[b]
    BY DEF ClosingInv, Closable, Covering
  <1> QED
    BY <1>1 DEF ClosingInv

\* The booking of b changes, and is overtaken if it can be closed from now on.
LEMMA ClosingMoves ==
  ASSUME RefundsInv, ClosingInv, NEW b \in Bookings,
         FailOrder(b) \/ CancelBooking(b) \/ ConfirmOrder(b) \/ CaptureAgain(b)
  PROVE  ClosingInv'
  <1>1. /\ executor' = executor /\ status = [c \in Bookings |-> status[c]]
        /\ payment = [c \in Bookings |-> payment[c]] /\ overtaken = [c \in Bookings |-> overtaken[c]]
    BY DEF RefundsInv, TypeOK, FailOrder, CancelBooking, ConfirmOrder, CaptureAgain
  <1>2. CASE FailOrder(b) \/ CancelBooking(b)
    <2>1. Overtake(b) /\ payment' = payment
      BY <1>2 DEF FailOrder, CancelBooking, InsertPending, tableVars
    <2>2. \A c \in Bookings : c # b => status'[c] = status[c] /\ overtaken'[c] = overtaken[c]
      BY <1>1, <1>2, <2>1 DEF FailOrder, CancelBooking, TransitionTo, rowVars, Overtake
    <2>3. /\ payment[b] = "refunded" => overtaken'[b]
          /\ \A x \in Executors : Covering(executor[x]) /\ BookingOf[executor[x].refund] = b => overtaken'[b]
      BY <1>1, <2>1 DEF Overtake, Covering
    <2>4. ASSUME NEW c \in Bookings
          PROVE  /\ payment'[c] = "refunded" /\ Closable(c)' => overtaken'[c]
                 /\ \A x \in Executors :
                       Covering(executor[x])' /\ BookingOf[executor'[x].refund] = c /\ Closable(c)'
                       => executor'[x].closable \/ overtaken'[c]
      BY <1>1, <2>1, <2>2, <2>3 DEF ClosingInv, Closable, Covering
    <2> QED
      BY <2>4 DEF ClosingInv
  <1>3. CASE ConfirmOrder(b) \/ CaptureAgain(b)
    <2>1. /\ overtaken' = overtaken /\ ~ Closable(b)'
          /\ \A c \in Bookings : c # b => status'[c] = status[c] /\ payment'[c] = payment[c]
      BY <1>1, <1>3 DEF ConfirmOrder, CaptureAgain, TransitionTo, rowVars, tableVars, creditVars, Closable
    <2>2. ASSUME NEW c \in Bookings
          PROVE  /\ payment'[c] = "refunded" /\ Closable(c)' => overtaken'[c]
                 /\ \A x \in Executors :
                       Covering(executor[x])' /\ BookingOf[executor'[x].refund] = c /\ Closable(c)'
                       => executor'[x].closable \/ overtaken'[c]
      <3>1. CASE c = b
        BY <2>1, <3>1
      <3>2. CASE c # b
        BY <1>1, <2>1, <3>2 DEF ClosingInv, Closable, Covering
      <3> QED
        BY <3>1, <3>2
    <2> QED
      BY <2>2 DEF ClosingInv
  <1> QED
    BY <1>2, <1>3

LEMMA ClosingRecords ==
  ASSUME RefundsInv, ClosingInv, NEW x \in Executors, OpenRecord(x) \/ CommitRecord(x)
  PROVE  ClosingInv'
  <1>1. PICK r, b : r = executor[x].refund /\ b = BookingOf[r]
    OBVIOUS
  <1>2. /\ executor \in [Executors -> Runs] /\ RunTells(executor[x]) /\ r \in RefundIds /\ b \in Bookings
        /\ status = [c \in Bookings |-> status[c]] /\ payment = [c \in Bookings |-> payment[c]]
        /\ overtaken' = overtaken
    <2>1. executor \in [Executors -> Runs] /\ RunTells(executor[x])
      BY TypesOfRefunds DEF RefundsInv, RunsTell
    <2>2. r \in RefundIds /\ overtaken' = overtaken
      BY <1>1, <2>1 DEF OpenRecord, CommitRecord, RunTells, creditVars
    <2> QED
      BY <1>1, <2>1, <2>2, BookingOfRow DEF RefundsInv, TypeOK
  <1>3. \E run : /\ executor' = [executor EXCEPT ![x] = run]
                 /\ Covering(run) => run.refund = r /\ run.closable = Closable(b)
    <2>1. CASE executor' = [executor EXCEPT ![x] = Idle]
      BY <2>1, IdleIsRun DEF Covering
    <2>2. CASE executor' = [executor EXCEPT ![x].pc = "committing", ![x].covered = Covers(r),
                                            ![x].closable = Closable(b)]
      <3>1. PICK run : run = [executor[x] EXCEPT !.pc = "committing", !.covered = Covers(r),
                                                 !.closable = Closable(b)]
        OBVIOUS
      <3>2. run.refund = r /\ run.closable = Closable(b)
        BY <1>1, <1>2, <3>1 DEF Runs
      <3>3. executor' = [executor EXCEPT ![x] = run]
        BY <1>2, <2>2, <3>1 DEF Runs
      <3> QED
        BY <3>2, <3>3
    <2> QED
      BY <1>1, <2>1, <2>2 DEF OpenRecord, CommitRecord, Finish
  <1>4. PICK run : /\ executor' = [executor EXCEPT ![x] = run]
                   /\ Covering(run) => run.refund = r /\ run.closable = Closable(b)
    BY <1>3
  <1>5. /\ executor'[x] = run /\ \A y \in Executors : y # x => executor'[y] = executor[y]
        /\ Covering(executor'[x]) => executor'[x].refund = r /\ executor'[x].closable = Closable(b)
    <2>1. executor \in [Executors -> Runs]
      BY <1>2
    <2>2. executor'[x] = run /\ \A y \in Executors : y # x => executor'[y] = executor[y]
      BY <1>4, <2>1
    <2> QED
      BY <1>4, <2>2
  <1>6. CASE OpenRecord(x)
    <2>1. UNCHANGED <<status, payment>>
      BY <1>6 DEF OpenRecord, rowVars, tableVars
    <2>2. ASSUME NEW c \in Bookings
          PROVE  /\ payment'[c] = "refunded" /\ Closable(c)' => overtaken'[c]
                 /\ \A y \in Executors :
                       Covering(executor[y])' /\ BookingOf[executor'[y].refund] = c /\ Closable(c)'
                       => executor'[y].closable \/ overtaken'[c]
      <3>1. Closable(c)' = Closable(c) /\ payment'[c] = payment[c] /\ overtaken'[c] = overtaken[c]
        BY <1>2, <2>1 DEF Closable
      <3>2. ASSUME NEW y \in Executors, Covering(executor'[y]), BookingOf[executor'[y].refund] = c,
                   Closable(c)
            PROVE  executor'[y].closable \/ overtaken[c]
        <4>1. CASE y = x
          BY <1>1, <1>5, <3>2, <4>1
        <4>2. CASE y # x
          BY <1>5, <3>2, <4>2 DEF ClosingInv
        <4> QED
          BY <4>1, <4>2
      <3>3. payment[c] = "refunded" /\ Closable(c) => overtaken[c]
        BY DEF ClosingInv
      <3> QED
        BY <3>1, <3>2, <3>3 DEF Covering
    <2> QED
      BY <2>2 DEF ClosingInv
  <1>7. CASE CommitRecord(x)
    <2>1. /\ payment' = [payment EXCEPT ![b] = IF executor[x].covered THEN "refunded"
                                                                    ELSE "partially_refunded"]
          /\ executor[x].pc = "committing" /\ executor' = [executor EXCEPT ![x] = Idle]
      BY <1>1, <1>7 DEF CommitRecord, Finish
    <2>2. /\ ~ Covering(executor'[x])
          /\ payment'[b] = "refunded" => Covering(executor[x])
          /\ \A c \in Bookings : c # b => payment'[c] = payment[c]
      BY <1>2, <2>1, IdleIsRun DEF Covering
    <2>3. /\ \A c \in Bookings : c # b => status'[c] = status[c]
          /\ status'[b] = status[b] \/ status'[b] = "refunded"
          /\ executor[x].covered /\ executor[x].closable => status'[b] = "refunded"
      <3>1. TransitionTo(b, "refunded") \/ (UNCHANGED rowVars /\ ~ (executor[x].covered /\ executor[x].closable))
        BY <1>1, <1>7 DEF CommitRecord
      <3> QED
        BY <1>2, <3>1 DEF TransitionTo, rowVars
    <2>4. ASSUME NEW c \in Bookings
          PROVE  /\ payment'[c] = "refunded" /\ Closable(c)' => overtaken'[c]
                 /\ \A y \in Executors :
                       Covering(executor[y])' /\ BookingOf[executor'[y].refund] = c /\ Closable(c)'
                       => executor'[y].closable \/ overtaken'[c]
      <3>1. Closable(c)' => Closable(c)
        BY <2>3 DEF Closable
      <3>2. ASSUME NEW y \in Executors, Covering(executor'[y]) PROVE executor'[y] = executor[y]
        BY <1>5, <2>2, <3>2
      <3>3. payment'[c] = "refunded" /\ Closable(c)' => overtaken'[c]
        <4>1. CASE c = b
          <5>1. Covering(executor[x]) /\ Closable(b) => executor[x].closable \/ overtaken[b]
            BY <1>1, <1>2 DEF ClosingInv
          <5>2. Closable(b)' => ~ (executor[x].covered /\ executor[x].closable)
            BY <2>3 DEF Closable
          <5> QED
            BY <1>2, <2>2, <3>1, <4>1, <5>1, <5>2 DEF Covering
        <4>2. CASE c # b
          BY <1>2, <2>2, <3>1, <4>2 DEF ClosingInv
        <4> QED
          BY <4>1, <4>2
      <3>4. ASSUME NEW y \in Executors, Covering(executor'[y]), BookingOf[executor'[y].refund] = c, Closable(c)'
            PROVE  executor'[y].closable \/ overtaken'[c]
        BY <1>2, <3>1, <3>2, <3>4 DEF ClosingInv
      <3> QED
        BY <3>3, <3>4 DEF Covering
    <2> QED
      BY <2>4 DEF ClosingInv
  <1> QED
    BY <1>6, <1>7

LEMMA ClosingStep ==
  ASSUME RefundsInv, ClosingInv, [Next]_vars
  PROVE  ClosingInv'
  <1>1. executor \in [Executors -> Runs] /\ TypeOK
    BY TypesOfRefunds DEF RefundsInv
  <1>2. CASE \E b \in Bookings : FailOrder(b) \/ CancelBooking(b) \/ ConfirmOrder(b) \/ CaptureAgain(b)
    BY <1>2, ClosingMoves
  <1>3. CASE \E x \in Executors : OpenRecord(x) \/ CommitRecord(x)
    BY <1>3, ClosingRecords
  <1>4. ASSUME NEW x \in Executors, NEW run \in Runs, executor' = [executor EXCEPT ![x] = run],
               UNCHANGED <<status, payment, overtaken>>, ~ Covering(run)
        PROVE  ClosingInv'
    <2>1. executor'[x] = run /\ \A y \in Executors : y # x => executor'[y] = executor[y]
      BY <1>1, <1>4
    <2>2. \A y \in Executors : Covering(executor'[y]) => executor'[y] = executor[y]
      BY <1>4, <2>1
    <2> QED
      BY <1>4, <2>2, ClosingRests
  <1>5. ASSUME NEW x \in Executors, Finish(x) \/ Fail(x), UNCHANGED <<status, payment, overtaken>>
        PROVE  ClosingInv'
    BY <1>1, <1>4, <1>5, EndsIdle DEF Covering
  <1>6. ASSUME NEW x \in Executors,
               LoadRefund(x) \/ CallGateway(x) \/ GiveUp(x) \/ Dies(x)
        PROVE  ClosingInv'
    <2>1. UNCHANGED <<status, payment, overtaken>>
      BY <1>6 DEF LoadRefund, CallGateway, GiveUp, Dies, rowVars, tableVars, creditVars
    <2>2. \/ Finish(x) \/ Fail(x) \/ executor' = [executor EXCEPT ![x] = Idle]
          \/ \E pc \in {"calling", "recording"} : executor' = [executor EXCEPT ![x].pc = pc]
      BY <1>6 DEF LoadRefund, CallGateway, GiveUp, Dies
    <2>3. CASE executor' = [executor EXCEPT ![x] = Idle]
      BY <1>4, <2>1, <2>3, IdleIsRun DEF Covering
    <2>4. ASSUME NEW pc \in {"calling", "recording"}, executor' = [executor EXCEPT ![x].pc = pc]
          PROVE  ClosingInv'
      <3>1. PICK run : run = [executor[x] EXCEPT !.pc = pc]
        OBVIOUS
      <3>2. run \in Runs /\ ~ Covering(run) /\ executor' = [executor EXCEPT ![x] = run]
        BY <1>1, <2>4, <3>1 DEF Runs, RunPCs, Covering
      <3> QED
        BY <1>4, <2>1, <3>2
    <2> QED
      BY <1>5, <2>1, <2>2, <2>3, <2>4
  <1>7. ASSUME NEW a \in Admins, AdminInserts(a) \/ \E b \in Bookings, n \in 1 .. Total : AdminChecks(a, b, n)
        PROVE  ClosingInv'
    <2>1. UNCHANGED <<status, payment, overtaken>> /\ a \in Executors
      BY <1>7 DEF AdminInserts, AdminChecks, InsertPending, rowVars, tableVars, creditVars, Executors
    <2>2. \E run : executor' = [executor EXCEPT ![a] = run] /\ ~ Covering(run)
      <3>1. CASE AdminInserts(a)
        <4>1. PICK run : run = [executor[a] EXCEPT !.pc = "loading"]
          OBVIOUS
        <4>2. executor' = [executor EXCEPT ![a] = run] /\ run.pc = "loading"
          BY <1>1, <2>1, <3>1, <4>1 DEF AdminInserts, Runs
        <4> QED
          BY <4>2 DEF Covering
      <3>2. ASSUME NEW b \in Bookings, NEW n \in 1 .. Total, AdminChecks(a, b, n)
            PROVE  \E run : executor' = [executor EXCEPT ![a] = run] /\ ~ Covering(run)
        <4>1. PICK r : executor' = [executor EXCEPT ![a] = [Idle EXCEPT !.pc = "inserting", !.refund = r, !.amount = n]]
          BY <3>2 DEF AdminChecks
        <4>2. [Idle EXCEPT !.pc = "inserting", !.refund = r, !.amount = n].pc = "inserting"
          BY DEF Idle
        <4> QED
          BY <4>1, <4>2 DEF Covering
      <3> QED
        BY <1>7, <3>1, <3>2
    <2>3. PICK run : executor' = [executor EXCEPT ![a] = run] /\ ~ Covering(run)
      BY <2>2
    <2>4. executor'[a] = run /\ \A y \in Executors : y # a => executor'[y] = executor[y]
      BY <1>1, <2>1, <2>3
    <2>5. \A y \in Executors : Covering(executor'[y]) => executor'[y] = executor[y]
      BY <2>3, <2>4
    <2> QED
      BY <2>1, <2>5, ClosingRests
  <1>8. ASSUME NEW r \in RefundIds, RetryRefund(r) \/ GrowsOld(r) \/ Requeue(r)
        PROVE  ClosingInv'
    BY <1>8, ClosingRests DEF RetryRefund, GrowsOld, Requeue, rowVars, tableVars, creditVars
  <1>9. ASSUME NEW w \in Workers, Stalls(w) \/ \E r \in RefundIds : TakeJob(w, r)
        PROVE  ClosingInv'
    <2>1. UNCHANGED <<status, payment, overtaken>> /\ w \in Executors
      BY <1>9 DEF Stalls, TakeJob, rowVars, tableVars, creditVars, Executors
    <2>2. CASE Stalls(w)
      <3>1. PICK run : run = [executor[w] EXCEPT !.holdsJob = FALSE]
        OBVIOUS
      <3>2. /\ run.pc = executor[w].pc /\ run.covered = executor[w].covered
            /\ run.refund = executor[w].refund /\ run.closable = executor[w].closable
        BY <1>1, <2>1, <3>1 DEF Runs
      <3>3. executor'[w] = run /\ \A y \in Executors : y # w => executor'[y] = executor[y]
        BY <1>1, <2>1, <2>2, <3>1 DEF Stalls, Runs
      <3>4. \A y \in Executors : Covering(executor'[y]) =>
               /\ Covering(executor[y]) /\ executor'[y].refund = executor[y].refund
               /\ executor'[y].closable = executor[y].closable
        BY <3>2, <3>3 DEF Covering
      <3> QED
        BY <2>1, <3>4, ClosingRests
    <2>3. ASSUME NEW r \in RefundIds, TakeJob(w, r) PROVE ClosingInv'
      <3>1. PICK run : run = [Idle EXCEPT !.pc = "loading", !.refund = r, !.holdsJob = TRUE]
        OBVIOUS
      <3>2. run.pc = "loading" /\ executor' = [executor EXCEPT ![w] = run]
        BY <2>3, <3>1 DEF TakeJob, Idle
      <3>3. executor'[w] = run /\ \A y \in Executors : y # w => executor'[y] = executor[y]
        BY <1>1, <2>1, <3>2
      <3>4. \A y \in Executors : Covering(executor'[y]) => executor'[y] = executor[y]
        BY <3>2, <3>3 DEF Covering
      <3> QED
        BY <2>1, <3>4, ClosingRests
    <2> QED
      BY <1>9, <2>2, <2>3
  <1>10. CASE UNCHANGED vars
    BY <1>10, ClosingRests DEF vars, rowVars, tableVars, creditVars
  <1> QED
    BY <1>2, <1>3, <1>6, <1>7, <1>8, <1>9, <1>10 DEF Next, Pipeline, Step

\* The recording reads the booking without a lock, but before it commits: a booking that
\* was cancelled or failed by then is closed with it, whichever of the refunds of its
\* payment is the last to be recorded, and only one that comes later stays open.
THEOREM CoveredBookingsAreClosed == Spec => []CoveredBookingIsClosed
  <1>1. Init => ClosingInv
    <2> SUFFICES ASSUME Init PROVE ClosingInv
      OBVIOUS
    <2>1. \A b \in Bookings : payment[b] = "succeeded"
      BY DEF Init
    <2>2. \A x \in Executors : executor[x].pc = "idle"
      BY DEF Init, Idle
    <2> QED
      BY <2>1, <2>2 DEF ClosingInv, Covering
  <1>2. RefundsInv /\ ClosingInv /\ [Next]_vars => ClosingInv'
    BY ClosingStep
  <1>3. ClosingInv => CoveredBookingIsClosed
    BY DEF ClosingInv, CoveredBookingIsClosed, Closable
  <1> QED
    BY <1>1, <1>2, <1>3, Inductive, PTL DEF Spec

-----------------------------------------------------------------------------
(* Cancelling. *)

PageRecords ==
    [pc : {"closed", "quoting", "ready", "saving", "checking", "calling", "reading", "committing"},
     booking : Bookings \union {"none"}, refund : 0 .. Total, payable : BOOLEAN]

\* A page whose request had Duffel cancel the order.
HasCancelled(pg) == pg.pc \in {"reading", "committing"}

RefundRows(b) == {r \in Rows(b) : refund[r] # "none"}

HistoryFits(b) ==
    /\ status[b] = "cancelled" => EverWas(b, "cancelled")
    /\ EverWas(b, "confirmed") => status[b] \in {"confirmed", "cancelled", "refunded"}

OrderFits(b) ==
    /\ supplier[b] = "live" => ~ EverWas(b, "cancelled")
    /\ supplierMoney[b] \in 0 .. Total - Markup

\* What a page knows: a request that had the order cancelled is the only one, holds
\* what Duffel paid back for it and meets a booking that never was cancelled; an
\* admin's that wants no refund has seen the payment covered.
PageFits(x, pg) ==
    /\ pg.pc # "closed" => pg.booking \in Bookings /\ EverWas(pg.booking, "confirmed")
    /\ HasCancelled(pg) => /\ supplier[pg.booking] = "cancelled"
                           /\ supplierMoney[pg.booking] = pg.refund
                           /\ ~ EverWas(pg.booking, "cancelled")
    /\ pg.pc = "committing" /\ x \in AdminPages /\ ~ pg.payable =>
          AmountOf(RefundRows(pg.booking)) >= Total

OnePage ==
    \A x, y \in Pages :
        HasCancelled(page[x]) /\ HasCancelled(page[y]) /\ page[x].booking = page[y].booking => x = y

\* An order that was cancelled at Duffel for a booking that never was has a cause.
HasCause(b) ==
    ~ EverWas(b, "cancelled") /\ supplier[b] = "cancelled" =>
        \/ \E x \in Pages : HasCancelled(page[x]) /\ page[x].booking = b
        \/ pageFaults > 0
        \/ RefundRows(b) # {}

BookingFits(b) == HistoryFits(b) /\ OrderFits(b) /\ HasCause(b)

PagesInv ==
    /\ PagesOK
    /\ \A b \in Bookings : BookingFits(b)
    /\ \A x \in Pages : PageFits(x, page[x])
    /\ OnePage
    /\ SupplierRefundBookedOnce
    /\ CustomerMadeWhole

CancelInv == MoneyInv /\ PagesInv

LEMMA PageTypes ==
  ASSUME PagesOK
  PROVE  /\ page \in [Pages -> PageRecords]
         /\ supplier \in [Bookings -> {"live", "cancelled"}]
         /\ supplierMoney \in [Bookings -> 0 .. Total]
         /\ supplierLedger \in [Bookings -> 0 .. Total]
  BY DEF PagesOK, PageRecords

LEMMA ClosedIsPage == Closed \in PageRecords /\ Closed.pc = "closed" /\ Closed.payable = FALSE
  <1>1. 0 \in 0 .. Total
    BY RefundsAssumption
  <1> QED
    BY <1>1 DEF Closed, PageRecords

-----------------------------------------------------------------------------
(* Histories. *)

LEMMA EverWasAfter ==
  ASSUME history \in [Bookings -> Seq(HistoryRows)], status \in [Bookings -> BookingStatus],
         NEW b \in Bookings, NEW to \in BookingStatus, TransitionTo(b, to)
  PROVE  /\ \A c \in Bookings, s \in BookingStatus : EverWas(c, s) => EverWas(c, s)'
         /\ \A c \in Bookings, s \in BookingStatus : EverWas(c, s)' => EverWas(c, s) \/ (c = b /\ s = to)
         /\ \A c \in Bookings : c # b => status'[c] = status[c]
         /\ \/ status'[b] = status[b] /\ status[b] = to /\ UNCHANGED rowVars
            \/ /\ <<status[b], to>> \in LegalTransitions
               /\ status'[b] = to /\ EverWas(b, to)'
  <1>1. CASE UNCHANGED rowVars /\ status[b] = to
    BY <1>1 DEF rowVars, EverWas
  <1>2. CASE /\ <<status[b], to>> \in LegalTransitions
             /\ status' = [status EXCEPT ![b] = to]
             /\ history' = [history EXCEPT ![b] = Append(@, HistoryRow(status[b], to))]
    <2>1. PICK h, row : h = history[b] /\ row = HistoryRow(status[b], to)
      OBVIOUS
    <2>2. row.to = to /\ row \in HistoryRows /\ h \in Seq(HistoryRows)
      BY <2>1 DEF HistoryRow, HistoryRows
    <2>3. /\ Len(Append(h, row)) = Len(h) + 1 /\ Len(h) \in Nat
          /\ Append(h, row)[Len(h) + 1] = row
          /\ \A i \in 1 .. Len(h) : Append(h, row)[i] = h[i]
      BY <2>2
    <2>4. history'[b] = Append(h, row) /\ \A c \in Bookings : c # b => history'[c] = history[c]
      BY <1>2, <2>1
    <2>5. status'[b] = to /\ \A c \in Bookings : c # b => status'[c] = status[c]
      BY <1>2
    <2>6. ASSUME NEW c \in Bookings, c # b, NEW s PROVE EverWas(c, s)' <=> EverWas(c, s)
      BY <2>4, <2>6 DEF EverWas
    <2>7. ASSUME NEW s, EverWas(b, s) PROVE EverWas(b, s)'
      <3>1. PICK i \in 1 .. Len(h) : h[i].to = s
        BY <2>1, <2>7 DEF EverWas
      <3>2. i \in 1 .. Len(Append(h, row)) /\ Append(h, row)[i].to = s
        BY <2>3, <3>1
      <3> QED
        BY <2>4, <3>2 DEF EverWas
    <2>8. ASSUME NEW s, EverWas(b, s)' PROVE EverWas(b, s) \/ s = to
      <3>1. PICK i \in 1 .. Len(Append(h, row)) : Append(h, row)[i].to = s
        BY <2>4, <2>8 DEF EverWas
      <3>2. i \in 1 .. Len(h) \/ i = Len(h) + 1
        BY <2>3
      <3> QED
        BY <2>1, <2>2, <2>3, <3>1, <3>2 DEF EverWas
    <2>9. EverWas(b, to)'
      <3>1. Len(h) + 1 \in 1 .. Len(Append(h, row)) /\ Append(h, row)[Len(h) + 1].to = to
        BY <2>2, <2>3
      <3> QED
        BY <2>4, <3>1 DEF EverWas
    <2>10. <<status[b], to>> \in LegalTransitions
      BY <1>2
    <2> QED
      BY <2>5, <2>6, <2>7, <2>8, <2>9, <2>10
  <1> QED
    BY <1>1, <1>2 DEF TransitionTo

-----------------------------------------------------------------------------
(* The refund rows of a booking only grow, and so does their sum. *)

LEMMA RowsGrow ==
  ASSUME TypeOK, TypeOK', \A r \in RefundIds : RowForward(r), NEW b \in Bookings
  PROVE  /\ RefundRows(b) \subseteq RefundRows(b)'
         /\ AmountOf(RefundRows(b))' \in Nat /\ AmountOf(RefundRows(b)) \in Nat
         /\ AmountOf(RefundRows(b))' >= AmountOf(RefundRows(b))
  <1>1. \A r \in RefundIds : amount[r] \in Nat /\ amount'[r] \in Nat
    <2>1. amount \in [RefundIds -> 0 .. Total] /\ amount' \in [RefundIds -> 0 .. Total]
      BY DEF TypeOK
    <2> QED
      BY <2>1, RefundsAssumption
  <1>2. PICK S, T : S = RefundRows(b) /\ T = RefundRows(b)'
    OBVIOUS
  <1>3. S \in SUBSET Rows(b) /\ T \in SUBSET Rows(b) /\ S \in SUBSET T
    BY <1>2 DEF RefundRows, Rows, RowForward
  <1>4. /\ IsFiniteSet(S) /\ IsFiniteSet(T)
        /\ \A r \in T : amount[r] \in Nat /\ amount'[r] \in Nat
        /\ \A r \in S : amount'[r] = amount[r]
    BY <1>1, <1>2, <1>3, RowsFinite DEF RowForward, RefundRows, Rows
  <1>5. SumFunctionOnSet(amount', S) = SumFunctionOnSet(amount, S)
    BY <1>3, <1>4, SumSame
  <1>6. SumFunctionOnSet(amount', S) <= SumFunctionOnSet(amount', T)
    BY <1>3, <1>4, SumGrows
  <1>7. SumFunctionOnSet(amount', S) \in Nat /\ SumFunctionOnSet(amount', T) \in Nat
    BY <1>3, <1>4, SumType
  <1> QED
    BY <1>2, <1>3, <1>5, <1>6, <1>7 DEF AmountOf

\* A payment that is or whose booking is refunded has refund rows that cover it.
LEMMA RefundedIsCovered ==
  ASSUME MoneyInv, NEW b \in Bookings, "refunded" \in {payment[b], status[b]}
  PROVE  AmountOf(RefundRows(b)) >= Total
  <1>1. TypeOK /\ amount \in [RefundIds -> 0 .. Total] /\ RollupIsSupported
    BY DEF MoneyInv, RefundsInv, TypeOK, Money
  <1>2. \A r \in RefundIds : amount[r] \in Nat
    BY <1>1, RefundsAssumption
  <1>3. PICK S, T : S = SucceededRows(b) /\ T = RefundRows(b)
    OBVIOUS
  <1>4. T \in SUBSET Rows(b) /\ S \in SUBSET T
    BY <1>3 DEF SucceededRows, RefundRows
  <1>5. IsFiniteSet(S) /\ IsFiniteSet(T) /\ \A r \in T : amount[r] \in Nat
    BY <1>2, <1>4, RowsFinite DEF Rows
  <1>6. /\ SumFunctionOnSet(amount, S) <= SumFunctionOnSet(amount, T)
        /\ SumFunctionOnSet(amount, S) \in Nat /\ SumFunctionOnSet(amount, T) \in Nat
    BY <1>4, <1>5, SumGrows, SumType
  <1>7. SumFunctionOnSet(amount, S) >= Total
    BY <1>1, <1>3 DEF RollupIsSupported, AmountOf
  <1> QED
    BY <1>3, <1>6, <1>7, RefundsAssumption DEF AmountOf

LEMMA NoRowsNoAmount == ASSUME NEW S, S = {} PROVE AmountOf(S) = 0
  BY SumEmpty DEF AmountOf

-----------------------------------------------------------------------------
(* The steps of the refund pipeline. *)

\* What Pipeline does to the bookings: nothing, or a transition that does not cancel.
LEMMA PipelineMoves ==
  ASSUME MoneyInv, Pipeline
  PROVE  \/ UNCHANGED rowVars
         \/ \E b \in Bookings, to \in {"confirmed", "order_failed", "refunded"} : TransitionTo(b, to)
  <1>1. ASSUME NEW x \in Executors, Step(x)
        PROVE  UNCHANGED rowVars \/ \E b \in Bookings : TransitionTo(b, "refunded")
    <2>1. CASE CommitRecord(x)
      <3>1. RunTells(executor[x]) /\ executor[x].pc = "committing"
        BY <2>1 DEF MoneyInv, RefundsInv, RunsTell, CommitRecord
      <3>2. BookingOf[executor[x].refund] \in Bookings
        BY <3>1, BookingOfRow DEF RunTells
      <3> QED
        BY <2>1, <3>2 DEF CommitRecord
    <2> QED
      BY <1>1, <2>1 DEF Step, LoadRefund, CallGateway, OpenRecord, GiveUp
  <1>2. ASSUME NEW b \in Bookings,
               \/ ConfirmOrder(b) \/ FailOrder(b) \/ CaptureAgain(b)
               \/ \E a \in Admins, n \in 1 .. Total : AdminChecks(a, b, n)
        PROVE  UNCHANGED rowVars \/ \E to \in {"confirmed", "order_failed", "refunded"} : TransitionTo(b, to)
    BY <1>2 DEF ConfirmOrder, FailOrder, CaptureAgain, AdminChecks
  <1>3. ASSUME \/ \E a \in Admins : AdminInserts(a)
               \/ \E r \in RefundIds : \/ RetryRefund(r) \/ GrowsOld(r) \/ Requeue(r)
                                       \/ \E w \in Workers : TakeJob(w, r)
               \/ \E x \in Executors : Dies(x)
               \/ \E w \in Workers : Stalls(w)
        PROVE  UNCHANGED rowVars
    BY <1>3 DEF AdminInserts, RetryRefund, GrowsOld, Requeue, TakeJob, Dies, Stalls
  <1> QED
    BY <1>1, <1>2, <1>3 DEF Pipeline

LEMMA StepOfPipeline ==
  ASSUME CancelInv, Pipeline, UNCHANGED pageVars
  PROVE  CancelInv'
  <1>0. MoneyInv /\ MoneyInv' /\ TypeOK /\ TypeOK' /\ \A r \in RefundIds : RowForward(r)
    <2>1. MoneyInv /\ RefundsInv /\ Next
      BY DEF CancelInv, MoneyInv, Next
    <2> QED
      BY <2>1, MoneyStep, StepIsGood DEF MoneyInv, RefundsInv, Kept
  <1>1. UNCHANGED <<autoApproved, requested, supplierLedger, page, supplier, supplierMoney, pageFaults>>
    BY DEF pageVars
  <1>2. PagesInv
    BY DEF CancelInv
  <1>3. /\ history \in [Bookings -> Seq(HistoryRows)] /\ status \in [Bookings -> BookingStatus]
        /\ {"confirmed", "cancelled", "order_failed", "refunded"} \subseteq BookingStatus
    BY <1>0 DEF TypeOK, BookingStatus
  <1>4. ASSUME NEW b \in Bookings
        PROVE  /\ EverWas(b, "confirmed") => EverWas(b, "confirmed")'
               /\ EverWas(b, "cancelled")' <=> EverWas(b, "cancelled")
               /\ HistoryFits(b)'
    <2>0. HistoryFits(b)
      BY <1>2 DEF PagesInv, BookingFits
    <2>1. CASE UNCHANGED rowVars
      BY <2>0, <2>1 DEF rowVars, EverWas, HistoryFits
    <2>2. ASSUME NEW d \in Bookings, NEW to \in {"confirmed", "order_failed", "refunded"}, TransitionTo(d, to)
          PROVE  /\ EverWas(b, "confirmed") => EverWas(b, "confirmed")'
                 /\ EverWas(b, "cancelled")' <=> EverWas(b, "cancelled")
                 /\ HistoryFits(b)'
      <3>1. /\ \A c \in Bookings, s \in BookingStatus : EverWas(c, s) => EverWas(c, s)'
            /\ \A c \in Bookings, s \in BookingStatus : EverWas(c, s)' => EverWas(c, s) \/ (c = d /\ s = to)
            /\ \A c \in Bookings : c # d => status'[c] = status[c]
            /\ \/ status'[d] = status[d] /\ status[d] = to /\ UNCHANGED rowVars
               \/ /\ <<status[d], to>> \in LegalTransitions
                  /\ status'[d] = to /\ EverWas(d, to)'
        BY <1>3, <2>2, EverWasAfter
      <3>2. /\ EverWas(b, "confirmed") => EverWas(b, "confirmed")'
            /\ EverWas(b, "cancelled")' <=> EverWas(b, "cancelled")
        BY <1>3, <3>1
      <3>3. CASE b # d
        <4>1. status'[b] = status[b] /\ (EverWas(b, "confirmed")' => EverWas(b, "confirmed"))
          BY <1>3, <3>1, <3>3
        <4> QED
          BY <2>0, <3>2, <4>1 DEF HistoryFits
      <3>4. CASE b = d /\ UNCHANGED rowVars
        BY <2>1, <3>4
      <3>5. CASE b = d /\ <<status[d], to>> \in LegalTransitions /\ status'[d] = to
        <4>1. status'[b] # "cancelled"
          BY <3>5
        <4>2. EverWas(b, "confirmed")' => status'[b] \in {"confirmed", "refunded"}
          <5>1. CASE to = "order_failed"
            <6>1. status[b] = "paid"
              BY <3>5, <5>1 DEF LegalTransitions
            <6>2. ~ EverWas(b, "confirmed")
              BY <2>0, <6>1 DEF HistoryFits
            <6> QED
              BY <1>3, <3>1, <5>1, <6>2
          <5>2. CASE to # "order_failed"
            BY <3>5, <5>2
          <5> QED
            BY <5>1, <5>2
        <4> QED
          BY <3>2, <4>1, <4>2 DEF HistoryFits
      <3> QED
        BY <3>1, <3>2, <3>3, <3>4, <3>5
    <2> QED
      BY <1>0, <2>1, <2>2, PipelineMoves
  <1>5. ASSUME NEW b \in Bookings
        PROVE  /\ RefundRows(b) \subseteq RefundRows(b)'
               /\ AmountOf(RefundRows(b))' \in Nat /\ AmountOf(RefundRows(b)) \in Nat
               /\ AmountOf(RefundRows(b))' >= AmountOf(RefundRows(b))
    BY <1>0, RowsGrow
  <1>6. PagesOK'
    BY <1>1, <1>2 DEF PagesInv, PagesOK
  <1>7. ASSUME NEW b \in Bookings PROVE BookingFits(b)'
    <2>1. BookingFits(b)
      BY <1>2 DEF PagesInv
    <2>2. HistoryFits(b)' /\ (EverWas(b, "cancelled")' <=> EverWas(b, "cancelled"))
      BY <1>4
    <2>3. OrderFits(b)'
      BY <1>1, <2>1, <2>2 DEF BookingFits, OrderFits
    <2>4. HasCause(b)'
      BY <1>1, <1>5, <2>1, <2>2 DEF BookingFits, HasCause
    <2> QED
      BY <2>2, <2>3, <2>4 DEF BookingFits
  <1>8. ASSUME NEW x \in Pages PROVE PageFits(x, page[x])'
    <2>1. PICK pg \in PageRecords : pg = page[x] /\ pg = page'[x]
      BY <1>1, <1>2, PageTypes DEF PagesInv
    <2>2. PageFits(x, pg)
      BY <1>2, <2>1 DEF PagesInv
    <2>3. pg.pc # "closed" => pg.booking \in Bookings /\ EverWas(pg.booking, "confirmed")'
      BY <1>4, <2>2 DEF PageFits
    <2>4. HasCancelled(pg) => /\ supplier'[pg.booking] = "cancelled"
                              /\ supplierMoney'[pg.booking] = pg.refund
                              /\ ~ EverWas(pg.booking, "cancelled")'
      BY <1>1, <1>4, <2>2 DEF PageFits, HasCancelled
    <2>5. pg.pc = "committing" /\ x \in AdminPages /\ ~ pg.payable => AmountOf(RefundRows(pg.booking))' >= Total
      <3>1. SUFFICES ASSUME pg.pc = "committing" /\ x \in AdminPages /\ ~ pg.payable
                     PROVE  AmountOf(RefundRows(pg.booking))' >= Total
        OBVIOUS
      <3>2. AmountOf(RefundRows(pg.booking)) >= Total /\ pg.booking \in Bookings
        BY <2>2, <3>1 DEF PageFits
      <3> QED
        BY <1>5, <3>2, RefundsAssumption
    <2> QED
      BY <2>1, <2>3, <2>4, <2>5 DEF PageFits
  <1>9. OnePage'
    BY <1>1, <1>2 DEF PagesInv, OnePage
  <1>10. SupplierRefundBookedOnce'
    BY <1>1, <1>2, <1>4 DEF PagesInv, SupplierRefundBookedOnce
  <1>11. CustomerMadeWhole'
    <2>1. ASSUME NEW b \in Bookings, EverWas(b, "cancelled")'
          PROVE  AmountOf(RefundRows(b))' >= supplierMoney'[b] + Markup
      <3>1. AmountOf(RefundRows(b)) >= supplierMoney[b] + Markup
        BY <1>2, <1>4, <2>1 DEF PagesInv, CustomerMadeWhole, RefundRows
      <3>2. supplierMoney[b] \in Nat /\ Markup \in Nat /\ supplierMoney'[b] = supplierMoney[b]
        <4>1. supplierMoney[b] \in 0 .. Total
          BY <1>2, PageTypes DEF PagesInv
        <4> QED
          BY <1>1, <4>1, RefundsAssumption, CancellationAssumption
      <3> QED
        BY <1>5, <3>1, <3>2
    <2> QED
      BY <2>1 DEF CustomerMadeWhole, RefundRows
  <1> QED
    BY <1>0, <1>6, <1>7, <1>8, <1>9, <1>10, <1>11 DEF CancelInv, PagesInv

-----------------------------------------------------------------------------
(* The steps of the pages. *)

\* A page turns, and at most a fault is counted; the tables stay as they are.
LEMMA PageTurns ==
  ASSUME CancelInv, NEW x \in Pages, NEW pg \in PageRecords, page' = [page EXCEPT ![x] = pg],
         UNCHANGED <<refundVars, autoApproved, requested, supplierLedger, supplier, supplierMoney>>,
         pageFaults' \in 0 .. MaxPageFaults, pageFaults' >= pageFaults,
         pg.pc # "closed" => pg.booking \in Bookings /\ EverWas(pg.booking, "confirmed"),
         HasCancelled(pg) => /\ HasCancelled(page[x])
                             /\ pg.booking = page[x].booking /\ pg.refund = page[x].refund,
         pg.pc = "committing" /\ x \in AdminPages /\ ~ pg.payable =>
             AmountOf(RefundRows(pg.booking)) >= Total,
         HasCancelled(page[x]) /\ ~ HasCancelled(pg) =>
             pageFaults' > 0 \/ RefundRows(page[x].booking) # {}
  PROVE  CancelInv' /\ [Next \/ StaleWrite]_refundVars
  <1>0. MoneyInv /\ PagesInv /\ page \in [Pages -> PageRecords]
    BY PageTypes DEF CancelInv, PagesInv
  <1>1. page'[x] = pg /\ \A y \in Pages : y # x => page'[y] = page[y]
    BY <1>0
  <1>2. UNCHANGED <<status, history, payment, refund, amount, ledger, old, job, tries, executor,
                    moved, retries, faults>>
    BY DEF refundVars, vars, rowVars, tableVars, queueVars
  <1>3. /\ MoneyInv'
        /\ \A b \in Bookings, s \in BookingStatus : EverWas(b, s)' <=> EverWas(b, s)
        /\ \A b : RefundRows(b)' = RefundRows(b) /\ AmountOf(RefundRows(b))' = AmountOf(RefundRows(b))
    <2>1. MoneyInv'
      BY <1>0, MoneyStep DEF refundVars
    <2>2. \A b : RefundRows(b)' = RefundRows(b) /\ AmountOf(RefundRows(b))' = AmountOf(RefundRows(b))
      BY <1>2 DEF RefundRows, Rows, AmountOf
    <2>3. \A b \in Bookings, s \in BookingStatus : EverWas(b, s)' <=> EverWas(b, s)
      BY <1>2 DEF EverWas
    <2> QED
      BY <2>1, <2>2, <2>3
  <1>4. PagesOK'
    <2>1. page' \in [Pages -> PageRecords]
      BY <1>0
    <2> QED
      BY <1>0, <2>1 DEF PagesInv, PagesOK, PageRecords
  <1>5. {"confirmed", "cancelled"} \subseteq BookingStatus
    BY DEF BookingStatus
  <1>6. ASSUME NEW b \in Bookings PROVE BookingFits(b)'
    <2>1. BookingFits(b)
      BY <1>0 DEF PagesInv
    <2>2. HistoryFits(b)' /\ OrderFits(b)'
      BY <1>2, <1>3, <1>5, <2>1 DEF BookingFits, HistoryFits, OrderFits
    <2>3. HasCause(b)'
      <3>1. SUFFICES ASSUME ~ EverWas(b, "cancelled"), supplier[b] = "cancelled"
                     PROVE  \/ \E y \in Pages : HasCancelled(page'[y]) /\ page'[y].booking = b
                            \/ pageFaults' > 0
                            \/ RefundRows(b)' # {}
        BY <1>3, <1>5 DEF HasCause
      <3>2. CASE pageFaults > 0 \/ RefundRows(b) # {}
        <4>1. pageFaults \in 0 .. MaxPageFaults
          BY <1>0 DEF PagesInv, PagesOK
        <4> QED
          BY <1>3, <3>2, <4>1, CancellationAssumption
      <3>3. CASE \E y \in Pages : HasCancelled(page[y]) /\ page[y].booking = b
        <4>1. PICK y \in Pages : HasCancelled(page[y]) /\ page[y].booking = b
          BY <3>3
        <4>2. CASE y # x
          BY <1>1, <4>1, <4>2
        <4>3. CASE y = x
          BY <1>1, <1>3, <4>1, <4>3
        <4> QED
          BY <4>2, <4>3
      <3> QED
        BY <2>1, <3>1, <3>2, <3>3 DEF BookingFits, HasCause
    <2> QED
      BY <2>2, <2>3 DEF BookingFits
  <1>7. ASSUME NEW y \in Pages PROVE PageFits(y, page[y])'
    <2>1. ASSUME NEW p \in PageRecords, p = page'[y], PageFits(y, p) PROVE PageFits(y, page[y])'
      <3>1. p.pc # "closed" => p.booking \in Bookings /\ EverWas(p.booking, "confirmed")'
        BY <1>3, <1>5, <2>1 DEF PageFits
      <3>2. HasCancelled(p) => /\ supplier'[p.booking] = "cancelled"
                               /\ supplierMoney'[p.booking] = p.refund
                               /\ ~ EverWas(p.booking, "cancelled")'
        BY <1>3, <1>5, <2>1 DEF PageFits, HasCancelled
      <3>3. p.pc = "committing" /\ y \in AdminPages /\ ~ p.payable => AmountOf(RefundRows(p.booking))' >= Total
        BY <1>3, <2>1 DEF PageFits
      <3> QED
        BY <2>1, <3>1, <3>2, <3>3 DEF PageFits
    <2>2. CASE y = x
      <3>1. PageFits(x, page[x])
        BY <1>0 DEF PagesInv
      <3>2. PageFits(x, pg)
        BY <3>1 DEF PageFits
      <3> QED
        BY <1>1, <2>1, <2>2, <3>2
    <2>3. CASE y # x
      BY <1>0, <1>1, <2>1, <2>3 DEF PagesInv
    <2> QED
      BY <2>2, <2>3
  <1>8. OnePage'
    <2>1. ASSUME NEW y \in Pages, HasCancelled(page'[y])
          PROVE  HasCancelled(page[y]) /\ page'[y].booking = page[y].booking
      BY <1>1, <2>1
    <2> QED
      BY <1>0, <2>1 DEF PagesInv, OnePage
  <1>9. SupplierRefundBookedOnce' /\ CustomerMadeWhole'
    <2>1. SupplierRefundBookedOnce'
      BY <1>0, <1>3, <1>5 DEF PagesInv, SupplierRefundBookedOnce
    <2>2. CustomerMadeWhole'
      BY <1>0, <1>3, <1>5 DEF PagesInv, CustomerMadeWhole, RefundRows
    <2> QED
      BY <2>1, <2>2
  <1> QED
    BY <1>3, <1>4, <1>6, <1>7, <1>8, <1>9 DEF CancelInv, PagesInv

LEMMA StepOfModal ==
  ASSUME CancelInv, NEW x \in Pages,
         \/ \E b \in Bookings : OpenModal(x, b) \/ OpenAdminForm(x, b)
         \/ QuoteArrives(x) \/ CloseModal(x) \/ Submit(x) \/ CheckPayment(x)
  PROVE  CancelInv' /\ [Next \/ StaleWrite]_refundVars
  <1>0. /\ page \in [Pages -> PageRecords] /\ page[x] \in PageRecords /\ PageFits(x, page[x])
        /\ pageFaults \in 0 .. MaxPageFaults
    BY PageTypes DEF CancelInv, PagesInv, PagesOK
  <1>1. OnlyPages
    BY DEF OpenModal, OpenAdminForm, Open, QuoteArrives, CloseModal, Submit, CheckPayment
  <1>2. /\ UNCHANGED <<refundVars, autoApproved, requested, supplierLedger, supplier, supplierMoney>>
        /\ pageFaults' \in 0 .. MaxPageFaults /\ pageFaults' >= pageFaults
    <2>1. pageFaults' = pageFaults
      BY <1>1 DEF OnlyPages
    <2> QED
      BY <1>0, <1>1, <2>1, CancellationAssumption DEF OnlyPages
  <1>3. ~ HasCancelled(page[x])
    BY DEF HasCancelled, OpenModal, OpenAdminForm, Open, QuoteArrives, CloseModal, Submit, CheckPayment
  <1>4. \E pg \in PageRecords :
           /\ page' = [page EXCEPT ![x] = pg]
           /\ ~ HasCancelled(pg)
           /\ pg.pc # "closed" => pg.booking \in Bookings /\ EverWas(pg.booking, "confirmed")
    <2>1. ASSUME NEW b \in Bookings, NEW pc \in {"quoting", "ready"}, Open(x, b, pc)
          PROVE  \E pg \in PageRecords :
                    /\ page' = [page EXCEPT ![x] = pg]
                    /\ ~ HasCancelled(pg)
                    /\ pg.pc # "closed" => pg.booking \in Bookings /\ EverWas(pg.booking, "confirmed")
      <3>1. PICK pg : pg = [Closed EXCEPT !.pc = pc, !.booking = b]
        OBVIOUS
      <3>2. pg \in PageRecords /\ pg.pc = pc /\ pg.booking = b
        BY <3>1, ClosedIsPage DEF PageRecords, Closed
      <3> QED
        BY <2>1, <3>1, <3>2 DEF Open, CancelButton, HasCancelled
    <2>2. ASSUME NEW pc \in {"ready", "saving", "checking", "calling"}, Turn(x, pc), page[x].pc # "closed"
          PROVE  \E pg \in PageRecords :
                    /\ page' = [page EXCEPT ![x] = pg]
                    /\ ~ HasCancelled(pg)
                    /\ pg.pc # "closed" => pg.booking \in Bookings /\ EverWas(pg.booking, "confirmed")
      <3>1. PICK pg : pg = [page[x] EXCEPT !.pc = pc]
        OBVIOUS
      <3>2. pg \in PageRecords /\ pg.pc = pc /\ pg.booking = page[x].booking
        BY <1>0, <3>1 DEF PageRecords
      <3>3. page' = [page EXCEPT ![x] = pg]
        BY <2>2, <3>1 DEF Turn
      <3> QED
        BY <1>0, <2>2, <3>2, <3>3 DEF PageFits, HasCancelled
    <2>3. ASSUME page' = [page EXCEPT ![x] = Closed]
          PROVE  \E pg \in PageRecords :
                    /\ page' = [page EXCEPT ![x] = pg]
                    /\ ~ HasCancelled(pg)
                    /\ pg.pc # "closed" => pg.booking \in Bookings /\ EverWas(pg.booking, "confirmed")
      BY <2>3, ClosedIsPage DEF HasCancelled
    <2>4. CASE \E b \in Bookings : OpenModal(x, b) \/ OpenAdminForm(x, b)
      BY <2>1, <2>4 DEF OpenModal, OpenAdminForm
    <2>5. CASE QuoteArrives(x)
      BY <2>2, <2>3, <2>5 DEF QuoteArrives
    <2>6. CASE CloseModal(x)
      BY <2>3, <2>6 DEF CloseModal
    <2>7. CASE Submit(x)
      <3>1. \E pc \in {"ready", "saving", "checking", "calling"} : Turn(x, pc)
        BY <2>7 DEF Submit
      <3> QED
        BY <2>2, <2>7, <3>1 DEF Submit
    <2>8. CASE CheckPayment(x)
      <3>1. \E pc \in {"ready", "saving", "checking", "calling"} : Turn(x, pc)
        BY <2>8 DEF CheckPayment
      <3> QED
        BY <2>2, <2>8, <3>1 DEF CheckPayment
    <2> QED
      BY <2>4, <2>5, <2>6, <2>7, <2>8
  <1>5. PICK pg \in PageRecords :
           /\ page' = [page EXCEPT ![x] = pg]
           /\ ~ HasCancelled(pg)
           /\ pg.pc # "closed" => pg.booking \in Bookings /\ EverWas(pg.booking, "confirmed")
    BY <1>4
  <1>6. pg.pc # "committing"
    BY <1>5 DEF HasCancelled
  <1> QED
    BY <1>2, <1>3, <1>5, <1>6, PageTurns

\* What a page that had the order cancelled knows of its booking.
LEMMA HoldsRefund ==
  ASSUME CancelInv, NEW x \in Pages, HasCancelled(page[x])
  PROVE  /\ page[x].booking \in Bookings
         /\ supplier[page[x].booking] = "cancelled"
         /\ supplierMoney[page[x].booking] = page[x].refund
         /\ page[x].refund \in 0 .. Total - Markup
         /\ ~ EverWas(page[x].booking, "cancelled")
         /\ status[page[x].booking] \in {"confirmed", "refunded"}
  <1>1. PagesInv /\ PageFits(x, page[x])
    BY DEF CancelInv, PagesInv
  <1>2. /\ page[x].booking \in Bookings /\ EverWas(page[x].booking, "confirmed")
        /\ supplier[page[x].booking] = "cancelled"
        /\ supplierMoney[page[x].booking] = page[x].refund
        /\ ~ EverWas(page[x].booking, "cancelled")
    BY <1>1 DEF PageFits, HasCancelled
  <1>3. HistoryFits(page[x].booking) /\ OrderFits(page[x].booking)
    BY <1>1, <1>2 DEF PagesInv, BookingFits
  <1> QED
    BY <1>2, <1>3 DEF HistoryFits, OrderFits

\* A refund that may not be committed meets refund rows.
LEMMA RefusedHasRows ==
  ASSUME CancelInv, NEW x \in Pages, page[x].pc = "committing", ~ MayCommit(x)
  PROVE  RefundRows(page[x].booking) # {}
  <1>1. PICK b : b = page[x].booking
    OBVIOUS
  <1>2. /\ b \in Bookings /\ page[x].refund \in 0 .. Total - Markup
        /\ status[b] \in {"confirmed", "refunded"}
    BY <1>1, HoldsRefund DEF HasCancelled
  <1>3. MoneyInv /\ RollupIsSupported /\ TypeOK
    BY DEF CancelInv, MoneyInv, Money, RefundsInv
  <1>4. Total \in Nat /\ Total > 0 /\ Markup \in 0 .. Total
    BY RefundsAssumption, CancellationAssumption
  <1>5. CASE "refunded" \in {payment[b], status[b]}
    <2>1. AmountOf(RefundRows(b)) >= Total
      BY <1>2, <1>3, <1>5, RefundedIsCovered
    <2>2. RefundRows(b) = {} => AmountOf(RefundRows(b)) = 0
      BY NoRowsNoAmount
    <2> QED
      BY <1>1, <1>4, <2>1, <2>2
  <1>6. CASE "refunded" \notin {payment[b], status[b]}
    <2>1. status[b] = "confirmed"
      BY <1>2, <1>6
    <2>2. payment[b] \in {"succeeded", "partially_refunded"}
      BY <1>2, <1>3, <1>6 DEF TypeOK
    <2>3. WantsRefund(x) /\ ~ MayRefund(b, Receives(x))
      BY <1>1, <2>1 DEF MayCommit
    <2>4. Receives(x) \in 1 .. Total
      BY <1>2, <1>4, <2>3 DEF WantsRefund, Receives
    <2>5. ~ (AmountOf(CommittedRows(b)) + Receives(x) <= Total)
      BY <2>2, <2>3, <2>4 DEF MayRefund
    <2>6. CommittedRows(b) # {}
      <3>1. SUFFICES ASSUME CommittedRows(b) = {} PROVE FALSE
        OBVIOUS
      <3>2. AmountOf(CommittedRows(b)) = 0
        BY <3>1, NoRowsNoAmount
      <3> QED
        BY <1>4, <2>4, <2>5, <3>2
    <2> QED
      BY <1>1, <2>6 DEF CommittedRows, RefundRows
  <1> QED
    BY <1>5, <1>6

LEMMA StepOfRequest ==
  ASSUME CancelInv, NEW x \in Pages, ReadPayment(x) \/ RequestDies(x) \/ CommitRefused(x)
  PROVE  CancelInv' /\ [Next \/ StaleWrite]_refundVars
  <1>0. /\ page \in [Pages -> PageRecords] /\ page[x] \in PageRecords /\ PageFits(x, page[x])
        /\ pageFaults \in 0 .. MaxPageFaults
    BY PageTypes DEF CancelInv, PagesInv, PagesOK
  <1>1. ASSUME Turn(x, "ready"), page[x].pc # "closed"
        PROVE  \E pg \in PageRecords :
                  /\ page' = [page EXCEPT ![x] = pg]
                  /\ ~ HasCancelled(pg) /\ pg.pc # "committing"
                  /\ pg.pc # "closed" => pg.booking \in Bookings /\ EverWas(pg.booking, "confirmed")
    <2>1. PICK pg : pg = [page[x] EXCEPT !.pc = "ready"]
      OBVIOUS
    <2>2. pg \in PageRecords /\ pg.pc = "ready" /\ pg.booking = page[x].booking
      BY <1>0, <2>1 DEF PageRecords
    <2>3. page' = [page EXCEPT ![x] = pg]
      BY <1>1, <2>1 DEF Turn
    <2> QED
      BY <1>0, <1>1, <2>2, <2>3 DEF PageFits, HasCancelled
  <1>2. CASE ReadPayment(x)
    <2> DEFINE Can == payment[page[x].booking] \in {"succeeded", "partially_refunded"}
    <2> HIDE DEF Can
    <2>0. PICK p \in BOOLEAN : p = Can
      <3>1. Can \in BOOLEAN
        BY DEF Can
      <3> QED
        BY <3>1
    <2>1. PICK pg : pg = [page[x] EXCEPT !.pc = "committing", !.payable = p]
      OBVIOUS
    <2>2. /\ pg \in PageRecords /\ pg.pc = "committing" /\ pg.booking = page[x].booking
          /\ pg.refund = page[x].refund
          /\ pg.payable = p
      BY <1>0, <2>0, <2>1 DEF PageRecords
    <2>3. page' = [page EXCEPT ![x] = pg]
      BY <1>0, <1>2, <2>0, <2>1 DEF ReadPayment, Can
    <2>4. HasCancelled(page[x]) /\ page[x].pc # "closed"
      BY <1>2 DEF ReadPayment, HasCancelled
    <2>5. pg.booking \in Bookings /\ EverWas(pg.booking, "confirmed")
      BY <1>0, <2>2, <2>4 DEF PageFits
    <2>6. ~ pg.payable => AmountOf(RefundRows(pg.booking)) >= Total
      <3>1. MoneyInv /\ TypeOK
        BY DEF CancelInv, MoneyInv, RefundsInv
      <3>2. ~ pg.payable => payment[pg.booking] = "refunded"
        <4>1. payment[pg.booking] \in {"succeeded", "partially_refunded", "refunded"}
          BY <2>5, <3>1 DEF TypeOK
        <4>2. ~ pg.payable => ~ Can
          BY <2>0, <2>2
        <4> QED
          BY <2>2, <4>1, <4>2 DEF Can
      <3> QED
        BY <2>5, <3>1, <3>2, RefundedIsCovered
    <2>7. /\ UNCHANGED <<refundVars, autoApproved, requested, supplierLedger, supplier, supplierMoney>>
          /\ pageFaults' = pageFaults
      BY <1>2 DEF ReadPayment, OnlyPages
    <2>8. pageFaults' \in 0 .. MaxPageFaults /\ pageFaults' >= pageFaults
      BY <1>0, <2>7, CancellationAssumption
    <2>9. HasCancelled(pg)
      BY <2>2 DEF HasCancelled
    <2> QED
      BY <2>2, <2>3, <2>4, <2>5, <2>6, <2>7, <2>8, <2>9, PageTurns
  <1>3. CASE RequestDies(x)
    <2>1. PICK pg \in PageRecords :
             /\ page' = [page EXCEPT ![x] = pg]
             /\ ~ HasCancelled(pg) /\ pg.pc # "committing"
             /\ pg.pc # "closed" => pg.booking \in Bookings /\ EverWas(pg.booking, "confirmed")
      BY <1>1, <1>3 DEF RequestDies
    <2>2. UNCHANGED <<refundVars, autoApproved, requested, supplierLedger, supplier, supplierMoney>>
      BY <1>3 DEF RequestDies
    <2>3. pageFaults' \in 0 .. MaxPageFaults /\ pageFaults' >= pageFaults /\ pageFaults' > 0
      BY <1>0, <1>3, CancellationAssumption DEF RequestDies
    <2> QED
      BY <2>1, <2>2, <2>3, PageTurns
  <1>4. CASE CommitRefused(x)
    <2>1. PICK pg \in PageRecords :
             /\ page' = [page EXCEPT ![x] = pg]
             /\ ~ HasCancelled(pg) /\ pg.pc # "committing"
             /\ pg.pc # "closed" => pg.booking \in Bookings /\ EverWas(pg.booking, "confirmed")
      BY <1>1, <1>4 DEF CommitRefused
    <2>2. /\ UNCHANGED <<refundVars, autoApproved, requested, supplierLedger, supplier, supplierMoney>>
          /\ pageFaults' = pageFaults
      BY <1>4 DEF CommitRefused, OnlyPages
    <2>3. pageFaults' \in 0 .. MaxPageFaults /\ pageFaults' >= pageFaults
      BY <1>0, <2>2, CancellationAssumption
    <2>4. RefundRows(page[x].booking) # {}
      BY <1>4, RefusedHasRows DEF CommitRefused
    <2> QED
      BY <2>1, <2>2, <2>3, <2>4, PageTurns
  <1> QED
    BY <1>2, <1>3, <1>4

\* Duffel cancels the order, and the request may learn of it or not.
LEMMA OrderCancelled ==
  ASSUME CancelInv, NEW x \in Pages, NEW b \in Bookings, NEW m \in 0 .. Total - Markup, NEW pg \in PageRecords,
         page[x].pc = "calling", b = page[x].booking, supplier[b] = "live",
         supplier' = [supplier EXCEPT ![b] = "cancelled"],
         supplierMoney' = [supplierMoney EXCEPT ![b] = m],
         page' = [page EXCEPT ![x] = pg], pg.booking = b,
         UNCHANGED <<refundVars, autoApproved, requested, supplierLedger>>,
         pageFaults' \in 0 .. MaxPageFaults, pageFaults' >= pageFaults,
         \/ HasCancelled(pg) /\ pg.refund = m
         \/ ~ HasCancelled(pg) /\ pageFaults' > 0,
         pg.pc = "committing" => x \notin AdminPages
  PROVE  CancelInv'
  <1>0. /\ MoneyInv /\ PagesInv /\ page \in [Pages -> PageRecords]
        /\ supplier \in [Bookings -> {"live", "cancelled"}]
        /\ supplierMoney \in [Bookings -> 0 .. Total]
    BY PageTypes DEF CancelInv, PagesInv
  <1>1. page'[x] = pg /\ \A y \in Pages : y # x => page'[y] = page[y]
    BY <1>0
  <1>2. /\ supplier'[b] = "cancelled" /\ supplierMoney'[b] = m
        /\ \A c \in Bookings : c # b => supplier'[c] = supplier[c] /\ supplierMoney'[c] = supplierMoney[c]
    BY <1>0
  <1>3. UNCHANGED <<status, history, payment, refund, amount, ledger, old, job, tries, executor,
                    moved, retries, faults, supplierLedger>>
    BY DEF refundVars, vars, rowVars, tableVars, queueVars
  <1>4. {"confirmed", "cancelled"} \subseteq BookingStatus
    BY DEF BookingStatus
  <1>5. /\ MoneyInv'
        /\ \A c \in Bookings, s \in BookingStatus : EverWas(c, s)' <=> EverWas(c, s)
        /\ \A c : RefundRows(c)' = RefundRows(c) /\ AmountOf(RefundRows(c))' = AmountOf(RefundRows(c))
    <2>1. MoneyInv'
      BY <1>0, MoneyStep DEF refundVars
    <2>2. \A c : RefundRows(c)' = RefundRows(c) /\ AmountOf(RefundRows(c))' = AmountOf(RefundRows(c))
      BY <1>3 DEF RefundRows, Rows, AmountOf
    <2>3. \A c \in Bookings, s \in BookingStatus : EverWas(c, s)' <=> EverWas(c, s)
      BY <1>3 DEF EverWas
    <2> QED
      BY <2>1, <2>2, <2>3
  <1>6. ~ EverWas(b, "cancelled") /\ EverWas(b, "confirmed")
    BY <1>0 DEF PagesInv, BookingFits, OrderFits, PageFits
  <1>7. \A y \in Pages : HasCancelled(page[y]) => y # x /\ page[y].booking # b
    BY <1>0 DEF PagesInv, PageFits, HasCancelled
  <1>8. m \in 0 .. Total
    BY RefundsAssumption, CancellationAssumption
  <1>9. PagesOK'
    <2>1. page' \in [Pages -> PageRecords] /\ supplier' \in [Bookings -> {"live", "cancelled"}]
          /\ supplierMoney' \in [Bookings -> 0 .. Total]
      BY <1>0, <1>8
    <2> QED
      BY <1>0, <2>1 DEF PagesInv, PagesOK, PageRecords
  <1>10. ASSUME NEW c \in Bookings PROVE BookingFits(c)'
    <2>1. BookingFits(c)
      BY <1>0 DEF PagesInv
    <2>2. HistoryFits(c)'
      BY <1>3, <1>4, <1>5, <2>1 DEF BookingFits, HistoryFits
    <2>3. OrderFits(c)'
      BY <1>2, <1>4, <1>5, <2>1 DEF BookingFits, OrderFits
    <2>4. HasCause(c)'
      <3>1. CASE c = b
        BY <1>1, <3>1 DEF HasCause
      <3>2. CASE c # b
        <4>1. SUFFICES ASSUME ~ EverWas(c, "cancelled"), supplier[c] = "cancelled"
                       PROVE  \/ \E y \in Pages : HasCancelled(page'[y]) /\ page'[y].booking = c
                              \/ pageFaults' > 0
                              \/ RefundRows(c)' # {}
          BY <1>2, <1>4, <1>5, <3>2 DEF HasCause
        <4>2. CASE pageFaults > 0 \/ RefundRows(c) # {}
          <5>1. pageFaults \in 0 .. MaxPageFaults
            BY <1>0 DEF PagesInv, PagesOK
          <5> QED
            BY <1>5, <4>2, <5>1, CancellationAssumption
        <4>3. CASE \E y \in Pages : HasCancelled(page[y]) /\ page[y].booking = c
          BY <1>1, <1>7, <4>3
        <4> QED
          BY <2>1, <4>1, <4>2, <4>3 DEF BookingFits, HasCause
      <3> QED
        BY <3>1, <3>2
    <2> QED
      BY <2>2, <2>3, <2>4 DEF BookingFits
  <1>11. ASSUME NEW y \in Pages PROVE PageFits(y, page[y])'
    <2>1. CASE y = x
      <3>1. pg.booking \in Bookings /\ EverWas(pg.booking, "confirmed")'
        BY <1>4, <1>5, <1>6
      <3>2. HasCancelled(pg) => /\ supplier'[pg.booking] = "cancelled"
                                /\ supplierMoney'[pg.booking] = pg.refund
                                /\ ~ EverWas(pg.booking, "cancelled")'
        BY <1>2, <1>4, <1>5, <1>6
      <3> QED
        BY <1>1, <2>1, <3>1, <3>2 DEF PageFits
    <2>2. CASE y # x
      <3>1. PICK p \in PageRecords : p = page[y] /\ p = page'[y]
        BY <1>0, <1>1, <2>2
      <3>2. PageFits(y, p)
        BY <1>0, <3>1 DEF PagesInv
      <3>3. p.pc # "closed" => p.booking \in Bookings /\ EverWas(p.booking, "confirmed")'
        BY <1>4, <1>5, <3>2 DEF PageFits
      <3>4. HasCancelled(p) => /\ supplier'[p.booking] = "cancelled"
                               /\ supplierMoney'[p.booking] = p.refund
                               /\ ~ EverWas(p.booking, "cancelled")'
        BY <1>2, <1>4, <1>5, <1>7, <3>1, <3>2 DEF PageFits, HasCancelled
      <3>5. p.pc = "committing" /\ y \in AdminPages /\ ~ p.payable => AmountOf(RefundRows(p.booking))' >= Total
        BY <1>5, <3>2 DEF PageFits
      <3> QED
        BY <3>1, <3>3, <3>4, <3>5 DEF PageFits
    <2> QED
      BY <2>1, <2>2
  <1>12. OnePage'
    <2>1. ASSUME NEW y \in Pages, NEW z \in Pages, HasCancelled(page'[y]), HasCancelled(page'[z]),
                 page'[y].booking = page'[z].booking
          PROVE  y = z
      <3>1. CASE y # x /\ z # x
        <4>1. page'[y] = page[y] /\ page'[z] = page[z]
          BY <1>1, <3>1
        <4> QED
          BY <1>0, <2>1, <4>1 DEF PagesInv, OnePage
      <3>2. CASE y = x \/ z = x
        BY <1>1, <1>7, <2>1, <3>2
      <3> QED
        BY <3>1, <3>2
    <2> QED
      BY <2>1 DEF OnePage
  <1>13. SupplierRefundBookedOnce'
    BY <1>0, <1>2, <1>3, <1>4, <1>5, <1>6 DEF PagesInv, SupplierRefundBookedOnce
  <1>14. CustomerMadeWhole'
    <2>1. ASSUME NEW c \in Bookings, EverWas(c, "cancelled")'
          PROVE  AmountOf(RefundRows(c))' >= supplierMoney'[c] + Markup
      <3>1. EverWas(c, "cancelled") /\ c # b
        BY <1>4, <1>5, <1>6, <2>1
      <3>2. AmountOf(RefundRows(c)) >= supplierMoney[c] + Markup
        BY <1>0, <3>1 DEF PagesInv, CustomerMadeWhole, RefundRows
      <3> QED
        BY <1>2, <1>5, <3>1, <3>2
    <2> QED
      BY <2>1 DEF CustomerMadeWhole, RefundRows
  <1> QED
    BY <1>5, <1>9, <1>10, <1>11, <1>12, <1>13, <1>14 DEF CancelInv, PagesInv

LEMMA StepOfOrder ==
  ASSUME CancelInv, NEW x \in Pages, CancelOrder(x)
  PROVE  CancelInv' /\ [Next \/ StaleWrite]_refundVars
  <1>0. /\ page \in [Pages -> PageRecords] /\ page[x] \in PageRecords /\ PageFits(x, page[x])
        /\ pageFaults \in 0 .. MaxPageFaults
    BY PageTypes DEF CancelInv, PagesInv, PagesOK
  <1>1. PICK b, next : b = page[x].booking /\ next = IF x \in AdminPages THEN "reading" ELSE "committing"
    OBVIOUS
  <1>2. /\ page[x].pc = "calling" /\ UNCHANGED <<refundVars, autoApproved, requested, supplierLedger>>
        /\ b \in Bookings /\ EverWas(b, "confirmed")
        /\ next \in {"reading", "committing"} /\ (next = "committing" => x \notin AdminPages)
    BY <1>0, <1>1 DEF CancelOrder, PageFits
  <1>3. PICK pr : pr = [page[x] EXCEPT !.pc = "ready"]
    OBVIOUS
  <1>4. pr \in PageRecords /\ pr.pc = "ready" /\ pr.booking = b /\ ~ HasCancelled(pr) /\ ~ HasCancelled(page[x])
    BY <1>0, <1>1, <1>2, <1>3 DEF PageRecords, HasCancelled
  <1>5. ASSUME NEW m \in 0 .. Total - Markup, supplier[b] = "live",
               supplier' = [supplier EXCEPT ![b] = "cancelled"],
               supplierMoney' = [supplierMoney EXCEPT ![b] = m],
               page' = [page EXCEPT ![x].pc = next, ![x].refund = m], UNCHANGED pageFaults
        PROVE  CancelInv'
    <2>1. PICK pg : pg = [page[x] EXCEPT !.pc = next, !.refund = m]
      OBVIOUS
    <2>2. m \in 0 .. Total
      BY RefundsAssumption, CancellationAssumption
    <2>3. pg \in PageRecords /\ pg.pc = next /\ pg.booking = b /\ pg.refund = m
      BY <1>0, <1>1, <1>2, <2>1, <2>2 DEF PageRecords
    <2>4. page' = [page EXCEPT ![x] = pg]
      BY <1>0, <1>5, <2>1
    <2>5. HasCancelled(pg)
      BY <1>2, <2>3 DEF HasCancelled
    <2>6. pageFaults' \in 0 .. MaxPageFaults /\ pageFaults' >= pageFaults
      BY <1>0, <1>5, CancellationAssumption
    <2>7. pg.pc = "committing" => x \notin AdminPages
      BY <1>2, <2>3
    <2>8. /\ b \in Bookings /\ b = page[x].booking /\ page[x].pc = "calling"
          /\ UNCHANGED <<refundVars, autoApproved, requested, supplierLedger>>
      BY <1>1, <1>2
    <2> QED
      BY <1>5, <2>3, <2>4, <2>5, <2>6, <2>7, <2>8, OrderCancelled
  <1>6. ASSUME NEW m \in 0 .. Total - Markup, supplier[b] = "live",
               supplier' = [supplier EXCEPT ![b] = "cancelled"],
               supplierMoney' = [supplierMoney EXCEPT ![b] = m],
               Turn(x, "ready"), pageFaults < MaxPageFaults, pageFaults' = pageFaults + 1
        PROVE  CancelInv'
    <2>1. page' = [page EXCEPT ![x] = pr]
      BY <1>3, <1>6 DEF Turn
    <2>2. pageFaults' \in 0 .. MaxPageFaults /\ pageFaults' >= pageFaults /\ pageFaults' > 0
      BY <1>0, <1>6, CancellationAssumption
    <2> QED
      BY <1>1, <1>2, <1>4, <1>6, <2>1, <2>2, OrderCancelled
  <1>7. CASE Turn(x, "ready") /\ UNCHANGED <<supplier, supplierMoney, pageFaults>>
    <2>1. page' = [page EXCEPT ![x] = pr]
      BY <1>3, <1>7 DEF Turn
    <2>2. pageFaults' \in 0 .. MaxPageFaults /\ pageFaults' >= pageFaults
      BY <1>0, <1>7, CancellationAssumption
    <2>3. pr.pc # "committing"
      BY <1>4
    <2> QED
      BY <1>2, <1>4, <1>7, <2>1, <2>2, <2>3, PageTurns
  <1>8. [Next \/ StaleWrite]_refundVars
    BY <1>2
  <1>9. \/ \E m \in 0 .. Total - Markup :
              /\ supplier[b] = "live"
              /\ supplier' = [supplier EXCEPT ![b] = "cancelled"]
              /\ supplierMoney' = [supplierMoney EXCEPT ![b] = m]
              /\ page' = [page EXCEPT ![x].pc = next, ![x].refund = m] /\ UNCHANGED pageFaults
        \/ \E m \in 0 .. Total - Markup :
              /\ supplier[b] = "live"
              /\ supplier' = [supplier EXCEPT ![b] = "cancelled"]
              /\ supplierMoney' = [supplierMoney EXCEPT ![b] = m]
              /\ Turn(x, "ready") /\ pageFaults < MaxPageFaults /\ pageFaults' = pageFaults + 1
        \/ Turn(x, "ready") /\ UNCHANGED <<supplier, supplierMoney, pageFaults>>
    BY <1>1 DEF CancelOrder
  <1> QED
    BY <1>5, <1>6, <1>7, <1>8, <1>9

-----------------------------------------------------------------------------
(* The steps that write a booking. *)

\* The refund pipeline bears a status written without a transition, unless it claims
\* a refund.
LEMMA StaleStatus ==
  ASSUME MoneyInv, status' \in [Bookings -> BookingStatus],
         \A b \in Bookings : status'[b] = "refunded" => status[b] = "refunded",
         UNCHANGED <<history, tableVars, queueVars, executor, creditVars, moved, retries, faults>>
  PROVE  MoneyInv'
  <1>0. RefundsInv /\ TypeOK /\ RunsTell /\ RecordedOnce /\ Begun /\ Money /\ PayoutsExplained
    BY DEF MoneyInv, RefundsInv
  <1>1. UNCHANGED <<history, payment, refund, amount, ledger, old, job, tries, executor,
                    captures, overtaken, moved, retries, faults>>
    BY DEF tableVars, queueVars, creditVars
  <1>2. TypeOK'
    BY <1>0, <1>1 DEF TypeOK
  <1>3. RunsTell' /\ RecordedOnce'
    BY <1>0, <1>1 DEF RunsTell, RunTells, Commits, RecordedOnce
  <1>4. Begun'
    BY <1>0, <1>1 DEF Begun, RowBegins, RunBegins
  <1>5. Money'
    BY <1>0, <1>1, <1>2, MoneyRests
  <1>6. PayoutsExplained'
    <2>1. \A r \in RefundIds : Ahead(r)' = Ahead(r) /\ (Startable(r)' <=> Startable(r))
      BY <1>1 DEF Ahead, Startable
    <2>2. \A r \in RefundIds : One(Startable(r))' = One(Startable(r))
      BY <2>1 DEF One
    <2> QED
      BY <1>0, <1>1, <2>1, <2>2 DEF PayoutsExplained, Explained
  <1> QED
    BY <1>2, <1>3, <1>4, <1>5, <1>6 DEF MoneyInv, RefundsInv

LEMMA StepOfSave ==
  ASSUME CancelInv, NEW x \in Pages, SaveRequest(x)
  PROVE  CancelInv' /\ StaleWrite
  <1>0. /\ MoneyInv /\ PagesInv /\ page \in [Pages -> PageRecords] /\ PageFits(x, page[x])
        /\ status \in [Bookings -> BookingStatus]
    BY PageTypes DEF CancelInv, PagesInv, MoneyInv, RefundsInv, TypeOK
  <1>1. PICK b : b = page[x].booking
    OBVIOUS
  <1>2. /\ page[x].pc = "saving"
        /\ status' = [status EXCEPT ![b] = "confirmed"]
        /\ page' = [page EXCEPT ![x] = Closed]
        /\ requested' = [requested EXCEPT ![b] = TRUE]
        /\ UNCHANGED <<history, tableVars, queueVars, executor, creditVars, moved, retries,
                       faults, autoApproved, supplierLedger, supplier, supplierMoney, pageFaults>>
    BY <1>1 DEF SaveRequest
  <1>3. b \in Bookings /\ EverWas(b, "confirmed")
    BY <1>0, <1>1, <1>2 DEF PageFits
  <1>4. {"confirmed", "cancelled"} \subseteq BookingStatus
    BY DEF BookingStatus
  <1>5. /\ status'[b] = "confirmed" /\ \A c \in Bookings : c # b => status'[c] = status[c]
        /\ status' \in [Bookings -> BookingStatus]
    BY <1>0, <1>2, <1>3, <1>4
  <1>6. MoneyInv'
    BY <1>0, <1>2, <1>5, StaleStatus
  <1>7. /\ \A c \in Bookings, s \in BookingStatus : EverWas(c, s)' <=> EverWas(c, s)
        /\ \A c : RefundRows(c)' = RefundRows(c) /\ AmountOf(RefundRows(c))' = AmountOf(RefundRows(c))
    <2>1. \A c \in Bookings, s \in BookingStatus : EverWas(c, s)' <=> EverWas(c, s)
      BY <1>2 DEF EverWas
    <2> QED
      BY <1>2, <2>1 DEF RefundRows, Rows, AmountOf, tableVars
  <1>8. PICK cl \in PageRecords : cl = Closed /\ cl.pc = "closed" /\ ~ HasCancelled(cl)
    BY ClosedIsPage DEF HasCancelled
  <1>9. page'[x] = cl /\ \A y \in Pages : y # x => page'[y] = page[y]
    BY <1>0, <1>2, <1>8
  <1>10. ~ HasCancelled(page[x])
    BY <1>2 DEF HasCancelled
  <1>11. PagesOK'
    <2>1. page' \in [Pages -> PageRecords] /\ requested' \in [Bookings -> BOOLEAN]
      BY <1>0, <1>2, <1>8 DEF PagesInv, PagesOK
    <2> QED
      BY <1>0, <1>2, <2>1 DEF PagesInv, PagesOK, PageRecords
  <1>12. ASSUME NEW c \in Bookings PROVE BookingFits(c)'
    <2>1. BookingFits(c)
      BY <1>0 DEF PagesInv
    <2>2. HistoryFits(c)' /\ OrderFits(c)'
      BY <1>2, <1>4, <1>5, <1>7, <2>1 DEF BookingFits, HistoryFits, OrderFits
    <2>3. HasCause(c)'
      <3>1. ASSUME NEW y \in Pages, HasCancelled(page[y]) PROVE page'[y] = page[y]
        BY <1>9, <1>10, <3>1
      <3> QED
        BY <1>2, <1>4, <1>7, <2>1, <3>1 DEF BookingFits, HasCause
    <2> QED
      BY <2>2, <2>3 DEF BookingFits
  <1>13. ASSUME NEW y \in Pages PROVE PageFits(y, page[y])'
    <2>1. CASE y = x
      BY <1>8, <1>9, <2>1 DEF PageFits, HasCancelled
    <2>2. CASE y # x
      <3>1. PICK p \in PageRecords : p = page[y] /\ p = page'[y]
        BY <1>0, <1>9, <2>2
      <3>2. PageFits(y, p)
        BY <1>0, <3>1 DEF PagesInv
      <3>3. p.pc # "closed" => p.booking \in Bookings /\ EverWas(p.booking, "confirmed")'
        BY <1>4, <1>7, <3>2 DEF PageFits
      <3>4. HasCancelled(p) => /\ supplier'[p.booking] = "cancelled"
                               /\ supplierMoney'[p.booking] = p.refund
                               /\ ~ EverWas(p.booking, "cancelled")'
        BY <1>2, <1>4, <1>7, <3>2 DEF PageFits, HasCancelled
      <3>5. p.pc = "committing" /\ y \in AdminPages /\ ~ p.payable => AmountOf(RefundRows(p.booking))' >= Total
        BY <1>7, <3>2 DEF PageFits
      <3> QED
        BY <3>1, <3>3, <3>4, <3>5 DEF PageFits
    <2> QED
      BY <2>1, <2>2
  <1>14. OnePage'
    <2>1. ASSUME NEW y \in Pages, HasCancelled(page'[y])
          PROVE  HasCancelled(page[y]) /\ page'[y].booking = page[y].booking
      BY <1>8, <1>9, <2>1
    <2> QED
      BY <1>0, <2>1 DEF PagesInv, OnePage
  <1>15. SupplierRefundBookedOnce' /\ CustomerMadeWhole'
    <2>1. SupplierRefundBookedOnce'
      BY <1>0, <1>2, <1>4, <1>7 DEF PagesInv, SupplierRefundBookedOnce
    <2>2. CustomerMadeWhole'
      BY <1>0, <1>2, <1>4, <1>7 DEF PagesInv, CustomerMadeWhole, RefundRows
    <2> QED
      BY <2>1, <2>2
  <1> QED
    BY <1>2, <1>3, <1>6, <1>11, <1>12, <1>13, <1>14, <1>15 DEF CancelInv, PagesInv, StaleWrite

LEMMA OneOfMany ==
  ASSUME NEW S, IsFiniteSet(S), NEW f, \A r \in S : f[r] \in Nat, NEW r \in S
  PROVE  SumFunctionOnSet(f, S) >= f[r]
  <1>1. SumFunctionOnSet(f, S) = f[r] + SumFunctionOnSet(f, S \ {r})
    BY SumRemove
  <1>2. IsFiniteSet(S \ {r}) /\ \A q \in S \ {r} : f[q] \in Nat
    BY FS_Subset
  <1>3. SumFunctionOnSet(f, S \ {r}) \in Nat
    BY <1>2, SumType
  <1> QED
    BY <1>1, <1>3

\* What the commit of a cancellation leaves the customer with.
LEMMA CommitPays ==
  ASSUME CancelInv, NEW x \in Pages, CommitCancel(x), NEW b \in Bookings, b = page[x].booking,
         TypeOK', \A c \in Bookings : /\ AmountOf(RefundRows(c))' \in Nat /\ AmountOf(RefundRows(c)) \in Nat
                                      /\ AmountOf(RefundRows(c))' >= AmountOf(RefundRows(c))
  PROVE  AmountOf(RefundRows(b))' >= page[x].refund + Markup
  <1>0. /\ page[x].pc = "committing" /\ PageFits(x, page[x]) /\ page[x].refund \in 0 .. Total - Markup
        /\ Markup \in 0 .. Total /\ Total \in Nat
    BY HoldsRefund, RefundsAssumption, CancellationAssumption DEF HasCancelled, CommitCancel, CancelInv, PagesInv
  <1>1. CASE WantsRefund(x)
    <2>1. PICK r \in FreeRows(b) : InsertPending(r, Receives(x))
      BY <1>1 DEF CommitCancel
    <2>2. r \in RefundIds /\ r \in Rows(b)
      BY <2>1 DEF FreeRows, Rows
    <2>3. refund'[r] = "pending" /\ amount'[r] = Receives(x)
      <3>1. refund \in [RefundIds -> RefundStates] /\ amount \in [RefundIds -> 0 .. Total]
        BY TypesOfRefunds DEF CancelInv, MoneyInv, RefundsInv
      <3> QED
        BY <2>1, <2>2, <3>1 DEF InsertPending
    <2>4. PICK T : T = RefundRows(b)'
      OBVIOUS
    <2>5. T \in SUBSET Rows(b) /\ r \in T
      BY <2>2, <2>3, <2>4 DEF RefundRows, Rows
    <2>6. IsFiniteSet(T) /\ \A q \in T : amount'[q] \in Nat
      <3>1. amount' \in [RefundIds -> 0 .. Total]
        BY DEF TypeOK
      <3> QED
        BY <1>0, <2>5, <3>1, RowsFinite DEF Rows
    <2>7. SumFunctionOnSet(amount', T) >= amount'[r]
      BY <2>5, <2>6, OneOfMany
    <2> QED
      BY <2>3, <2>4, <2>7 DEF AmountOf, Receives
  <1>2. CASE ~ WantsRefund(x) /\ Receives(x) > 0
    <2>1. x \in AdminPages /\ ~ page[x].payable
      BY <1>2 DEF WantsRefund, Pages
    <2>2. AmountOf(RefundRows(b)) >= Total
      BY <1>0, <2>1 DEF PageFits
    <2>3. AmountOf(RefundRows(b))' >= AmountOf(RefundRows(b)) /\ AmountOf(RefundRows(b))' \in Nat
          /\ AmountOf(RefundRows(b)) \in Nat
      OBVIOUS
    <2> QED
      BY <1>0, <2>2, <2>3
  <1>3. CASE ~ (Receives(x) > 0)
    <2>1. page[x].refund + Markup = 0
      BY <1>0, <1>3 DEF Receives
    <2>2. AmountOf(RefundRows(b))' \in Nat
      OBVIOUS
    <2> QED
      BY <2>1, <2>2
  <1> QED
    BY <1>1, <1>2, <1>3

LEMMA StepOfCommit ==
  ASSUME CancelInv, NEW x \in Pages, CommitCancel(x)
  PROVE  CancelInv' /\ Next
  <1>0. /\ MoneyInv /\ PagesInv /\ page \in [Pages -> PageRecords] /\ page[x].pc = "committing"
        /\ HasCancelled(page[x])
        /\ supplierLedger \in [Bookings -> 0 .. Total]
    BY PageTypes DEF CancelInv, PagesInv, CommitCancel, HasCancelled
  <1>1. PICK b : b = page[x].booking
    OBVIOUS
  <1>2. /\ MayCommit(x) /\ TransitionTo(b, "cancelled")
        /\ IF WantsRefund(x)
           THEN \E r \in FreeRows(b) : InsertPending(r, Receives(x)) /\ EnqueueRefund(r)
           ELSE UNCHANGED <<tableVars, queueVars>>
        /\ supplierLedger' = [supplierLedger EXCEPT ![b] = @ + page[x].refund]
        /\ page' = [page EXCEPT ![x] = Closed]
        /\ Overtake(b)
        /\ UNCHANGED <<executor, captures, moved, retries, faults, autoApproved, requested,
                       supplier, supplierMoney, pageFaults>>
    BY <1>1 DEF CommitCancel
  <1>3. /\ b \in Bookings /\ supplier[b] = "cancelled" /\ supplierMoney[b] = page[x].refund
        /\ page[x].refund \in 0 .. Total - Markup /\ ~ EverWas(b, "cancelled") /\ status[b] = "confirmed"
    BY <1>0, <1>1, <1>2, HoldsRefund DEF MayCommit
  <1>4. CancelBooking(b) /\ Next
    <2>1. CancelBooking(b)
      <3>1. ASSUME WantsRefund(x)
            PROVE  Receives(x) \in 1 .. Total /\ MayRefund(b, Receives(x))
        <4>1. Receives(x) \in 1 .. Total
          BY <1>3, <3>1, RefundsAssumption, CancellationAssumption DEF WantsRefund, Receives
        <4> QED
          BY <1>1, <1>2, <3>1, <4>1 DEF MayCommit
      <3> QED
        BY <1>2, <1>3, <3>1 DEF CancelBooking
    <2> QED
      BY <1>3, <2>1 DEF Next
  <1>5. MoneyInv' /\ TypeOK /\ TypeOK' /\ \A r \in RefundIds : RowForward(r)
    BY <1>0, <1>4, MoneyStep, StepIsGood DEF MoneyInv, RefundsInv, Kept
  <1>6. \A c \in Bookings :
           /\ RefundRows(c) \subseteq RefundRows(c)'
           /\ AmountOf(RefundRows(c))' \in Nat /\ AmountOf(RefundRows(c)) \in Nat
           /\ AmountOf(RefundRows(c))' >= AmountOf(RefundRows(c))
    BY <1>5, RowsGrow
  <1>7. {"confirmed", "cancelled"} \subseteq BookingStatus
    BY DEF BookingStatus
  <1>8. /\ \A c \in Bookings, s \in BookingStatus : EverWas(c, s) => EverWas(c, s)'
        /\ \A c \in Bookings, s \in BookingStatus : EverWas(c, s)' => EverWas(c, s) \/ (c = b /\ s = "cancelled")
        /\ \A c \in Bookings : c # b => status'[c] = status[c]
        /\ status'[b] = "cancelled" /\ EverWas(b, "cancelled")'
    <2>1. history \in [Bookings -> Seq(HistoryRows)] /\ status \in [Bookings -> BookingStatus]
      BY <1>5 DEF TypeOK
    <2> QED
      BY <1>2, <1>3, <1>7, <2>1, EverWasAfter
  <1>9. PICK cl \in PageRecords : cl = Closed /\ cl.pc = "closed" /\ ~ HasCancelled(cl)
    BY ClosedIsPage DEF HasCancelled
  <1>10. page'[x] = cl /\ \A y \in Pages : y # x => page'[y] = page[y]
    BY <1>0, <1>2, <1>9
  <1>11. \A y \in Pages : y # x /\ HasCancelled(page[y]) => page[y].booking # b
    BY <1>0, <1>1 DEF PagesInv, OnePage
  <1>12. supplierLedger[b] = 0 /\ supplierLedger'[b] = page[x].refund
         /\ \A c \in Bookings : c # b => supplierLedger'[c] = supplierLedger[c]
    <2>1. supplierLedger[b] = 0
      BY <1>0, <1>3 DEF PagesInv, SupplierRefundBookedOnce
    <2>2. supplierLedger'[b] = supplierLedger[b] + page[x].refund
      BY <1>0, <1>2, <1>3
    <2> QED
      BY <1>0, <1>2, <1>3, <2>1, <2>2, RefundsAssumption, CancellationAssumption
  <1>13. PagesOK'
    <2>1. page' \in [Pages -> PageRecords]
      BY <1>0, <1>2, <1>9
    <2>2. page[x].refund \in 0 .. Total
      BY <1>3, RefundsAssumption, CancellationAssumption
    <2>3. supplierLedger' \in [Bookings -> 0 .. Total]
      BY <1>0, <1>2, <1>12, <2>2
    <2> QED
      BY <1>0, <1>2, <2>1, <2>3 DEF PagesInv, PagesOK, PageRecords
  <1>14. ASSUME NEW c \in Bookings PROVE BookingFits(c)'
    <2>1. BookingFits(c)
      BY <1>0 DEF PagesInv
    <2>2. HistoryFits(c)'
      <3>1. CASE c = b
        BY <1>8, <3>1 DEF HistoryFits
      <3>2. CASE c # b
        BY <1>7, <1>8, <2>1, <3>2 DEF BookingFits, HistoryFits
      <3> QED
        BY <3>1, <3>2
    <2>3. OrderFits(c)'
      <3>1. supplier'[c] = supplier[c] /\ supplierMoney'[c] = supplierMoney[c]
        BY <1>2
      <3>2. CASE c = b
        BY <1>3, <2>1, <3>1, <3>2 DEF BookingFits, OrderFits
      <3>3. CASE c # b
        BY <1>7, <1>8, <2>1, <3>1, <3>3 DEF BookingFits, OrderFits
      <3> QED
        BY <3>2, <3>3
    <2>4. HasCause(c)'
      <3>1. CASE c = b
        BY <1>8, <3>1 DEF HasCause
      <3>2. CASE c # b
        <4>1. ASSUME NEW y \in Pages, HasCancelled(page[y]), page[y].booking = c
              PROVE  page'[y] = page[y]
          BY <1>1, <1>10, <3>2, <4>1
        <4>2. RefundRows(c) # {} => RefundRows(c)' # {}
          BY <1>6
        <4>3. EverWas(c, "cancelled") => EverWas(c, "cancelled")'
          BY <1>7, <1>8
        <4> QED
          BY <1>2, <2>1, <4>1, <4>2, <4>3 DEF BookingFits, HasCause
      <3> QED
        BY <3>1, <3>2
    <2> QED
      BY <2>2, <2>3, <2>4 DEF BookingFits
  <1>15. ASSUME NEW y \in Pages PROVE PageFits(y, page[y])'
    <2>1. CASE y = x
      BY <1>9, <1>10, <2>1 DEF PageFits, HasCancelled
    <2>2. CASE y # x
      <3>1. PICK p \in PageRecords : p = page[y] /\ p = page'[y]
        BY <1>0, <1>10, <2>2
      <3>2. PageFits(y, p)
        BY <1>0, <3>1 DEF PagesInv
      <3>3. p.pc # "closed" => p.booking \in Bookings /\ EverWas(p.booking, "confirmed")'
        BY <1>7, <1>8, <3>2 DEF PageFits
      <3>4. HasCancelled(p) => /\ supplier'[p.booking] = "cancelled"
                               /\ supplierMoney'[p.booking] = p.refund
                               /\ ~ EverWas(p.booking, "cancelled")'
        BY <1>2, <1>7, <1>8, <1>11, <2>2, <3>1, <3>2 DEF PageFits, HasCancelled
      <3>5. p.pc = "committing" /\ y \in AdminPages /\ ~ p.payable => AmountOf(RefundRows(p.booking))' >= Total
        <4>1. SUFFICES ASSUME p.pc = "committing" /\ y \in AdminPages /\ ~ p.payable
                       PROVE  AmountOf(RefundRows(p.booking))' >= Total
          OBVIOUS
        <4>2. AmountOf(RefundRows(p.booking)) >= Total /\ p.booking \in Bookings
          BY <3>2, <4>1 DEF PageFits
        <4> QED
          BY <1>6, <4>2, RefundsAssumption
      <3> QED
        BY <3>1, <3>3, <3>4, <3>5 DEF PageFits
    <2> QED
      BY <2>1, <2>2
  <1>16. OnePage'
    <2>1. ASSUME NEW y \in Pages, HasCancelled(page'[y])
          PROVE  HasCancelled(page[y]) /\ page'[y].booking = page[y].booking
      BY <1>9, <1>10, <2>1
    <2> QED
      BY <1>0, <2>1 DEF PagesInv, OnePage
  <1>17. SupplierRefundBookedOnce'
    <2>1. ASSUME NEW c \in Bookings
          PROVE  supplierLedger'[c] = IF EverWas(c, "cancelled")' THEN supplierMoney'[c] ELSE 0
      <3>1. CASE c = b
        BY <1>2, <1>3, <1>8, <1>12, <3>1
      <3>2. CASE c # b
        <4>1. EverWas(c, "cancelled")' <=> EverWas(c, "cancelled")
          BY <1>7, <1>8, <3>2
        <4> QED
          BY <1>0, <1>2, <1>12, <3>2, <4>1 DEF PagesInv, SupplierRefundBookedOnce
      <3> QED
        BY <3>1, <3>2
    <2> QED
      BY <2>1 DEF SupplierRefundBookedOnce
  <1>18. CustomerMadeWhole'
    <2>1. ASSUME NEW c \in Bookings, EverWas(c, "cancelled")'
          PROVE  AmountOf(RefundRows(c))' >= supplierMoney'[c] + Markup
      <3>1. CASE c = b
        BY <1>1, <1>2, <1>3, <1>5, <1>6, <3>1, CommitPays
      <3>2. CASE c # b
        <4>1. AmountOf(RefundRows(c)) >= supplierMoney[c] + Markup
          BY <1>0, <1>7, <1>8, <2>1, <3>2 DEF PagesInv, CustomerMadeWhole, RefundRows
        <4>2. supplierMoney[c] \in Nat /\ Markup \in Nat /\ supplierMoney'[c] = supplierMoney[c]
          <5>1. supplierMoney[c] \in 0 .. Total
            BY <1>0, PageTypes DEF PagesInv
          <5> QED
            BY <1>2, <5>1, RefundsAssumption, CancellationAssumption
        <4> QED
          BY <1>6, <4>1, <4>2
      <3> QED
        BY <3>1, <3>2
    <2> QED
      BY <2>1 DEF CustomerMadeWhole, RefundRows
  <1> QED
    BY <1>4, <1>5, <1>13, <1>14, <1>15, <1>16, <1>17, <1>18 DEF CancelInv, PagesInv

-----------------------------------------------------------------------------
LEMMA CancelInit == InitCancel => CancelInv
  <1> SUFFICES ASSUME InitCancel PROVE CancelInv
    OBVIOUS
  <1>1. MoneyInv
    BY MoneyInit DEF InitCancel
  <1>2. /\ Init /\ autoApproved \in [Bookings -> BOOLEAN] /\ requested = [b \in Bookings |-> FALSE]
        /\ supplierLedger = [b \in Bookings |-> 0] /\ page = [x \in Pages |-> Closed]
        /\ supplier = [b \in Bookings |-> "live"] /\ supplierMoney = [b \in Bookings |-> 0]
        /\ pageFaults = 0
    BY DEF InitCancel
  <1>3. Total \in Nat /\ Markup \in 0 .. Total /\ MaxPageFaults \in Nat
    BY RefundsAssumption, CancellationAssumption
  <1>4. ASSUME NEW b \in Bookings
        PROVE  ~ EverWas(b, "cancelled") /\ ~ EverWas(b, "confirmed") /\ status[b] = "paid"
    <2>1. history[b] = <<HistoryRow("pending", "pending"), HistoryRow("pending", "awaiting_payment"),
                         HistoryRow("awaiting_payment", "paid")>>
      BY <1>2 DEF Init
    <2>2. ASSUME NEW i \in 1 .. Len(history[b]) PROVE history[b][i].to \in {"pending", "awaiting_payment", "paid"}
      <3>1. i \in {1, 2, 3}
        BY <2>1
      <3> QED
        BY <2>1, <3>1 DEF HistoryRow
    <2> QED
      BY <1>2, <2>2 DEF EverWas, Init
  <1>5. PICK cl \in PageRecords : cl = Closed /\ cl.pc = "closed"
    BY ClosedIsPage
  <1>6. \A x \in Pages : page[x] = cl
    BY <1>2, <1>5
  <1>7. PagesOK
    <2>1. page \in [Pages -> PageRecords]
      BY <1>2, <1>5
    <2>2. supplierLedger \in [Bookings -> 0 .. Total] /\ supplierMoney \in [Bookings -> 0 .. Total]
      BY <1>2, <1>3
    <2> QED
      BY <1>2, <1>3, <2>1, <2>2 DEF PagesOK, PageRecords
  <1>8. ASSUME NEW b \in Bookings PROVE BookingFits(b)
    BY <1>2, <1>3, <1>4 DEF BookingFits, HistoryFits, OrderFits, HasCause
  <1>9. ASSUME NEW x \in Pages PROVE PageFits(x, page[x])
    BY <1>5, <1>6 DEF PageFits, HasCancelled
  <1>10. OnePage
    BY <1>5, <1>6 DEF OnePage, HasCancelled
  <1>11. SupplierRefundBookedOnce /\ CustomerMadeWhole
    BY <1>2, <1>4 DEF SupplierRefundBookedOnce, CustomerMadeWhole
  <1> QED
    BY <1>1, <1>7, <1>8, <1>9, <1>10, <1>11 DEF CancelInv, PagesInv

\* What the pages know rests on their own variables, the bookings and the refund rows.
LEMMA PagesRest ==
  ASSUME PagesInv, UNCHANGED <<status, history, refund, amount>>,
         UNCHANGED <<autoApproved, requested, supplierLedger, page, supplier, supplierMoney,
                     pageFaults>>
  PROVE  PagesInv'
  <1>1. \A b : RefundRows(b)' = RefundRows(b) /\ AmountOf(RefundRows(b))' = AmountOf(RefundRows(b))
    BY DEF RefundRows, Rows, AmountOf
  <1>2. \A b, s : EverWas(b, s)' <=> EverWas(b, s)
    BY DEF EverWas
  <1>3. PagesOK' /\ OnePage'
    BY DEF PagesInv, PagesOK, OnePage
  <1>4. ASSUME NEW b \in Bookings PROVE BookingFits(b)'
    BY <1>1, <1>2 DEF PagesInv, BookingFits, HistoryFits, OrderFits, HasCause
  <1>5. ASSUME NEW x \in Pages PROVE PageFits(x, page[x])'
    BY <1>1, <1>2 DEF PagesInv, PageFits
  <1>6. SupplierRefundBookedOnce' /\ CustomerMadeWhole'
    BY <1>1, <1>2 DEF PagesInv, SupplierRefundBookedOnce, CustomerMadeWhole, RefundRows
  <1> QED
    BY <1>3, <1>4, <1>5, <1>6 DEF PagesInv

LEMMA StepOfRollback ==
  ASSUME CancelInv, NEW x \in Executors, RecordThrows(x)
  PROVE  CancelInv'
  <1>1. MoneyInv /\ RefundsInv /\ PagesInv /\ CreditOK
    BY TypeParts DEF CancelInv, MoneyInv, RefundsInv
  <1>2. /\ UNCHANGED <<status, history, refund, amount, captures, overtaken>>
        /\ UNCHANGED <<autoApproved, requested, supplierLedger, page, supplier, supplierMoney,
                       pageFaults>>
    BY DEF RecordThrows, rowVars, tableVars, creditVars, pageVars
  <1>3. Kept
    BY <1>1, StepOfThrow
  <1>4. CreditOK'
    BY <1>1, <1>2 DEF CreditOK
  <1>5. TypeOK'
    BY <1>3, <1>4 DEF Kept, CoreOK, TypeOK, BookingsOK, RowsOK, QueueOK, CountsOK, CreditOK,
                      Runs, RunPCs, RefundStates
  <1>6. RefundsInv'
    BY <1>3, <1>5 DEF Kept, RefundsInv
  <1>7. MoneyKept
    BY <1>1, <1>2, <1>5, MoneyOfThrow
  <1>8. PagesInv'
    BY <1>1, <1>2, PagesRest
  <1> QED
    BY <1>6, <1>7, <1>8 DEF CancelInv, MoneyInv, MoneyKept

LEMMA CancelStep ==
  ASSUME CancelInv, [NextCancel]_cancelVars
  PROVE  /\ CancelInv'
         /\ [Next \/ StaleWrite \/ \E x \in Executors : RecordThrows(x)]_refundVars
  <1>1. CASE Pipeline /\ UNCHANGED pageVars
    BY <1>1, StepOfPipeline DEF Next
  <1>2. ASSUME NEW x \in Pages, PageStep(x)
        PROVE  CancelInv' /\ [Next \/ StaleWrite]_refundVars
    <2>1. CASE \/ \E b \in Bookings : OpenModal(x, b) \/ OpenAdminForm(x, b)
               \/ QuoteArrives(x) \/ CloseModal(x) \/ Submit(x) \/ CheckPayment(x)
      BY <2>1, StepOfModal
    <2>2. CASE ReadPayment(x) \/ RequestDies(x) \/ CommitRefused(x)
      BY <2>2, StepOfRequest
    <2>3. CASE CancelOrder(x)
      BY <2>3, StepOfOrder
    <2>4. CASE SaveRequest(x)
      BY <2>4, StepOfSave
    <2>5. CASE CommitCancel(x)
      BY <2>5, StepOfCommit
    <2> QED
      BY <1>2, <2>1, <2>2, <2>3, <2>4, <2>5 DEF PageStep
  <1>3. CASE UNCHANGED cancelVars
    <2>1. UNCHANGED refundVars /\ UNCHANGED <<autoApproved, requested, supplierLedger, page, supplier,
                                              supplierMoney, pageFaults>>
      BY <1>3 DEF cancelVars, pageVars
    <2>2. MoneyInv'
      BY <2>1, MoneyStep DEF CancelInv, refundVars
    <2>3. UNCHANGED <<status, history, refund, amount>>
      BY <2>1 DEF refundVars, vars, rowVars, tableVars
    <2>4. PagesInv'
      BY <2>1, <2>3, PagesRest DEF CancelInv
    <2> QED
      BY <2>1, <2>2, <2>4 DEF CancelInv
  <1>4. ASSUME NEW x \in Executors, RecordThrows(x) PROVE CancelInv'
    BY <1>4, StepOfRollback
  <1> QED
    BY <1>1, <1>2, <1>3, <1>4 DEF NextCancel

LEMMA CancelInductive == SpecCancel => []CancelInv
  <1>1. CancelInv /\ [NextCancel]_cancelVars => CancelInv'
    BY CancelStep
  <1> QED
    BY <1>1, CancelInit, PTL DEF SpecCancel

-----------------------------------------------------------------------------
\* However many modals, roles and retried requests cancel a booking while its refunds
\* are executed and others are committed: no booking reads cancelled while Duffel holds
\* the seat, a request about to commit had its order cancelled, and an order cancelled
\* for a booking that never was is about to be, or has a fault or a refund behind it.
THEOREM CancellationsDoAgree == SpecCancel => []CancellationsAgree
  <1>1. CancelInv => CancellationsAgree
    <2> SUFFICES ASSUME CancelInv PROVE CancellationsAgree
      OBVIOUS
    <2>1. PagesOK /\ \A b \in Bookings : HistoryFits(b) /\ OrderFits(b) /\ HasCause(b)
      BY DEF CancelInv, PagesInv, BookingFits
    <2>2. ASSUME NEW x \in Pages, page[x].pc \in {"reading", "committing"}
          PROVE  supplier[page[x].booking] = "cancelled"
      BY <2>2, HoldsRefund DEF HasCancelled
    <2>3. ASSUME NEW b \in Bookings
          PROVE  /\ EverWas(b, "cancelled") => supplier[b] = "cancelled"
                 /\ ~ EverWas(b, "cancelled") /\ supplier[b] = "cancelled" =>
                       \/ \E x \in Pages : /\ page[x].booking = b
                                           /\ page[x].pc \in {"reading", "committing"}
                       \/ pageFaults > 0
                       \/ \E r \in Rows(b) : refund[r] # "none"
      <3>1. supplier[b] \in {"live", "cancelled"}
        BY <2>1 DEF PagesOK
      <3> QED
        BY <2>1, <3>1 DEF OrderFits, HasCause, HasCancelled, RefundRows
    <2> QED
      BY <2>1, <2>2, <2>3 DEF CancellationsAgree
  <1> QED
    BY <1>1, CancelInductive, PTL

\* What Duffel paid back for an order is in the ledger with the cancellation and never
\* without it, and once: the request that commits is the one Duffel answered.
THEOREM SupplierRefundIsBookedOnce == SpecCancel => []SupplierRefundBookedOnce
  <1>1. CancelInv => SupplierRefundBookedOnce
    BY DEF CancelInv, PagesInv
  <1> QED
    BY <1>1, CancelInductive, PTL

\* A cancelled customer has refund rows worth the supplier's refund and the markup: the
\* one the commit inserts, or, where an admin cancels without one, those that had the
\* payment refunded before.
THEOREM CustomerIsMadeWhole == SpecCancel => []CustomerMadeWhole
  <1>1. CancelInv => CustomerMadeWhole
    BY DEF CancelInv, PagesInv
  <1> QED
    BY <1>1, CancelInductive, PTL

\* The pages and requests of a cancellation do to the refund pipeline what its own
\* specification allows, its checks included, but for the stale status an entity save
\* can write and the recording that throws on it.
THEOREM CancellationKeepsToRefunds == SpecCancel => KeepsToRefunds
  <1>1. CancelInv /\ [NextCancel]_cancelVars =>
            [Next \/ StaleWrite \/ \E x \in Executors : RecordThrows(x)]_refundVars
    BY CancelStep
  <1>2. InitCancel => Init
    BY DEF InitCancel
  <1> QED
    BY <1>1, <1>2, CancelInductive, PTL DEF SpecCancel, KeepsToRefunds

\* That stale status does not upset what is proved of the pipeline: a refund is recorded
\* once, its payouts have a cause, and the payment's rollup is supported by its rows.
THEOREM CancellationKeepsMoney ==
    SpecCancel => [](RollupIsSupported /\ RecordedOnce /\ PayoutsHaveACause)
  <1>1. CancelInv => RollupIsSupported /\ RecordedOnce /\ PayoutsHaveACause
    BY MoneyExplains DEF CancelInv, MoneyInv, RefundsInv, Money
  <1> QED
    BY <1>1, CancelInductive, PTL
=============================================================================
