---------------------------- MODULE EntryProofs -----------------------------
(***************************************************************************)
(* Theorems about the way to an entry: about RiskGate, for any symbols,    *)
(* limits, periods and orders, and about Signals, for any bars, settings   *)
(* and accounts.                                                           *)
(***************************************************************************)
EXTENDS RiskGate, Signals, FiniteSetTheorems, SequenceTheorems, WellFoundedInduction, TLAPS

-----------------------------------------------------------------------------
(***************************************************************************)
(* RiskGate.                                                               *)
(***************************************************************************)
\* The watchdog is at most a period behind, and a feed that was silent for too
\* long at its last cycle has kept the breaker tripped since.
SilenceTrips == \A s \in Symbols : age[s] > StaleLimit + late => left >= Cooldown - late

\* The loop has not got past the risk check again since an entry was sent
\* against a tripped breaker,
SentBlocked == sent > 0 => Tripped /\ decision # "approved"

\* nor since one was refused at the threshold, until a cooldown later.
RefusedBlocked == refused <= Cooldown => left + refused >= Cooldown /\ decision = "idle"

IInv == TypeOK /\ SilenceTrips /\ SentBlocked /\ RefusedBlocked /\ TripIsVisible /\ OneEntryAfterTrip

-----------------------------------------------------------------------------
\* The first of a chain of checks decides when it fails.
LEMMA FirstDecides ==
    ASSUME NEW checks, NEW passed, DOMAIN checks \subseteq Nat \ {0},
           1 \in DOMAIN checks, checks[1].fails
    PROVE  FirstFailing(checks, passed) = checks[1].reason
  <1> DEFINE failing == {i \in DOMAIN checks : checks[i].fails}
             first == CHOOSE i \in failing : \A j \in failing : i <= j
  <1>1. 1 \in failing
    OBVIOUS
  <1>2. \A j \in failing : 1 <= j
    OBVIOUS
  <1>3. first \in failing /\ \A j \in failing : first <= j
    BY <1>1, <1>2
  <1>4. first <= 1 /\ 1 <= first
    BY <1>1, <1>2, <1>3
  <1>5. first \in Nat
    BY <1>3
  <1>6. first = 1
    BY <1>4, <1>5
  <1> QED
    BY <1>1, <1>6 DEF FirstFailing

\* The breaker is the first thing the risk engine looks at.
LEMMA TrippedRefuses ==
    ASSUME NEW portfolio, NEW order
    PROVE  Evaluate(TRUE, portfolio, order) # "approved"
  BY FirstDecides DEF Evaluate, Check

-----------------------------------------------------------------------------
LEMMA InitHolds == ASSUME Init PROVE IInv
  <1> USE PeriodsAssumption DEF Init
  <1>1. TypeOK
    <2>1. flag \in BOOLEAN /\ safe_mode \in BOOLEAN
      BY SwitchesAssumption
    <2>2. age \in [Symbols -> 0 .. StaleAge]
      BY DEF StaleAge
    <2>3. /\ late \in 0 .. WatchEvery /\ left \in -1 .. Cooldown
          /\ rejections \in 0 .. MaxRejections
          /\ sent \in 0 .. 2 /\ refused \in 0 .. Cooldown + 1
      OBVIOUS
    <2> QED
      BY <2>1, <2>2, <2>3 DEF TypeOK
  <1>2. SilenceTrips
    BY DEF SilenceTrips
  <1>3. SentBlocked /\ RefusedBlocked /\ TripIsVisible /\ OneEntryAfterTrip
    BY DEF SentBlocked, RefusedBlocked, TripIsVisible, OneEntryAfterTrip, Tripped
  <1> QED
    BY <1>1, <1>2, <1>3 DEF IInv

\* Time takes as much from the cooldown as it adds to the watchdog's delay and
\* to the age of a refusal; the entry sent is forgotten with the trip.
LEMMA TickKeeps == ASSUME IInv, Tick PROVE IInv'
  <1> USE PeriodsAssumption DEF IInv, TypeOK, Tick, Tripped, StaleAge
  <1>1. TypeOK'
    BY DEF SentBlocked
  <1>2. SilenceTrips'
    <2> SUFFICES ASSUME NEW s \in Symbols, age'[s] > StaleLimit + late'
                 PROVE  left' >= Cooldown - late'
      BY DEF SilenceTrips
    <2>1. age[s] > StaleLimit + late
      OBVIOUS
    <2>2. left >= Cooldown - late
      BY <2>1 DEF SilenceTrips
    <2> QED
      BY <2>2
  <1>3. SentBlocked' /\ RefusedBlocked' /\ TripIsVisible' /\ OneEntryAfterTrip'
    BY DEF SentBlocked, RefusedBlocked, TripIsVisible, OneEntryAfterTrip
  <1> QED
    BY <1>1, <1>2, <1>3

\* A cycle finds every feed that the invariant speaks of.
LEMMA WatchdogKeeps == ASSUME IInv, WatchdogCycle PROVE IInv'
  <1> USE PeriodsAssumption DEF IInv, TypeOK, WatchdogCycle, Trip
  <1>1. flag' \in BOOLEAN
    <2>1. Tripped \in BOOLEAN
      BY DEF Tripped
    <2> QED
      BY <2>1
  <1>2. TypeOK'
    <2>1. left' \in -1 .. Cooldown /\ late' \in 0 .. WatchEvery
      OBVIOUS
    <2>2. safe_mode' \in BOOLEAN
      OBVIOUS
    <2> QED
      BY <1>1, <2>1, <2>2
  <1>3. SilenceTrips'
    BY DEF SilenceTrips, Stale
  <1>4. SentBlocked' /\ RefusedBlocked' /\ TripIsVisible' /\ OneEntryAfterTrip'
    BY DEF SentBlocked, RefusedBlocked, TripIsVisible, OneEntryAfterTrip, Tripped
  <1> QED
    BY <1>2, <1>3, <1>4

LEMMA SeenKeeps == ASSUME IInv, NEW s \in Symbols, Seen(s) PROVE IInv'
  <1> USE PeriodsAssumption DEF IInv, TypeOK, Seen, Tripped
  <1>1. TypeOK'
    BY DEF StaleAge
  <1>2. SilenceTrips'
    BY DEF SilenceTrips
  <1>3. SentBlocked' /\ RefusedBlocked' /\ TripIsVisible' /\ OneEntryAfterTrip'
    BY DEF SentBlocked, RefusedBlocked, TripIsVisible, OneEntryAfterTrip
  <1> QED
    BY <1>1, <1>2, <1>3

\* The refresh touches the safe mode, on which no part rests.
LEMMA RefreshKeepsInv == ASSUME IInv, RefreshCycle PROVE IInv'
  <1> USE SwitchesAssumption
          DEF IInv, TypeOK, SilenceTrips, SentBlocked, RefusedBlocked, TripIsVisible,
              OneEntryAfterTrip, Tripped
  <1>1. CASE RefreshStart
    BY <1>1 DEF RefreshStart
  <1>2. CASE RefreshDone
    BY <1>2 DEF RefreshDone
  <1>3. CASE RefreshFails
    BY <1>3 DEF RefreshFails
  <1> QED
    BY <1>1, <1>2, <1>3 DEF RefreshCycle

\* A refusal leaves the cooldown or starts it anew.
LEMMA RejectionLengthens ==
    ASSUME IInv, Rejection
    PROVE  /\ left' \in -1 .. Cooldown /\ left' >= left
           /\ rejections' \in 0 .. MaxRejections
           /\ rejections' = MaxRejections => left' = Cooldown
           /\ flag' \in BOOLEAN /\ (left' >= 0 => flag')
  <1>1. (left' >= 0) \in BOOLEAN
    OBVIOUS
  <1>2. flag' = (left' >= 0)
    BY DEF Rejection
  <1>3. flag' \in BOOLEAN
    BY <1>1, <1>2
  <1>4. left' >= 0 => flag'
    BY <1>2
  <1>5. /\ left' \in -1 .. Cooldown /\ left' >= left
        /\ rejections' \in 0 .. MaxRejections
        /\ rejections' = MaxRejections => left' = Cooldown
    BY PeriodsAssumption DEF IInv, TypeOK, Rejection, TripIfNeeded, Trip
  <1> QED
    BY <1>3, <1>4, <1>5

LEMMA OtherRefusedKeeps == ASSUME IInv, OtherRefused PROVE IInv'
  <1> USE PeriodsAssumption DEF IInv, TypeOK, OtherRefused, Tripped
  <1>1. TypeOK'
    BY RejectionLengthens
  <1>2. SilenceTrips' /\ SentBlocked' /\ RefusedBlocked' /\ TripIsVisible' /\ OneEntryAfterTrip'
    BY RejectionLengthens
       DEF SilenceTrips, SentBlocked, RefusedBlocked, TripIsVisible, OneEntryAfterTrip
  <1> QED
    BY <1>1, <1>2

\* An approval finds the breaker closed.
LEMMA ApproveUntripped == ASSUME IInv, Approve PROVE ~Tripped
  <1>1. PICK order \in Orders : Approved(order)
    BY DEF Approve
  <1>2. Evaluate(Tripped, Portfolio, order) = "approved"
    BY <1>1 DEF Approved
  <1>3. Tripped \in BOOLEAN
    BY DEF Tripped
  <1> QED
    BY <1>2, <1>3, TrippedRefuses

LEMMA LoopKeeps == ASSUME IInv, DecisionLoop PROVE IInv'
  <1> USE PeriodsAssumption
          DEF IInv, TypeOK, SilenceTrips, SentBlocked, RefusedBlocked, TripIsVisible,
              OneEntryAfterTrip
  <1>1. CASE Approve
    BY <1>1, ApproveUntripped DEF Approve, Tripped
  <1>2. CASE Drop
    BY <1>2 DEF Drop, Tripped
  <1>3. CASE Send
    BY <1>3 DEF Send, Tripped
  <1>4. CASE EntryAccepted
    BY <1>4 DEF EntryAccepted, Tripped
  <1>5. CASE EntryRefused
    BY <1>5, RejectionLengthens DEF EntryRefused, Tripped
  <1> QED
    BY <1>1, <1>2, <1>3, <1>4, <1>5 DEF DecisionLoop

LEMMA StepKeeps == ASSUME IInv, [Next]_vars PROVE IInv'
  <1>1. CASE UNCHANGED vars
    BY <1>1 DEF vars, IInv, TypeOK, SilenceTrips, SentBlocked, RefusedBlocked,
                TripIsVisible, OneEntryAfterTrip, Tripped
  <1> QED
    BY <1>1, TickKeeps, SeenKeeps, WatchdogKeeps, RefreshKeepsInv, LoopKeeps,
       OtherRefusedKeeps DEF Next, Feed

LEMMA Invariant == Spec => []IInv
  BY InitHolds, StepKeeps, PTL DEF Spec

-----------------------------------------------------------------------------
\* circuit_breaker, staleness and the refresh stay within their ranges: the
\* cooldown is never longer than configured, whatever trips the breaker anew.
THEOREM TypeCorrect == Spec => []TypeOK
  <1>1. IInv => TypeOK
    BY DEF IInv
  <1> QED
    BY <1>1, Invariant, PTL

\* _submit_intent and _watchdog_cycle: no trip happens behind the back of the
\* health flag.
THEOREM Visible == Spec => []TripIsVisible
  <1>1. IInv => TripIsVisible
    BY DEF IInv
  <1> QED
    BY <1>1, Invariant, PTL

\* _decision_loop: at most the entry that had passed the risk check before goes
\* out between a trip and the end of its cooldown.
THEOREM OneEntry == Spec => []OneEntryAfterTrip
  <1>1. IInv => OneEntryAfterTrip
    BY DEF IInv
  <1> QED
    BY <1>1, Invariant, PTL

\* The watchdog and the breaker together keep entries from a stale feed, and
\* that although the refresh clears the safe mode: the cooldown is not over
\* when the next cycle comes.
THEOREM NotOnStaleFeed == Spec => NoApprovalOnStaleFeed
  <1>1. ASSUME IInv, Approve, NEW s \in Symbols
        PROVE  age[s] <= StaleLimit + WatchEvery
    <2>1. ~Tripped
      BY <1>1, ApproveUntripped
    <2>2. ~(age[s] > StaleLimit + late)
      BY <1>1, <2>1, PeriodsAssumption DEF IInv, TypeOK, SilenceTrips, Tripped
    <2> QED
      BY <1>1, <2>2, PeriodsAssumption DEF IInv, TypeOK, StaleAge
  <1>2. IInv => [Approve => \A s \in Symbols : age[s] <= StaleLimit + WatchEvery]_vars
    BY <1>1
  <1> QED
    BY <1>2, Invariant, PTL DEF NoApprovalOnStaleFeed

\* _trip_if_needed: the refusal at the threshold has its cooldown, although the
\* count is never reset.
THEOREM Spaced == Spec => RefusalsSpaced
  <1>1. IInv => [EntryRefused /\ rejections = MaxRejections => refused > Cooldown]_vars
    BY PeriodsAssumption DEF IInv, TypeOK, RefusedBlocked, EntryRefused
  <1> QED
    BY <1>1, Invariant, PTL DEF RefusalsSpaced

-----------------------------------------------------------------------------
(***************************************************************************)
(* Signals.  First sums, which the code takes over windows and portfolios. *)
(***************************************************************************)
\* A set of numbers that is not empty has a least one.
LEMMA LeastOf ==
    ASSUME NEW F \in SUBSET Nat, F # {} PROVE \E m \in F : \A j \in F : m <= j
  <1>1. PICK m \in F : \A j \in F : ~(<<j, m>> \in OpToRel(<, Nat))
    BY NatLessThanWellFounded, WFMin
  <1>2. \A j \in F : ~(j < m)
    BY <1>1 DEF OpToRel
  <1> QED BY <1>2

-----------------------------------------------------------------------------
\* The element a sum takes next, and the sums over the subsets of the domain.
NextOf(s) == CHOOSE x \in s : TRUE

Sums(fun, g) ==
    [s \in SUBSET DOMAIN fun |->
        IF s = {} THEN 0 ELSE fun[NextOf(s)] + g[s \ {NextOf(s)}]]

LEMMA SumDef ==
    ASSUME NEW fun PROVE SumFunction(fun) = (CHOOSE g : g = Sums(fun, g))[DOMAIN fun]
  BY DEF SumFunction, SumFunctionOnSet, FoldFunctionOnSet, MapThenFoldSet, Sums, NextOf

\* One element less.
LEMMA RestSmaller ==
    ASSUME NEW D, IsFiniteSet(D), NEW s \in SUBSET D, s # {}
    PROVE  /\ NextOf(s) \in s /\ s \ {NextOf(s)} \in SUBSET D
           /\ Cardinality(s) \in Nat \ {0}
           /\ Cardinality(s \ {NextOf(s)}) = Cardinality(s) - 1
  <1>1. NextOf(s) \in s
    BY DEF NextOf
  <1>2. IsFiniteSet(s)
    BY FS_Subset
  <1>3. Cardinality(s) \in Nat /\ Cardinality(s) # 0
    BY <1>2, FS_CardinalityType, FS_EmptySet
  <1> QED BY <1>1, <1>2, <1>3, FS_RemoveElement

\* The recursion of a sum has a solution.
LEMMA SumsExist ==
    ASSUME NEW fun, IsFiniteSet(DOMAIN fun), \A x \in DOMAIN fun : fun[x] \in Int
    PROVE  \E g : g = Sums(fun, g)
  <1> DEFINE D == DOMAIN fun
             UpTo(n, g) == /\ g \in [SUBSET D -> Int]
                           /\ \A s \in SUBSET D : Cardinality(s) <= n => g[s] = Sums(fun, g)[s]
             F == {n \in Nat : ~\E g : UpTo(n, g)}
  <1>1. \A s \in SUBSET D : Cardinality(s) \in Nat /\ (Cardinality(s) = 0 <=> s = {})
    BY FS_Subset, FS_CardinalityType, FS_EmptySet
  <1>2. F = {}
    <2> SUFFICES ASSUME F # {} PROVE FALSE
      OBVIOUS
    <2>1. PICK m \in F : \A j \in F : m <= j
      BY LeastOf
    <2>2. CASE m = 0
      <3>1. PICK g : g = [s \in SUBSET D |-> 0]
        OBVIOUS
      <3>2. \A s \in SUBSET D : Cardinality(s) <= 0 => g[s] = Sums(fun, g)[s]
        BY <1>1, <3>1 DEF Sums
      <3>3. UpTo(m, g)
        BY <2>2, <3>1, <3>2
      <3> QED BY <2>1, <3>3
    <2>3. CASE m # 0
      <3>1. m - 1 \in Nat /\ m \in Nat
        BY <2>1, <2>3
      <3>2. m - 1 \notin F
        <4> SUFFICES ASSUME m - 1 \in F PROVE FALSE
          OBVIOUS
        <4>1. m <= m - 1
          BY <2>1
        <4> QED BY <3>1, <4>1
      <3>3. PICK g : UpTo(m - 1, g)
        BY <3>1, <3>2
      <3>4. PICK h : h = Sums(fun, g)
        OBVIOUS
      <3>5. \A s \in SUBSET D : Cardinality(s) <= m - 1 => h[s] = g[s]
        BY <3>3, <3>4
      <3>6. h \in [SUBSET D -> Int]
        <4>1. \A s \in SUBSET D : s # {} => fun[NextOf(s)] + g[s \ {NextOf(s)}] \in Int
          BY <3>3 DEF NextOf
        <4>2. \A s \in SUBSET D :
                 (IF s = {} THEN 0 ELSE fun[NextOf(s)] + g[s \ {NextOf(s)}]) \in Int
          BY <4>1
        <4>3. h = [s \in SUBSET D |->
                     IF s = {} THEN 0 ELSE fun[NextOf(s)] + g[s \ {NextOf(s)}]]
          BY <3>4 DEF Sums
        <4> QED BY <4>2, <4>3
      <3>7. ASSUME NEW s \in SUBSET D, Cardinality(s) <= m PROVE h[s] = Sums(fun, h)[s]
        <4>1. CASE s = {}
          BY <3>4, <4>1 DEF Sums
        <4>2. CASE s # {}
          <5>1. /\ s \ {NextOf(s)} \in SUBSET D /\ Cardinality(s) \in Nat
                /\ Cardinality(s \ {NextOf(s)}) = Cardinality(s) - 1
            BY <4>2, RestSmaller
          <5>2. h[s \ {NextOf(s)}] = g[s \ {NextOf(s)}]
            BY <3>1, <3>5, <3>7, <5>1
          <5> QED BY <3>4, <4>2, <5>2 DEF Sums
        <4> QED BY <4>1, <4>2
      <3>8. UpTo(m, h)
        BY <3>6, <3>7
      <3> QED BY <2>1, <3>8
    <2> QED BY <2>2, <2>3
  <1>3. Cardinality(D) \in Nat /\ \A s \in SUBSET D : Cardinality(s) <= Cardinality(D)
    BY FS_Subset, FS_CardinalityType
  <1>4. PICK g : UpTo(Cardinality(D), g)
    BY <1>2, <1>3
  <1>5. g \in [SUBSET D -> Int] /\ \A s \in SUBSET D : g[s] = Sums(fun, g)[s]
    BY <1>3, <1>4
  <1>6. g = Sums(fun, g)
    BY <1>5 DEF Sums
  <1> QED BY <1>6

\* What is true of every subset: the sum is a number and, of figures that are
\* not negative, no less than any of them.
LEMMA SumsAre ==
    ASSUME NEW fun, IsFiniteSet(DOMAIN fun), \A x \in DOMAIN fun : fun[x] \in Int,
           NEW g, g = Sums(fun, g)
    PROVE  \A s \in SUBSET DOMAIN fun :
              /\ g[s] \in Int
              /\ (\A x \in s : fun[x] >= 0) => g[s] >= 0 /\ \A x \in s : g[s] >= fun[x]
  <1> DEFINE D == DOMAIN fun
             Sound(s) == /\ g[s] \in Int
                         /\ (\A x \in s : fun[x] >= 0) => g[s] >= 0 /\ \A x \in s : g[s] >= fun[x]
             F == {n \in Nat : \E s \in SUBSET D : Cardinality(s) = n /\ ~Sound(s)}
  <1>1. \A s \in SUBSET D : Cardinality(s) \in Nat
    BY FS_Subset, FS_CardinalityType
  <1>2. F = {}
    <2> SUFFICES ASSUME F # {} PROVE FALSE
      OBVIOUS
    <2>1. PICK m \in F : \A j \in F : m <= j
      BY LeastOf
    <2>2. PICK s \in SUBSET D : Cardinality(s) = m /\ ~Sound(s)
      BY <2>1
    <2>3. CASE s = {}
      <3>1. g[s] = 0
        BY <2>3 DEF Sums
      <3> QED BY <2>2, <2>3, <3>1
    <2>4. CASE s # {}
      <3>1. PICK x, r : x = NextOf(s) /\ r = s \ {x}
        OBVIOUS
      <3>2. /\ x \in s /\ r \in SUBSET D /\ Cardinality(s) \in Nat \ {0}
            /\ Cardinality(r) = Cardinality(s) - 1
        BY <2>4, <3>1, RestSmaller
      <3>3. Cardinality(r) \in Nat /\ Cardinality(r) < m
        BY <2>2, <3>2
      <3>4. Sound(r)
        BY <2>1, <3>2, <3>3
      <3>5. g[s] = fun[x] + g[r]
        BY <2>4, <3>1 DEF Sums
      <3>6. fun[x] \in Int /\ g[r] \in Int
        BY <3>2, <3>4
      <3>7. \A y \in s : y = x \/ y \in r
        BY <3>1
      <3>8. Sound(s)
        <4>1. g[s] \in Int
          BY <3>5, <3>6
        <4>2. ASSUME \A y \in s : fun[y] >= 0 PROVE g[s] >= 0 /\ \A y \in s : g[s] >= fun[y]
          <5>1. fun[x] >= 0 /\ \A y \in r : fun[y] >= 0
            BY <3>1, <3>2, <4>2
          <5>2. g[r] >= 0 /\ \A y \in r : g[r] >= fun[y]
            BY <3>4, <5>1
          <5>3. \A y \in r : fun[y] \in Int
            BY <3>2
          <5>4. g[s] >= 0 /\ g[s] >= fun[x] /\ g[s] >= g[r]
            BY <3>5, <3>6, <5>1, <5>2
          <5>5. \A y \in r : g[s] >= fun[y]
            BY <3>6, <4>1, <5>2, <5>3, <5>4
          <5> QED BY <3>7, <5>4, <5>5
        <4> QED BY <4>1, <4>2
      <3> QED BY <2>2, <3>8
    <2> QED BY <2>3, <2>4
  <1> QED BY <1>1, <1>2

\* A sum of numbers is a number and, of figures that are not negative, no less
\* than any of them.
LEMMA SumSound ==
    ASSUME NEW fun, IsFiniteSet(DOMAIN fun), \A x \in DOMAIN fun : fun[x] \in Int
    PROVE  /\ SumFunction(fun) \in Int
           /\ (\A x \in DOMAIN fun : fun[x] >= 0) =>
                 SumFunction(fun) >= 0 /\ \A x \in DOMAIN fun : SumFunction(fun) >= fun[x]
  <1>1. PICK g : g = (CHOOSE h : h = Sums(fun, h))
    OBVIOUS
  <1>2. g = Sums(fun, g)
    BY <1>1, SumsExist
  <1>3. SumFunction(fun) = g[DOMAIN fun]
    BY <1>1, SumDef
  <1>4. DOMAIN fun \in SUBSET DOMAIN fun
    OBVIOUS
  <1>5. /\ g[DOMAIN fun] \in Int
        /\ (\A x \in DOMAIN fun : fun[x] >= 0) =>
              g[DOMAIN fun] >= 0 /\ \A x \in DOMAIN fun : g[DOMAIN fun] >= fun[x]
    BY <1>2, <1>4, SumsAre
  <1> QED BY <1>3, <1>5

\* Figures over a finite domain have a greatest one.
LEMMA GreatestOf ==
    ASSUME NEW fun, IsFiniteSet(DOMAIN fun), DOMAIN fun # {}, \A x \in DOMAIN fun : fun[x] \in Nat
    PROVE  \E x \in DOMAIN fun : \A y \in DOMAIN fun : fun[y] <= fun[x]
  <1>1. PICK n : n = SumFunction(fun)
    OBVIOUS
  <1>2. n \in Int /\ \A x \in DOMAIN fun : fun[x] <= n
    BY <1>1, SumSound
  <1>3. {n - fun[x] : x \in DOMAIN fun} \in SUBSET Nat /\ {n - fun[x] : x \in DOMAIN fun} # {}
    BY <1>2
  <1>4. PICK m \in {n - fun[x] : x \in DOMAIN fun} : \A j \in {n - fun[x] : x \in DOMAIN fun} : m <= j
    BY <1>3, LeastOf
  <1>5. PICK x \in DOMAIN fun : m = n - fun[x]
    BY <1>4
  <1>6. ASSUME NEW y \in DOMAIN fun PROVE fun[y] <= fun[x]
    <2>1. n - fun[x] <= n - fun[y]
      BY <1>4, <1>5, <1>6
    <2> QED BY <1>2, <1>5, <1>6, <2>1
  <1> QED BY <1>5, <1>6

\* The greatest of a set is above all of it.
LEMMA MaxIs ==
    ASSUME NEW S, NEW m \in S, \A y \in S : m >= y
    PROVE  Max(S) \in S /\ \A y \in S : Max(S) >= y
  BY DEF Max

\* The least of a set is below all of it.
LEMMA MinIs ==
    ASSUME NEW S, NEW m \in S, \A y \in S : m <= y
    PROVE  Min(S) \in S /\ \A y \in S : Min(S) <= y
  BY DEF Min

\* The greater of two numbers.
LEMMA MaxOfTwo ==
    ASSUME NEW a \in Int, NEW b \in Int
    PROVE  Max({a, b}) = IF a >= b THEN a ELSE b
  <1>1. CASE a >= b
    <2>1. Max({a, b}) \in {a, b} /\ \A y \in {a, b} : Max({a, b}) >= y
      BY <1>1, MaxIs
    <2> QED BY <1>1, <2>1
  <1>2. CASE ~(a >= b)
    <2>1. Max({a, b}) \in {a, b} /\ \A y \in {a, b} : Max({a, b}) >= y
      BY <1>2, MaxIs
    <2> QED BY <1>2, <2>1
  <1> QED BY <1>1, <1>2

\* The smaller of two numbers.
LEMMA MinOfTwo ==
    ASSUME NEW a \in Int, NEW b \in Int
    PROVE  Min({a, b}) = IF a <= b THEN a ELSE b
  <1>1. CASE a <= b
    <2>1. Min({a, b}) \in {a, b} /\ \A y \in {a, b} : Min({a, b}) <= y
      BY <1>1, MinIs
    <2> QED BY <1>1, <2>1
  <1>2. CASE ~(a <= b)
    <2>1. Min({a, b}) \in {a, b} /\ \A y \in {a, b} : Min({a, b}) <= y
      BY <1>2, MinIs
    <2> QED BY <1>2, <2>1
  <1> QED BY <1>1, <1>2

\* The greatest of three numbers.
LEMMA MaxOfThree ==
    ASSUME NEW a \in Int, NEW b \in Int, NEW c \in Int
    PROVE  /\ Max({a, b, c}) \in {a, b, c}
           /\ Max({a, b, c}) >= a /\ Max({a, b, c}) >= b /\ Max({a, b, c}) >= c
  <1>1. \E m \in {a, b, c} : \A y \in {a, b, c} : m >= y
    <2>1. CASE a >= b /\ a >= c
      BY <2>1
    <2>2. CASE b >= a /\ b >= c
      BY <2>2
    <2>3. CASE c >= a /\ c >= b
      BY <2>3
    <2> QED BY <2>1, <2>2, <2>3
  <1> QED BY <1>1, MaxIs

\* Division rounds down.
LEMMA RoundedDown ==
    ASSUME NEW x \in Int, NEW d \in Nat \ {0}
    PROVE  /\ x \div d \in Int /\ (x \div d) * d \in Int
           /\ (x \div d) * d <= x /\ x < (x \div d) * d + d
  BY Z3

\* The sign of a quotient.
LEMMA QuotientSign ==
    ASSUME NEW x \in Int, NEW d \in Nat \ {0}
    PROVE  (x >= 0 => x \div d >= 0) /\ (x <= 0 => x \div d <= 0)
  BY Z3

\* What is multiplied by a step is whole steps.
LEMMA WholeSteps ==
    ASSUME NEW k \in Int, NEW d \in Nat \ {0}
    PROVE  (k * d) % d = 0
  BY Z3

-----------------------------------------------------------------------------
\* A rate has the sign of the change.
LEMMA RateSign ==
    ASSUME NEW change \in Int, NEW base \in Int
    PROVE  /\ Rate(change, base) \in Int
           /\ change >= 0 => Rate(change, base) >= 0
           /\ change <= 0 => Rate(change, base) <= 0
  <1>1. AtLeast1(base) \in Nat \ {0}
    BY DEF AtLeast1
  <1>2. /\ change * 1000000 \in Int
        /\ change >= 0 => change * 1000000 >= 0
        /\ change <= 0 => change * 1000000 <= 0
    OBVIOUS
  <1> QED BY <1>1, <1>2, RoundedDown, QuotientSign DEF Rate

\* An absolute value is natural, and zero only of zero.
LEMMA AbsIs ==
    ASSUME NEW n \in Int PROVE Abs(n) \in Nat /\ (Abs(n) = 0 => n = 0)
  BY DEF Abs

-----------------------------------------------------------------------------
\* A bar of a history is one of those that can come.
LEMMA BarIs ==
    ASSUME NEW bs \in Seq(Candles), NEW i \in 1 .. Len(bs)
    PROVE  /\ bs[i] \in Candles
           /\ bs[i].high \in Nat /\ bs[i].low \in Nat /\ bs[i].close \in Nat /\ bs[i].volume \in Nat
           /\ bs[i].low <= bs[i].close /\ bs[i].close <= bs[i].high
  <1>1. bs[i] \in Candles
    BY ElementOfSeq
  <1> QED BY <1>1, BarsAssumption

\* The window of a full history holds all bars but the first and the last.
LEMMA WindowIs ==
    ASSUME NEW bs \in Seq(Candles), Len(bs) = Lookback + 2
    PROVE  /\ Window(bs) \in Seq(Candles)
           /\ Len(Window(bs)) = Lookback /\ DOMAIN Window(bs) = 1 .. Lookback
           /\ \A i \in 1 .. Lookback : Window(bs)[i] = bs[i + 1]
  <1>1. Lookback \in Nat \ {0}
    BY CandidatesAssumption
  <1>2. Window(bs) = SubSeq(bs, 2, Lookback + 1)
    BY <1>1 DEF Window
  <1>3. \A i \in 2 .. Lookback + 1 : bs[i] \in Candles
    BY <1>1, BarIs
  <1>4. /\ Window(bs) \in Seq(Candles) /\ Len(Window(bs)) = Lookback
        /\ \A i \in 1 .. Lookback : Window(bs)[i] = bs[2 + i - 1]
    BY <1>1, <1>2, <1>3, SubSeqProperties
  <1>5. DOMAIN Window(bs) = 1 .. Lookback
    BY <1>4, LenProperties
  <1>6. \A i \in 1 .. Lookback : 2 + i - 1 = i + 1
    BY <1>1
  <1> QED BY <1>4, <1>5, <1>6

Rises(bs) == LastOf(bs).close > PreviousOf(bs).close
Falls(bs) == LastOf(bs).close < PreviousOf(bs).close

\* A breakout upwards ends above the bar before, the last of the window.
LEMMA BreakoutUpRises ==
    ASSUME NEW bs \in Seq(Candles), Len(bs) = Lookback + 2
    PROVE  BreakoutUp(bs) \in Int /\ (BreakoutUp(bs) > 0 => Rises(bs))
  <1>1. Lookback \in Nat \ {0}
    BY CandidatesAssumption
  <1>2. PICK w : w = Window(bs)
    OBVIOUS
  <1>3. /\ w \in Seq(Candles) /\ DOMAIN w = 1 .. Lookback /\ Len(w) = Lookback
        /\ w[Lookback] = bs[Lookback + 1]
    BY <1>1, <1>2, WindowIs
  <1>4. \A i \in DOMAIN w : w[i].high \in Nat /\ w[i].close <= w[i].high
    BY <1>3, BarIs
  <1>5. PICK f : f = [i \in DOMAIN w |-> w[i].high]
    OBVIOUS
  <1>6. IsFiniteSet(DOMAIN w) /\ DOMAIN w # {}
    <2>1. 1 \in Int /\ Lookback \in Int /\ 1 \in 1 .. Lookback
      BY <1>1
    <2>2. IsFiniteSet(1 .. Lookback)
      BY <2>1, FS_Interval
    <2> QED BY <1>3, <2>1, <2>2
  <1>7. DOMAIN f = DOMAIN w /\ \A i \in DOMAIN f : f[i] \in Nat
    BY <1>4, <1>5
  <1>8. PICK k \in DOMAIN f : \A i \in DOMAIN f : f[i] <= f[k]
    BY <1>6, <1>7, GreatestOf
  <1>9. w[k].high \in Highs(w) /\ \A y \in Highs(w) : w[k].high >= y
    <2>1. \A i \in DOMAIN w : w[i].high <= w[k].high
      BY <1>5, <1>7, <1>8
    <2>2. \A i \in DOMAIN w : w[k].high >= w[i].high
      BY <1>4, <1>7, <1>8, <2>1
    <2> QED BY <1>7, <1>8, <2>2 DEF Highs
  <1>10. Max(Highs(w)) \in Highs(w) /\ \A y \in Highs(w) : Max(Highs(w)) >= y
    BY <1>9, MaxIs
  <1>11. Max(Highs(w)) \in Nat
    BY <1>4, <1>10 DEF Highs
  <1>12. PreviousOf(bs) = w[Lookback] /\ LastOf(bs) = bs[Lookback + 2]
    BY <1>1, <1>3 DEF PreviousOf, LastOf
  <1>13. LastOf(bs).close \in Nat /\ PreviousOf(bs).close \in Nat
    BY <1>1, <1>3, <1>12, BarIs
  <1>14. Max(Highs(w)) >= PreviousOf(bs).close
    <2>1. Lookback \in DOMAIN w
      BY <1>1, <1>3
    <2>2. Max(Highs(w)) >= w[Lookback].high /\ w[Lookback].close <= w[Lookback].high
      BY <1>4, <1>10, <2>1 DEF Highs
    <2>3. w[Lookback].high \in Nat
      BY <1>4, <2>1
    <2> QED BY <1>11, <1>12, <1>13, <2>2, <2>3
  <1>15. PICK d : d = LastOf(bs).close - Max(Highs(w))
    OBVIOUS
  <1>16. d \in Int /\ BreakoutUp(bs) = Rate(d, LastOf(bs).close)
    BY <1>2, <1>11, <1>13, <1>15 DEF BreakoutUp
  <1>17. BreakoutUp(bs) \in Int /\ (BreakoutUp(bs) > 0 => d > 0)
    <2>1. LastOf(bs).close \in Int
      BY <1>13
    <2>2. Rate(d, LastOf(bs).close) \in Int /\ (d <= 0 => Rate(d, LastOf(bs).close) <= 0)
      BY <1>16, <2>1, RateSign
    <2> QED BY <1>16, <2>2
  <1> QED BY <1>11, <1>13, <1>14, <1>15, <1>17 DEF Rises

\* A breakout downwards ends below it.
LEMMA BreakoutDownFalls ==
    ASSUME NEW bs \in Seq(Candles), Len(bs) = Lookback + 2
    PROVE  BreakoutDown(bs) \in Int /\ (BreakoutDown(bs) > 0 => Falls(bs))
  <1>1. Lookback \in Nat \ {0}
    BY CandidatesAssumption
  <1>2. PICK w : w = Window(bs)
    OBVIOUS
  <1>3. /\ w \in Seq(Candles) /\ DOMAIN w = 1 .. Lookback /\ Len(w) = Lookback
        /\ w[Lookback] = bs[Lookback + 1]
    BY <1>1, <1>2, WindowIs
  <1>4. \A i \in DOMAIN w : w[i].low \in Nat /\ w[i].low <= w[i].close
    BY <1>3, BarIs
  <1>5. Lows(w) \in SUBSET Nat /\ Lows(w) # {}
    BY <1>1, <1>3, <1>4 DEF Lows
  <1>6. PICK m \in Lows(w) : \A y \in Lows(w) : m <= y
    BY <1>5, LeastOf
  <1>7. Min(Lows(w)) \in Lows(w) /\ \A y \in Lows(w) : Min(Lows(w)) <= y
    BY <1>6, MinIs
  <1>8. Min(Lows(w)) \in Nat
    BY <1>5, <1>7
  <1>9. PreviousOf(bs) = w[Lookback] /\ LastOf(bs) = bs[Lookback + 2]
    BY <1>1, <1>3 DEF PreviousOf, LastOf
  <1>10. LastOf(bs).close \in Nat /\ PreviousOf(bs).close \in Nat
    BY <1>1, <1>3, <1>9, BarIs
  <1>11. Min(Lows(w)) <= PreviousOf(bs).close
    <2>1. Lookback \in DOMAIN w
      BY <1>1, <1>3
    <2>2. Min(Lows(w)) <= w[Lookback].low /\ w[Lookback].low <= w[Lookback].close
      BY <1>4, <1>7, <2>1 DEF Lows
    <2>3. w[Lookback].low \in Nat
      BY <1>4, <2>1
    <2> QED BY <1>8, <1>9, <1>10, <2>2, <2>3
  <1>12. PICK d : d = Min(Lows(w)) - LastOf(bs).close
    OBVIOUS
  <1>13. d \in Int /\ BreakoutDown(bs) = Rate(d, LastOf(bs).close)
    BY <1>2, <1>8, <1>10, <1>12 DEF BreakoutDown
  <1>14. BreakoutDown(bs) \in Int /\ (BreakoutDown(bs) > 0 => d > 0)
    <2>1. LastOf(bs).close \in Int
      BY <1>10
    <2>2. Rate(d, LastOf(bs).close) \in Int /\ (d <= 0 => Rate(d, LastOf(bs).close) <= 0)
      BY <1>13, <2>1, RateSign
    <2> QED BY <1>13, <2>2
  <1> QED BY <1>8, <1>10, <1>11, <1>12, <1>14 DEF Falls

\* The last candle's own move.
LEMMA MoveIs ==
    ASSUME NEW bs \in Seq(Candles), Len(bs) = Lookback + 2
    PROVE  /\ CandleMove(bs) \in Int
           /\ CandleMove(bs) > 0 => Rises(bs)
           /\ CandleMove(bs) < 0 => Falls(bs)
           /\ ~(Rises(bs) /\ Falls(bs))
  <1>1. Lookback \in Nat \ {0}
    BY CandidatesAssumption
  <1>2. LastOf(bs).close \in Nat /\ PreviousOf(bs).close \in Nat
    BY <1>1, BarIs DEF LastOf, PreviousOf
  <1>3. PICK d : d = LastOf(bs).close - PreviousOf(bs).close
    OBVIOUS
  <1>4. d \in Int /\ CandleMove(bs) = Rate(d, PreviousOf(bs).close)
    BY <1>2, <1>3 DEF CandleMove
  <1>5. /\ CandleMove(bs) \in Int
        /\ CandleMove(bs) > 0 => d > 0
        /\ CandleMove(bs) < 0 => d < 0
    <2>1. PreviousOf(bs).close \in Int
      BY <1>2
    <2>2. /\ Rate(d, PreviousOf(bs).close) \in Int
          /\ d <= 0 => Rate(d, PreviousOf(bs).close) <= 0
          /\ d >= 0 => Rate(d, PreviousOf(bs).close) >= 0
      BY <1>4, <2>1, RateSign
    <2> QED BY <1>4, <2>2
  <1> QED BY <1>2, <1>3, <1>5 DEF Rises, Falls

\* A candle that moved has a range, so that a stop has a distance.
LEMMA RangeOfMove ==
    ASSUME NEW bs \in Seq(Candles), Len(bs) = Lookback + 2, Rises(bs) \/ Falls(bs)
    PROVE  AtrTotal(bs) \in Nat \ {0}
  <1>1. Lookback \in Nat \ {0}
    BY CandidatesAssumption
  <1>2. ASSUME NEW i \in 3 .. Lookback + 2
        PROVE  /\ TrueRange(bs, i) \in Nat
               /\ bs[i].close # bs[i - 1].close => TrueRange(bs, i) > 0
    <2>1. i \in 1 .. Len(bs) /\ i - 1 \in 1 .. Len(bs)
      BY <1>1, <1>2
    <2>2. /\ bs[i].high \in Nat /\ bs[i].low \in Nat /\ bs[i].close \in Nat
          /\ bs[i].low <= bs[i].close /\ bs[i].close <= bs[i].high /\ bs[i - 1].close \in Nat
      BY <2>1, BarIs
    <2>3. PICK a, b, c : /\ a = bs[i].high - bs[i].low
                         /\ b = Abs(bs[i].high - bs[i - 1].close)
                         /\ c = Abs(bs[i].low - bs[i - 1].close)
      OBVIOUS
    <2>4. /\ a \in Nat /\ b \in Nat /\ c \in Nat
          /\ b = 0 => bs[i].high = bs[i - 1].close
          /\ c = 0 => bs[i].low = bs[i - 1].close
      <3>1. a \in Nat
        BY <2>2, <2>3
      <3>2. PICK y, z : y = bs[i].high - bs[i - 1].close /\ z = bs[i].low - bs[i - 1].close
        OBVIOUS
      <3>3. y \in Int /\ z \in Int /\ b = Abs(y) /\ c = Abs(z)
        BY <2>2, <2>3, <3>2
      <3>4. b \in Nat /\ c \in Nat /\ (b = 0 => y = 0) /\ (c = 0 => z = 0)
        BY <3>3, AbsIs
      <3> QED BY <2>2, <3>1, <3>2, <3>4
    <2>5. PICK m : m = Max({a, b, c})
      OBVIOUS
    <2>6. m \in {a, b, c} /\ m >= b /\ m >= c
      <3>1. a \in Int /\ b \in Int /\ c \in Int
        BY <2>4
      <3> QED BY <2>5, <3>1, MaxOfThree
    <2>7. TrueRange(bs, i) = m
      BY <2>3, <2>5 DEF TrueRange
    <2> QED BY <2>2, <2>4, <2>6, <2>7
  <1>3. PICK f : f = [i \in Len(bs) - Lookback + 1 .. Len(bs) |-> TrueRange(bs, i)]
    OBVIOUS
  <1>4. Len(bs) - Lookback + 1 = 3
    BY <1>1
  <1>5. DOMAIN f = 3 .. Lookback + 2 /\ AtrTotal(bs) = SumFunction(f)
    BY <1>3, <1>4 DEF AtrTotal
  <1>6. \A i \in DOMAIN f : f[i] \in Nat /\ f[i] = TrueRange(bs, i)
    BY <1>2, <1>3, <1>4, <1>5
  <1>7. IsFiniteSet(DOMAIN f)
    BY <1>1, <1>5, FS_Interval
  <1>8. \A i \in DOMAIN f : f[i] \in Int /\ f[i] >= 0
    BY <1>6
  <1>9. SumFunction(f) \in Int /\ \A i \in DOMAIN f : SumFunction(f) >= f[i]
    BY <1>7, <1>8, SumSound
  <1>10. Lookback + 2 \in DOMAIN f
    BY <1>1, <1>5
  <1>11. TrueRange(bs, Lookback + 2) > 0
    <2>1. bs[Lookback + 2].close # bs[Lookback + 2 - 1].close
      <3>1. Lookback + 2 \in 1 .. Len(bs) /\ Lookback + 2 - 1 \in 1 .. Len(bs)
        BY <1>1
      <3>2. bs[Lookback + 2].close \in Nat /\ bs[Lookback + 2 - 1].close \in Nat
        BY <3>1, BarIs
      <3>3. LastOf(bs) = bs[Lookback + 2] /\ PreviousOf(bs) = bs[Lookback + 2 - 1]
        BY <1>1 DEF LastOf, PreviousOf
      <3>4. bs[Lookback + 2].close > bs[Lookback + 2 - 1].close \/ bs[Lookback + 2].close < bs[Lookback + 2 - 1].close
        BY <3>3 DEF Rises, Falls
      <3> QED BY <3>2, <3>4
    <2> QED BY <1>1, <1>2, <2>1
  <1> QED BY <1>5, <1>6, <1>9, <1>10, <1>11

-----------------------------------------------------------------------------
\* The candidates that go with the way the last candle went.
Fitting(bs) ==
    {Candidate(bs, type, confidence) :
        type \in IF Rises(bs) THEN Long ELSE IF Falls(bs) THEN Short ELSE {},
        confidence \in Int}

\* Which are sound.
LEMMA FittingSound ==
    ASSUME NEW bs \in Seq(Candles), Len(bs) = Lookback + 2, NEW c \in Fitting(bs)
    PROVE  /\ c.type \in Long \union Short /\ c.confidence \in Int /\ c.price \in Nat
           /\ IF c.type \in Long THEN c.stop < 0 ELSE c.stop > 0
           /\ c.type \in Long <=> Rises(bs)
           /\ c.type \in Short <=> ~Rises(bs)
  <1>1. Rises(bs) \/ Falls(bs)
    BY DEF Fitting
  <1>2. PICK atr : atr = AtrTotal(bs)
    OBVIOUS
  <1>3. atr \in Nat \ {0}
    BY <1>1, <1>2, RangeOfMove
  <1>4. PICK type \in IF Rises(bs) THEN Long ELSE Short, confidence \in Int :
           c = Candidate(bs, type, confidence)
    BY <1>1 DEF Fitting
  <1>5. /\ c.type = type /\ c.confidence = confidence /\ c.price = LastOf(bs).close
        /\ c.stop = IF type \in Long THEN -12 * atr ELSE 12 * atr
    BY <1>2, <1>4 DEF Candidate
  <1>6. LastOf(bs).close \in Nat
    <2>1. Len(bs) \in 1 .. Len(bs)
      BY CandidatesAssumption
    <2> QED BY <2>1, BarIs DEF LastOf
  <1>7. -12 * atr < 0 /\ 12 * atr > 0
    BY <1>3
  <1>8. Long \intersect Short = {}
    BY DEF Long, Short
  <1> QED BY <1>4, <1>5, <1>6, <1>7, <1>8

\* Confidences are numbers.
LEMMA ConfidencesAre ==
    ASSUME NEW rate \in Int
    PROVE  BreakoutConfidence(rate) \in Int /\ TrendConfidence(rate) \in Int
  <1>1. Abs(rate) \in Nat
    BY AbsIs
  <1>2. (5 * Abs(rate)) \div 6 \in Int
    BY <1>1
  <1> QED BY <1>2 DEF BreakoutConfidence, TrendConfidence, Capped

\* A pattern that holds yields a candidate that fits the candle.
LEMMA PatternFits ==
    ASSUME NEW bs, NEW holds \in BOOLEAN, NEW type, NEW confidence \in Int,
           holds => type \in IF Rises(bs) THEN Long ELSE IF Falls(bs) THEN Short ELSE {}
    PROVE  Pattern(bs, holds, type, confidence) \in Seq(Fitting(bs))
  <1>1. CASE holds
    <2>1. Candidate(bs, type, confidence) \in Fitting(bs)
      BY <1>1 DEF Fitting
    <2>2. <<Candidate(bs, type, confidence)>> \in Seq(Fitting(bs))
      BY <2>1
    <2> QED BY <1>1, <2>2 DEF Pattern
  <1>2. CASE ~holds
    <2>1. <<>> \in Seq(Fitting(bs))
      BY EmptySeq
    <2> QED BY <1>2, <2>1 DEF Pattern
  <1> QED BY <1>1, <1>2

\* All the patterns of a candle agree on its direction.
LEMMA RawFits ==
    ASSUME NEW bs \in Seq(Candles), Len(bs) = Lookback + 2
    PROVE  RawCandidates(bs) \in Seq(Fitting(bs))
  <1>1. MinBreakout \in Nat \ {0} /\ MinTrend \in Nat \ {0}
    BY CandidatesAssumption
  <1>2. PICK up, down, move, heavy :
           up = BreakoutUp(bs) /\ down = BreakoutDown(bs) /\ move = CandleMove(bs)
           /\ heavy = VolumeRises(bs)
    OBVIOUS
  <1>3. /\ up \in Int /\ (up > 0 => Rises(bs))
        /\ down \in Int /\ (down > 0 => Falls(bs))
        /\ move \in Int /\ (move > 0 => Rises(bs)) /\ (move < 0 => Falls(bs))
        /\ ~(Rises(bs) /\ Falls(bs))
    BY <1>2, BreakoutUpRises, BreakoutDownFalls, MoveIs
  <1>4. heavy \in BOOLEAN
    BY <1>2 DEF VolumeRises
  <1>5. /\ "breakout_long" \in Long /\ "trend_continuation_long" \in Long
        /\ "breakout_short" \in Short /\ "trend_continuation_short" \in Short
    BY DEF Long, Short
  <1>6. /\ BreakoutConfidence(up) \in Int /\ BreakoutConfidence(down) \in Int
        /\ TrendConfidence(move) \in Int
    BY <1>3, ConfidencesAre
  <1>7. /\ up >= MinBreakout => Rises(bs)
        /\ down >= MinBreakout => Falls(bs) /\ ~Rises(bs)
        /\ move >= MinTrend => Rises(bs)
        /\ move <= -MinTrend => Falls(bs) /\ ~Rises(bs)
    BY <1>1, <1>3
  <1> DEFINE p1 == Pattern(bs, up >= MinBreakout, "breakout_long", BreakoutConfidence(up))
             p2 == Pattern(bs, down >= MinBreakout, "breakout_short", BreakoutConfidence(down))
             p3 == Pattern(bs, move >= MinTrend /\ heavy, "trend_continuation_long", TrendConfidence(move))
             p4 == Pattern(bs, move <= -MinTrend /\ heavy, "trend_continuation_short", TrendConfidence(move))
  <1>8. p1 \in Seq(Fitting(bs))
    <2>1. (up >= MinBreakout) \in BOOLEAN
      BY <1>4
    <2>2. up >= MinBreakout => "breakout_long" \in IF Rises(bs) THEN Long ELSE IF Falls(bs) THEN Short ELSE {}
      BY <1>5, <1>7
    <2> QED BY <1>6, <2>1, <2>2, PatternFits
  <1>9. p2 \in Seq(Fitting(bs))
    <2>1. (down >= MinBreakout) \in BOOLEAN
      BY <1>4
    <2>2. down >= MinBreakout => "breakout_short" \in IF Rises(bs) THEN Long ELSE IF Falls(bs) THEN Short ELSE {}
      BY <1>5, <1>7
    <2> QED BY <1>6, <2>1, <2>2, PatternFits
  <1>10. p3 \in Seq(Fitting(bs))
    <2>1. (move >= MinTrend /\ heavy) \in BOOLEAN
      BY <1>4
    <2>2. move >= MinTrend /\ heavy => "trend_continuation_long" \in IF Rises(bs) THEN Long ELSE IF Falls(bs) THEN Short ELSE {}
      BY <1>5, <1>7
    <2> QED BY <1>6, <2>1, <2>2, PatternFits
  <1>11. p4 \in Seq(Fitting(bs))
    <2>1. (move <= -MinTrend /\ heavy) \in BOOLEAN
      BY <1>4
    <2>2. move <= -MinTrend /\ heavy => "trend_continuation_short" \in IF Rises(bs) THEN Long ELSE IF Falls(bs) THEN Short ELSE {}
      BY <1>5, <1>7
    <2> QED BY <1>6, <2>1, <2>2, PatternFits
  <1>12. RawCandidates(bs) = p1 \o p2 \o p3 \o p4
    BY <1>2 DEF RawCandidates
  <1> HIDE DEF p1, p2, p3, p4
  <1>13. p1 \o p2 \in Seq(Fitting(bs))
    BY <1>8, <1>9, ConcatProperties
  <1>14. (p1 \o p2) \o p3 \in Seq(Fitting(bs))
    BY <1>10, <1>13, ConcatProperties
  <1>15. ((p1 \o p2) \o p3) \o p4 \in Seq(Fitting(bs))
    BY <1>11, <1>14, ConcatProperties
  <1> QED BY <1>12, <1>15

\* The strongest of some candidates is one of them.
LEMMA StrongestIs ==
    ASSUME NEW S, NEW candidates \in Seq(S), NEW types
    PROVE  /\ Strongest(candidates, types) \in Seq(S) /\ Len(Strongest(candidates, types)) <= 1
           /\ (\A c \in S : c.type \notin types) => Strongest(candidates, types) = <<>>
  <1> DEFINE among == {i \in DOMAIN candidates : candidates[i].type \in types}
             best == {i \in among :
                        \A j \in among : candidates[j].confidence <= candidates[i].confidence}
  <1>1. Strongest(candidates, types) = IF best = {} THEN <<>> ELSE <<candidates[Min(best)]>>
    BY DEF Strongest
  <1>2. DOMAIN candidates = 1 .. Len(candidates) /\ Len(candidates) \in Nat
    BY LenProperties
  <1>3. best \in SUBSET Nat /\ best \in SUBSET among /\ among \in SUBSET (1 .. Len(candidates))
    BY <1>2
  <1>4. \A i \in among : candidates[i] \in S /\ candidates[i].type \in types
    BY <1>3, ElementOfSeq
  <1> HIDE DEF among, best
  <1>5. CASE best = {}
    <2>1. <<>> \in Seq(S) /\ Len(<<>>) = 0
      BY EmptySeq
    <2> QED BY <1>1, <1>5, <2>1
  <1>6. CASE best # {}
    <2>1. PICK m \in best : \A y \in best : m <= y
      BY <1>3, <1>6, LeastOf
    <2>2. Min(best) \in best
      BY <2>1, MinIs
    <2>3. PICK c : c = candidates[Min(best)]
      OBVIOUS
    <2>4. c \in S /\ c.type \in types
      BY <1>3, <1>4, <2>2, <2>3
    <2>5. Strongest(candidates, types) = <<c>>
      BY <1>1, <1>6, <2>3
    <2>6. <<c>> \in Seq(S) /\ Len(<<c>>) = 1
      BY <2>4
    <2> QED BY <2>4, <2>5, <2>6
  <1> QED BY <1>5, <1>6

\* What is left of them is at most one.
LEMMA DedupedFits ==
    ASSUME NEW bs \in Seq(Candles), Len(bs) = Lookback + 2
    PROVE  Deduped(RawCandidates(bs)) \in Seq(Fitting(bs)) /\ Len(Deduped(RawCandidates(bs))) <= 1
  <1>1. PICK raw, long, short :
           /\ raw = RawCandidates(bs)
           /\ long = Strongest(raw, Long) /\ short = Strongest(raw, Short)
    OBVIOUS
  <1>2. raw \in Seq(Fitting(bs))
    BY <1>1, RawFits
  <1>3. /\ long \in Seq(Fitting(bs)) /\ Len(long) <= 1
        /\ (\A c \in Fitting(bs) : c.type \notin Long) => long = <<>>
    BY <1>1, <1>2, StrongestIs
  <1>4. /\ short \in Seq(Fitting(bs)) /\ Len(short) <= 1
        /\ (\A c \in Fitting(bs) : c.type \notin Short) => short = <<>>
    BY <1>1, <1>2, StrongestIs
  <1>5. Deduped(RawCandidates(bs)) = long \o short
    BY <1>1 DEF Deduped
  <1>6. \A c \in Fitting(bs) : (c.type \in Long <=> Rises(bs)) /\ (c.type \in Short <=> ~Rises(bs))
    BY FittingSound
  <1>7. CASE Rises(bs)
    <2>1. short = <<>>
      BY <1>4, <1>6, <1>7
    <2>2. long \o short = long
      BY <1>3, <2>1, ConcatEmptySeq
    <2> QED BY <1>3, <1>5, <2>2
  <1>8. CASE ~Rises(bs)
    <2>1. long = <<>>
      BY <1>3, <1>6, <1>8
    <2>2. long \o short = short
      BY <1>4, <2>1, ConcatEmptySeq
    <2> QED BY <1>4, <1>5, <2>2
  <1> QED BY <1>7, <1>8

\* The weaker candidates fit as well.
LEMMA RelaxedFits ==
    ASSUME NEW bs \in Seq(Candles), Len(bs) = Lookback + 2
    PROVE  Relaxed(bs) \in Seq(Fitting(bs)) /\ Len(Relaxed(bs)) <= 1
  <1>1. PICK up, down, move :
           up = BreakoutUp(bs) /\ down = BreakoutDown(bs) /\ move = CandleMove(bs)
    OBVIOUS
  <1>2. /\ up \in Int /\ (up > 0 => Rises(bs))
        /\ down \in Int /\ (down > 0 => Falls(bs))
        /\ move \in Int /\ (move > 0 => Rises(bs)) /\ (move < 0 => Falls(bs))
        /\ ~(Rises(bs) /\ Falls(bs))
    BY <1>1, BreakoutUpRises, BreakoutDownFalls, MoveIs
  <1>3. /\ "breakout_long" \in Long /\ "trend_continuation_long" \in Long
        /\ "breakout_short" \in Short /\ "trend_continuation_short" \in Short
    BY DEF Long, Short
  <1>4. ASSUME NEW type, type \in IF Rises(bs) THEN Long ELSE IF Falls(bs) THEN Short ELSE {}
        PROVE  <<Candidate(bs, type, 3500)>> \in Seq(Fitting(bs)) /\ Len(<<Candidate(bs, type, 3500)>>) = 1
    <2>1. Candidate(bs, type, 3500) \in Fitting(bs)
      BY <1>4 DEF Fitting
    <2> QED BY <2>1
  <1>5. Max({up, down}) = IF up >= down THEN up ELSE down
    BY <1>2, MaxOfTwo
  <1>6. Relaxed(bs) =
           IF Max({up, down}) > 0
           THEN <<Candidate(bs, IF up >= down THEN "breakout_long" ELSE "breakout_short", 3500)>>
           ELSE IF move # 0
                THEN <<Candidate(bs, IF move > 0 THEN "trend_continuation_long"
                                     ELSE "trend_continuation_short", 3500)>>
                ELSE <<>>
    BY <1>1 DEF Relaxed, Preconditions
  <1>7. CASE Max({up, down}) > 0
    <2>1. PICK type : type = IF up >= down THEN "breakout_long" ELSE "breakout_short"
      OBVIOUS
    <2>2. type \in IF Rises(bs) THEN Long ELSE IF Falls(bs) THEN Short ELSE {}
      BY <1>2, <1>3, <1>5, <1>7, <2>1
    <2>3. Relaxed(bs) = <<Candidate(bs, type, 3500)>>
      BY <1>6, <1>7, <2>1
    <2> QED BY <1>4, <2>2, <2>3
  <1>8. CASE ~(Max({up, down}) > 0) /\ move # 0
    <2>1. PICK type : type = IF move > 0 THEN "trend_continuation_long"
                             ELSE "trend_continuation_short"
      OBVIOUS
    <2>2. type \in IF Rises(bs) THEN Long ELSE IF Falls(bs) THEN Short ELSE {}
      BY <1>2, <1>3, <1>8, <2>1
    <2>3. Relaxed(bs) = <<Candidate(bs, type, 3500)>>
      BY <1>6, <1>8, <2>1
    <2> QED BY <1>4, <2>2, <2>3
  <1>9. CASE ~(Max({up, down}) > 0) /\ move = 0
    <2>1. <<>> \in Seq(Fitting(bs)) /\ Len(<<>>) = 0
      BY EmptySeq
    <2> QED BY <1>6, <1>9, <2>1
  <1> QED BY <1>7, <1>8, <1>9

\* What the decision loop is offered.
LEMMA OfferedFits ==
    ASSUME HistoriesOK
    PROVE  /\ Offered \in Seq(Fitting(bars)) /\ Len(Offered) <= 1
           /\ Offered # <<>> => bars \in Seq(Candles) /\ Len(bars) = Lookback + 2
  <1>1. bars \in Seq(Candles) /\ Len(bars) <= Lookback + 2 /\ Len(bars) \in Nat
    BY LenProperties DEF HistoriesOK
  <1>2. Lookback \in Nat
    BY CandidatesAssumption
  <1>3. <<>> \in Seq(Fitting(bars)) /\ Len(<<>>) = 0
    BY EmptySeq
  <1>4. CASE Readiness(bars) = "ready"
    <2>1. Len(bars) = Lookback + 2
      BY <1>1, <1>2, <1>4 DEF Readiness
    <2>2. Deduped(RawCandidates(bars)) \in Seq(Fitting(bars)) /\ Len(Deduped(RawCandidates(bars))) <= 1
      BY <1>1, <2>1, DedupedFits
    <2>3. Relaxed(bars) \in Seq(Fitting(bars)) /\ Len(Relaxed(bars)) <= 1
      BY <1>1, <2>1, RelaxedFits
    <2>4. Offered = Deduped(RawCandidates(bars)) \/ Offered = Relaxed(bars)
      BY <1>4 DEF Offered, CandidatesFor, OnClosedCandle
    <2> QED BY <1>1, <2>1, <2>2, <2>3, <2>4
  <1>5. CASE Readiness(bars) # "ready"
    <2>1. Offered = <<>>
      BY <1>5 DEF Offered, CandidatesFor, OnClosedCandle
    <2> QED BY <1>3, <2>1
  <1> QED BY <1>4, <1>5

\* A candidate that is offered is sound.
LEMMA OfferedSound ==
    ASSUME HistoriesOK, NEW i \in DOMAIN Offered
    PROVE  /\ Offered[i].type \in Long \union Short /\ Offered[i].confidence \in Int
           /\ Offered[i].price \in Nat
           /\ IF Offered[i].type \in Long THEN Offered[i].stop < 0 ELSE Offered[i].stop > 0
  <1>1. PICK offered : offered = Offered
    OBVIOUS
  <1>2. offered \in Seq(Fitting(bars)) /\ i \in DOMAIN offered
    BY <1>1, OfferedFits
  <1>3. i \in 1 .. Len(offered)
    BY <1>2, LenProperties
  <1>4. offered # <<>>
    BY <1>2
  <1>5. bars \in Seq(Candles) /\ Len(bars) = Lookback + 2
    BY <1>1, <1>4, OfferedFits
  <1>6. offered[i] \in Fitting(bars)
    BY <1>2, <1>3, ElementOfSeq
  <1> QED BY <1>1, <1>5, <1>6, FittingSound

\* So the candidates of a state with such histories are sound,
LEMMA SoundCandidates == HistoriesOK => CandidatesSound
  <1> SUFFICES ASSUME HistoriesOK PROVE CandidatesSound
    OBVIOUS
  <1>1. Len(Offered) <= 1
    BY OfferedFits
  <1>2. \A i \in DOMAIN Offered :
           IF Offered[i].type \in Long THEN Offered[i].stop < 0 ELSE Offered[i].stop > 0
    BY OfferedSound
  <1> QED BY <1>1, <1>2 DEF CandidatesSound, Offered

-----------------------------------------------------------------------------
\* The histories stay histories of bars that can come, no longer than they
\* are looked at.
LEMMA KeptHistory ==
    ASSUME NEW S, NEW history \in Seq(S), NEW n \in Nat \ {0}, Len(history) <= n, NEW bar \in S
    PROVE  Kept(Append(history, bar), n) \in Seq(S) /\ Len(Kept(Append(history, bar), n)) <= n
  <1>1. PICK longer : longer = Append(history, bar)
    OBVIOUS
  <1>2. longer \in Seq(S) /\ Len(longer) = Len(history) + 1 /\ Len(history) \in Nat
    BY <1>1, LenProperties
  <1>3. longer # <<>>
    BY <1>2, EmptySeq
  <1>4. Tail(longer) \in Seq(S) /\ Len(Tail(longer)) = Len(longer) - 1
    BY <1>2, <1>3, HeadTailProperties
  <1> QED BY <1>1, <1>2, <1>4 DEF Kept

\* _bar_history of the two timeframes holds nothing but bars that were sent, and
\* no more than the stages look at.
THEOREM HistoriesBounded == SignalSpec => []HistoriesOK
  <1>1. SignalInit => HistoriesOK
    <2>1. <<>> \in Seq(Candles) /\ <<>> \in Seq(Hours) /\ Len(<<>>) = 0
      BY EmptySeq
    <2>2. 0 <= Lookback + 2 /\ 0 <= RegimeBars
      BY CandidatesAssumption, RegimeAssumption
    <2> QED BY <2>1, <2>2 DEF SignalInit, HistoriesOK
  <1>2. HistoriesOK /\ [SignalNext]_signalVars => HistoriesOK'
    <2> SUFFICES ASSUME HistoriesOK, [SignalNext]_signalVars PROVE HistoriesOK'
      OBVIOUS
    <2>1. CASE CandleCloses
      <3>1. PICK bar \in Candles : bars' = Kept(Append(bars, bar), Lookback + 2)
        BY <2>1 DEF CandleCloses
      <3>2. Lookback + 2 \in Nat \ {0}
        BY CandidatesAssumption
      <3>3. bars' \in Seq(Candles) /\ Len(bars') <= Lookback + 2
        BY <3>1, <3>2, KeptHistory DEF HistoriesOK
      <3> QED BY <2>1, <3>3 DEF CandleCloses, HistoriesOK
    <2>2. CASE HourCloses
      <3>1. PICK bar \in Hours : hours' = Kept(Append(hours, bar), RegimeBars)
        BY <2>2 DEF HourCloses
      <3>2. RegimeBars \in Nat \ {0}
        BY RegimeAssumption
      <3>3. hours' \in Seq(Hours) /\ Len(hours') <= RegimeBars
        BY <3>1, <3>2, KeptHistory DEF HistoriesOK
      <3> QED BY <2>2, <3>3 DEF HourCloses, HistoriesOK
    <2>3. CASE UNCHANGED signalVars
      BY <2>3 DEF signalVars, HistoriesOK
    <2> QED BY <2>1, <2>2, <2>3 DEF SignalNext
  <1> QED BY <1>1, <1>2, PTL DEF SignalSpec

\* on_closed_candle and create_relaxed_validation_candidates never offer a long
\* and a short candidate for one candle, and every stop is at a distance on the
\* side of the loss, for any lookback, thresholds and bars.
THEOREM CandidatesAreSound == SignalSpec => []CandidatesSound
  BY HistoriesBounded, SoundCandidates, PTL

-----------------------------------------------------------------------------
\* A chain that gives the answer of a chain passed has no check that fails,
\* unless that answer is also the reason of one.
LEMMA Passed ==
    ASSUME NEW checks, NEW passed, DOMAIN checks \subseteq Nat,
           \A i \in DOMAIN checks : checks[i].reason # passed
    PROVE  FirstFailing(checks, passed) = passed <=> \A i \in DOMAIN checks : ~checks[i].fails
  <1> DEFINE failing == {i \in DOMAIN checks : checks[i].fails}
             first == CHOOSE i \in failing : \A j \in failing : i <= j
  <1>1. FirstFailing(checks, passed) = IF failing = {} THEN passed ELSE checks[first].reason
    BY DEF FirstFailing
  <1>2. CASE failing = {}
    BY <1>1, <1>2
  <1>3. CASE failing # {}
    <2>1. \E m \in failing : \A j \in failing : m <= j
      BY <1>3, LeastOf
    <2>2. first \in failing
      BY <2>1
    <2> QED BY <1>1, <1>3, <2>2
  <1> QED BY <1>2, <1>3

\* A candidate is judged on enough hours, of which the volatility is a number.
LEMMA JudgedVolatility ==
    ASSUME HistoriesOK, NEW type, Regime(hours, type) = "regime_match"
    PROVE  Volatility(hours) \in Int
  <1>1. Enough(hours)
    <2> DEFINE usable == Enough(hours) /\ \A i \in DOMAIN Recent(hours) : Recent(hours)[i].confirmed
               checks ==
                 << Check("insufficient_1h_context", ~Enough(hours)),
                    Check("unconfirmed_1h_candles", Enough(hours) /\ ~usable),
                    Check("volatility_above_limit", usable /\ Volatility(hours) > MaxVolatility),
                    Check("volatility_too_low", usable /\ Volatility(hours) < MinVolatility),
                    Check("regime_mismatch", usable /\ ~Matches(type, InferState(hours))) >>
    <2>1. Regime(hours, type) = FirstFailing(checks, "regime_match")
      BY DEF Regime
    <2>2. DOMAIN checks = 1 .. 5
      OBVIOUS
    <2>3. /\ checks[1].reason = "insufficient_1h_context"
          /\ checks[2].reason = "unconfirmed_1h_candles"
          /\ checks[3].reason = "volatility_above_limit"
          /\ checks[4].reason = "volatility_too_low"
          /\ checks[5].reason = "regime_mismatch"
      BY DEF Check
    <2>4. checks[1].fails <=> ~Enough(hours)
      BY DEF Check
    <2> HIDE DEF checks
    <2>5. DOMAIN checks \subseteq Nat /\ \A i \in DOMAIN checks : checks[i].reason # "regime_match"
      BY <2>2, <2>3
    <2>6. ~checks[1].fails
      BY <2>1, <2>2, <2>5, Passed
    <2> QED BY <2>4, <2>6
  <1>2. RegimeBars \in Nat /\ RegimeBars > 1
    BY RegimeAssumption
  <1>3. hours \in Seq(Hours) /\ Len(hours) = RegimeBars
    <2>1. Len(hours) \in Nat /\ Len(hours) <= RegimeBars /\ hours \in Seq(Hours)
      BY LenProperties DEF HistoriesOK
    <2> QED BY <1>1, <1>2, <2>1 DEF Enough
  <1>4. Recent(hours) = hours
    <2>1. Recent(hours) = SubSeq(hours, 1, Len(hours))
      BY <1>2, <1>3 DEF Recent
    <2> QED BY <1>3, <2>1, SubSeqFull
  <1>5. ASSUME NEW i \in 1 .. RegimeBars PROVE hours[i].close \in Nat
    <2>1. hours[i] \in Hours
      BY <1>3, <1>5, ElementOfSeq
    <2> QED BY <2>1, BarsAssumption
  <1>6. PICK f : f = [i \in 2 .. RegimeBars |->
                        Rate(Abs(hours[i].close - hours[i - 1].close), hours[i - 1].close)]
    OBVIOUS
  <1>7. ASSUME NEW i \in 2 .. RegimeBars
        PROVE  Rate(Abs(hours[i].close - hours[i - 1].close), hours[i - 1].close) \in Int
    <2>1. i \in 1 .. RegimeBars /\ i - 1 \in 1 .. RegimeBars
      BY <1>2
    <2>2. hours[i].close \in Nat /\ hours[i - 1].close \in Nat
      BY <1>5, <2>1
    <2>3. hours[i].close - hours[i - 1].close \in Int /\ hours[i - 1].close \in Int
      BY <2>2
    <2>4. Abs(hours[i].close - hours[i - 1].close) \in Int
      BY <2>3, AbsIs
    <2> QED BY <2>3, <2>4, RateSign
  <1>8. DOMAIN f = 2 .. RegimeBars /\ \A i \in DOMAIN f : f[i] \in Int
    BY <1>6, <1>7
  <1>9. IsFiniteSet(DOMAIN f)
    <2>1. 2 \in Int /\ RegimeBars \in Int
      BY <1>2
    <2> QED BY <1>8, <2>1, FS_Interval
  <1>10. SumFunction(f) \in Int
    BY <1>8, <1>9, SumSound
  <1>11. Volatility(hours) = SumFunction(f) \div (RegimeBars - 1)
    BY <1>4, <1>6 DEF Volatility
  <1>12. RegimeBars - 1 \in Nat \ {0}
    BY <1>2
  <1> QED BY <1>10, <1>11, <1>12, RoundedDown

\* What a sizing is made from.
SizingInputs ==
    [equity : Nat \ {0}, confidence : Int, volatility : Int, price : Nat, leverage : Nat]

SymbolSpecs == [min_qty : Nat \ {0}, step : Nat \ {0}, leverage : Nat]

\* A quantity in whole steps costs no more than it may.
LEMMA SteppedFits ==
    ASSUME NEW notional \in Int, NEW input \in SizingInputs, NEW symbol \in SymbolSpecs,
           input.price > 0
    PROVE  LET qty == SteppedQty(notional, input, symbol)
           IN  qty \in Int /\ qty % symbol.step = 0 /\ qty * input.price <= notional
  <1>1. PICK p, d : p = input.price /\ d = symbol.step
    OBVIOUS
  <1>2. p \in Nat \ {0} /\ d \in Nat \ {0}
    BY <1>1 DEF SizingInputs, SymbolSpecs
  <1>3. PICK q : q = notional \div p
    OBVIOUS
  <1>4. q \in Int /\ q * p <= notional
    BY <1>2, <1>3, RoundedDown
  <1>5. PICK k : k = q \div d
    OBVIOUS
  <1>6. k \in Int /\ k * d \in Int /\ k * d <= q
    BY <1>2, <1>4, <1>5, RoundedDown
  <1>7. PICK r : r = k * d
    OBVIOUS
  <1>8. r \in Int /\ r <= q /\ r % d = 0
    BY <1>2, <1>6, <1>7, WholeSteps
  <1>9. r * p <= q * p /\ r * p \in Int /\ q * p \in Int
    BY <1>2, <1>4, <1>8, Z3
  <1>10. r * p <= notional
    BY <1>4, <1>9
  <1>11. SteppedQty(notional, input, symbol) = r
    BY <1>1, <1>2, <1>3, <1>5, <1>7 DEF SteppedQty, RoundDownToStep
  <1> QED BY <1>1, <1>8, <1>10, <1>11

\* The budget and what the floor makes of it are numbers.
LEMMA BudgetsAre ==
    ASSUME NEW input \in SizingInputs, NEW symbol \in SymbolSpecs, NEW floor \in Nat
    PROVE  /\ NotionalBudget(input, symbol) \in Int /\ EquityCap(input) \in Int
           /\ FloorNotional(input, symbol, floor) \in Int
           /\ FloorNotional(input, symbol, floor) <= EquityCap(input)
  <1>1. /\ input.equity \in Int /\ input.confidence \in Int /\ input.volatility \in Int
        /\ input.leverage \in Int /\ symbol.leverage \in Int
    BY DEF SizingInputs, SymbolSpecs
  <1>2. PICK leverage : leverage = Min({input.leverage, symbol.leverage})
    OBVIOUS
  <1>3. leverage \in Int
    BY <1>1, <1>2, MinOfTwo
  <1>4. PICK stake : stake = (input.equity * leverage) \div 100
    OBVIOUS
  <1>5. stake \in Int
    BY <1>1, <1>3, <1>4
  <1>6. PICK capped : capped = Min({10000, input.confidence})
    OBVIOUS
  <1>7. capped \in Int
    BY <1>1, <1>6, MinOfTwo
  <1>8. PICK confidence : confidence = Max({1000, capped})
    OBVIOUS
  <1>9. confidence \in Int
    BY <1>7, <1>8, MaxOfTwo
  <1>10. PICK volatility : volatility = Max({10000, input.volatility})
    OBVIOUS
  <1>11. volatility \in Nat \ {0}
    BY <1>1, <1>10, MaxOfTwo
  <1>12. stake * confidence \in Int
    BY <1>5, <1>9
  <1>13. NotionalBudget(input, symbol) = (stake * confidence) \div volatility
    BY <1>2, <1>4, <1>6, <1>8, <1>10 DEF NotionalBudget
  <1>14. NotionalBudget(input, symbol) \in Int
    BY <1>11, <1>12, <1>13, RoundedDown
  <1>15. EquityCap(input) \in Int
    BY <1>1 DEF EquityCap
  <1>16. PICK lifted : lifted = Max({floor, NotionalBudget(input, symbol)})
    OBVIOUS
  <1>17. lifted \in Int
    <2>1. floor \in Int
      OBVIOUS
    <2> QED BY <1>14, <1>16, <2>1, MaxOfTwo
  <1>18. FloorNotional(input, symbol, floor) = Min({lifted, EquityCap(input)})
    BY <1>16 DEF FloorNotional
  <1>19. Min({lifted, EquityCap(input)}) = IF lifted <= EquityCap(input) THEN lifted ELSE EquityCap(input)
    BY <1>15, <1>17, MinOfTwo
  <1> QED BY <1>14, <1>15, <1>17, <1>18, <1>19

\* A quantity of zero has its reason, any other is paid for.
LEMMA SizeIs ==
    ASSUME NEW input \in SizingInputs, NEW symbol \in SymbolSpecs, NEW floor \in Nat,
           NEW qty, qty = SizeQty(input, symbol, floor)
    PROVE  /\ qty \in Int
           /\ qty = 0 => RejectReason(input, symbol) # "none"
           /\ qty # 0 => /\ qty >= symbol.min_qty /\ qty % symbol.step = 0
                         /\ \/ qty * input.price <= NotionalBudget(input, symbol)
                            \/ qty * input.price <= IF floor > 0 THEN EquityCap(input) ELSE 0
  <1>1. PICK budget, cap, lifted, stepped, floored :
           /\ budget = NotionalBudget(input, symbol)
           /\ cap = EquityCap(input)
           /\ lifted = FloorNotional(input, symbol, floor)
           /\ stepped = SteppedQty(budget, input, symbol)
           /\ floored = SteppedQty(lifted, input, symbol)
    OBVIOUS
  <1>2. budget \in Int /\ cap \in Int /\ lifted \in Int /\ lifted <= cap
    BY <1>1, BudgetsAre
  <1>3. input.price \in Nat /\ symbol.min_qty \in Nat \ {0}
    BY DEF SizingInputs, SymbolSpecs
  <1>5. NoSize(input) \/ stepped < symbol.min_qty <=> RejectReason(input, symbol) # "none"
    <2> DEFINE checks ==
          << Check("reference_price_or_equity_zero", input.price <= 0 \/ input.equity <= 0),
             Check("confidence_below_min", input.confidence < MinSizing),
             Check("qty_below_min_after_rounding", stepped < symbol.min_qty) >>
    <2>1. RejectReason(input, symbol) = FirstFailing(checks, "none")
      BY <1>1 DEF RejectReason
    <2>2. DOMAIN checks = 1 .. 3
      OBVIOUS
    <2>3. /\ checks[1].reason = "reference_price_or_equity_zero"
          /\ checks[2].reason = "confidence_below_min"
          /\ checks[3].reason = "qty_below_min_after_rounding"
      BY DEF Check
    <2>4. /\ checks[1].fails <=> input.price <= 0 \/ input.equity <= 0
          /\ checks[2].fails <=> input.confidence < MinSizing
          /\ checks[3].fails <=> stepped < symbol.min_qty
      BY DEF Check
    <2> HIDE DEF checks
    <2>5. DOMAIN checks \subseteq Nat /\ \A i \in DOMAIN checks : checks[i].reason # "none"
      BY <2>2, <2>3
    <2>6. RejectReason(input, symbol) = "none" <=> \A i \in DOMAIN checks : ~checks[i].fails
      BY <2>1, <2>5, Passed
    <2>7. (\A i \in DOMAIN checks : ~checks[i].fails)
             <=> ~checks[1].fails /\ ~checks[2].fails /\ ~checks[3].fails
      BY <2>2
    <2> QED BY <2>4, <2>6, <2>7 DEF NoSize
  <1>6. CASE NoSize(input)
    <2>1. qty = 0
      BY <1>6 DEF SizeQty
    <2> QED BY <1>5, <1>6, <2>1
  <1>7. CASE ~NoSize(input)
    <2>1. input.price > 0
      BY <1>3, <1>7 DEF NoSize
    <2>2. stepped \in Int /\ stepped % symbol.step = 0 /\ stepped * input.price <= budget
      BY <1>1, <1>2, <2>1, SteppedFits
    <2>3. floored \in Int /\ floored % symbol.step = 0 /\ floored * input.price <= lifted
      BY <1>1, <1>2, <2>1, SteppedFits
    <2>4. floored * input.price <= cap
      <3>1. floored * input.price \in Int
        BY <1>3, <2>3
      <3> QED BY <1>2, <2>3, <3>1
    <2>5. qty = IF stepped >= symbol.min_qty THEN stepped
                ELSE IF floor > 0 /\ floored >= symbol.min_qty THEN floored
                ELSE 0
      BY <1>1, <1>7 DEF SizeQty
    <2>6. CASE stepped >= symbol.min_qty
      <3>1. qty = stepped /\ qty # 0
        BY <1>3, <2>2, <2>5, <2>6
      <3> QED BY <1>1, <2>2, <2>6, <3>1
    <2>7. CASE ~(stepped >= symbol.min_qty) /\ floor > 0 /\ floored >= symbol.min_qty
      <3>1. qty = floored /\ qty # 0
        BY <1>3, <2>3, <2>5, <2>7
      <3> QED BY <1>1, <2>3, <2>4, <2>7, <3>1
    <2>8. CASE ~(stepped >= symbol.min_qty) /\ ~(floor > 0 /\ floored >= symbol.min_qty)
      <3>1. qty = 0 /\ stepped < symbol.min_qty
        BY <1>3, <2>2, <2>5, <2>8
      <3> QED BY <1>5, <3>1
    <2> QED BY <2>6, <2>7, <2>8
  <1> QED BY <1>6, <1>7

-----------------------------------------------------------------------------
\* What is sized for a candidate that is offered and judged.
LEMMA InputIs ==
    ASSUME HistoriesOK, NEW i \in Judged, NEW account \in Accounts
    PROVE  /\ SizingInput(Offered[i], account) \in SizingInputs
           /\ account.symbol \in SymbolSpecs /\ account.floor \in Nat
  <1>1. i \in DOMAIN Offered /\ Regime(hours, Offered[i].type) = "regime_match"
    BY DEF Judged
  <1>2. PICK candidate : candidate = Offered[i]
    OBVIOUS
  <1>3. candidate.confidence \in Int /\ candidate.price \in Nat
    BY <1>1, <1>2, OfferedSound
  <1>4. Volatility(hours) \in Int
    BY <1>1, JudgedVolatility
  <1>5. SignalConfidence(candidate) \in Int
    BY <1>3 DEF SignalConfidence, Capped
  <1>6. /\ account.leverage \in Nat /\ account.floor \in Nat
        /\ account.symbol \in [min_qty : Nat \ {0}, step : Nat \ {0}, leverage : Nat]
        /\ account.portfolio.equity \in Int
    BY AccountsAssumption
  <1>7. AtLeast1(account.portfolio.equity) \in Nat \ {0}
    BY <1>6 DEF AtLeast1
  <1> QED BY <1>2, <1>3, <1>4, <1>5, <1>6, <1>7 DEF SizingInput, SizingInputs, SymbolSpecs

\* the quantities sized for them are paid for and explained,
LEMMA SoundSizes == HistoriesOK => SizedWithinBudget
  <1> SUFFICES ASSUME HistoriesOK, NEW i \in Judged, NEW account \in Accounts
               PROVE  LET input == SizingInput(Offered[i], account)
                          qty == Sized(Offered[i], account)
                          budget == NotionalBudget(input, account.symbol)
                          cap == IF account.floor > 0 THEN EquityCap(input) ELSE 0
                      IN  IF qty = 0 THEN RejectReason(input, account.symbol) # "none"
                          ELSE /\ qty >= account.symbol.min_qty
                               /\ qty % account.symbol.step = 0
                               /\ qty * input.price <= budget \/ qty * input.price <= cap
    BY DEF SizedWithinBudget
  <1>1. PICK input, qty : input = SizingInput(Offered[i], account) /\ qty = Sized(Offered[i], account)
    OBVIOUS
  <1>2. input \in SizingInputs /\ account.symbol \in SymbolSpecs /\ account.floor \in Nat
    BY <1>1, InputIs
  <1>3. qty = SizeQty(input, account.symbol, account.floor)
    BY <1>1 DEF Sized
  <1>4. /\ qty = 0 => RejectReason(input, account.symbol) # "none"
        /\ qty # 0 => /\ qty >= account.symbol.min_qty /\ qty % account.symbol.step = 0
                      /\ \/ qty * input.price <= NotionalBudget(input, account.symbol)
                         \/ qty * input.price <= IF account.floor > 0 THEN EquityCap(input) ELSE 0
    BY <1>2, <1>3, SizeIs
  <1> QED BY <1>1, <1>4

\* The position sizer hands out whole steps, at least the minimum and within the
\* budget or the capped floor, and explains a quantity of zero, for any equity,
\* confidence, volatility, price and symbol.
THEOREM SizeFitsBudget == SignalSpec => []SizedWithinBudget
  BY HistoriesBounded, SoundSizes, PTL

-----------------------------------------------------------------------------
\* What a portfolio holds is a number.
LEMMA HeldIs ==
    ASSUME NEW account \in Accounts
    PROVE  /\ TotalNotional(account.portfolio) \in Int
           /\ HeldSigned(account.portfolio, Symbol) \in Int
  <1>1. PICK positions : positions = account.portfolio.positions
    OBVIOUS
  <1>2. /\ IsFiniteSet(DOMAIN positions)
        /\ \A s \in DOMAIN positions : positions[s].qty \in Nat /\ positions[s].mark \in Nat
    BY <1>1, AccountsAssumption
  <1>3. PICK f : f = [s \in DOMAIN positions |-> Notional(positions[s])]
    OBVIOUS
  <1>4. DOMAIN f = DOMAIN positions /\ \A s \in DOMAIN f : f[s] \in Int
    BY <1>2, <1>3 DEF Notional
  <1>5. SumFunction(f) \in Int
    BY <1>2, <1>4, SumSound
  <1>6. TotalNotional(account.portfolio) = SumFunction(f)
    BY <1>1, <1>3 DEF TotalNotional
  <1>7. HeldSigned(account.portfolio, Symbol) \in Int
    BY <1>1, <1>2 DEF HeldSigned, Held, Signed
  <1> QED BY <1>5, <1>6, <1>7

\* An approved order keeps to the two limits.
LEMMA ApprovedFits ==
    ASSUME NEW tripped, NEW portfolio, NEW order,
           Evaluate(tripped, portfolio, order) = "approved"
    PROVE  /\ ~(Projected(portfolio, order) > MaxTotalNotional)
           /\ ~(/\ order.symbol \in DOMAIN PerSymbol
                /\ Magnitude(HeldSigned(portfolio, order.symbol) + Signed(order.side, order.qty))
                      > PerSymbol[order.symbol].qty)
  <1> DEFINE s == order.symbol
             limited == s \in DOMAIN PerSymbol
             checks ==
               << Check("circuit_breaker_tripped", tripped),
                  Check("safe_mode_enabled", portfolio.safe_mode),
                  Check("daily_loss_limit_reached", portfolio.realized <= -DailyLossLimit),
                  Check("max_total_notional_exceeded",
                        Projected(portfolio, order) > MaxTotalNotional),
                  Check("portfolio_max_leverage_exceeded",
                        OverLeveraged(TotalNotional(portfolio), portfolio)),
                  Check("position_max_leverage_exceeded",
                        OverLeveraged(HeldNotional(portfolio, s), portfolio)),
                  Check("liquidation_buffer_violation",
                        Held(portfolio, s) /\ NearLiquidation(portfolio.positions[s])),
                  Check("per_symbol_max_notional_exceeded",
                        limited /\ HeldNotional(portfolio, s) + OrderNotional(order)
                                     > PerSymbol[s].notional),
                  Check("per_symbol_max_position_exceeded",
                        limited /\ Magnitude(HeldSigned(portfolio, s) + Signed(order.side, order.qty))
                                     > PerSymbol[s].qty),
                  Check("confidence_below_threshold",
                        ScaledConfidence(portfolio, order) < 100 * MinConfidence) >>
  <1>1. Evaluate(tripped, portfolio, order) = FirstFailing(checks, "approved")
    BY DEF Evaluate
  <1>2. DOMAIN checks = 1 .. 10
    OBVIOUS
  <1>3. /\ checks[1].reason = "circuit_breaker_tripped"
        /\ checks[2].reason = "safe_mode_enabled"
        /\ checks[3].reason = "daily_loss_limit_reached"
        /\ checks[4].reason = "max_total_notional_exceeded"
        /\ checks[5].reason = "portfolio_max_leverage_exceeded"
        /\ checks[6].reason = "position_max_leverage_exceeded"
        /\ checks[7].reason = "liquidation_buffer_violation"
        /\ checks[8].reason = "per_symbol_max_notional_exceeded"
        /\ checks[9].reason = "per_symbol_max_position_exceeded"
        /\ checks[10].reason = "confidence_below_threshold"
    BY DEF Check
  <1>4. checks[4].fails <=> Projected(portfolio, order) > MaxTotalNotional
    BY DEF Check
  <1>5. checks[9].fails
           <=> limited /\ Magnitude(HeldSigned(portfolio, s) + Signed(order.side, order.qty))
                             > PerSymbol[s].qty
    BY DEF Check
  <1> HIDE DEF checks
  <1>6. DOMAIN checks \subseteq Nat /\ \A i \in DOMAIN checks : checks[i].reason # "approved"
    BY <1>2, <1>3
  <1>7. \A i \in DOMAIN checks : ~checks[i].fails
    BY <1>1, <1>6, Passed
  <1>8. ~checks[4].fails /\ ~checks[9].fails
    BY <1>2, <1>7
  <1> QED BY <1>4, <1>5, <1>8

\* and those that enter keep to the limits.
LEMMA SoundEntries == HistoriesOK => EntersWithinLimits
  <1> SUFFICES ASSUME HistoriesOK, NEW i \in Judged, NEW account \in Accounts,
                      NEW artifact \in Artifacts, NEW score \in {Unavailable, Threshold},
                      Decision(Offered[i], account, artifact, score) = "enter"
               PROVE  LET portfolio == account.portfolio
                          order == Order(Offered[i], account)
                          position == HeldSigned(portfolio, Symbol)
                                         + (IF order.side = "Buy" THEN order.qty ELSE -order.qty)
                      IN  /\ TotalNotional(portfolio) + order.qty * order.price <= MaxTotalNotional
                          /\ Symbol \in DOMAIN PerSymbol =>
                                position \in -PerSymbol[Symbol].qty .. PerSymbol[Symbol].qty
    BY DEF EntersWithinLimits
  <1>1. PICK portfolio, order : portfolio = account.portfolio /\ order = Order(Offered[i], account)
    OBVIOUS
  <1>2. Evaluate(FALSE, portfolio, order) = "approved"
    BY <1>1 DEF Decision
  <1>3. order.symbol = Symbol /\ order.side \in {"Buy", "Sell"}
    BY <1>1 DEF Order
  <1>4. order.qty \in Int /\ order.price \in Nat
    <2>1. order.qty = Sized(Offered[i], account) /\ order.price = Offered[i].price
      BY <1>1 DEF Order
    <2>2. Sized(Offered[i], account) \in Int
      BY InputIs, SizeIs DEF Sized
    <2>3. Offered[i].price \in Nat
      BY OfferedSound DEF Judged
    <2> QED BY <2>1, <2>2, <2>3
  <1>5. PICK total, held : total = TotalNotional(portfolio) /\ held = HeldSigned(portfolio, Symbol)
    OBVIOUS
  <1>6. total \in Int /\ held \in Int
    BY <1>1, <1>5, HeldIs
  <1>7. total + order.qty * order.price <= MaxTotalNotional
    <2>1. order.qty * order.price \in Int
      BY <1>4
    <2>2. Projected(portfolio, order) = total + order.qty * order.price
      BY <1>5 DEF Projected, OrderNotional
    <2>3. ~(Projected(portfolio, order) > MaxTotalNotional)
      BY <1>2, ApprovedFits
    <2> QED BY <1>6, <2>1, <2>2, <2>3, LimitsAssumption
  <1>8. ASSUME Symbol \in DOMAIN PerSymbol
        PROVE  held + (IF order.side = "Buy" THEN order.qty ELSE -order.qty)
                  \in -PerSymbol[Symbol].qty .. PerSymbol[Symbol].qty
    <2>1. PICK position : position = held + (IF order.side = "Buy" THEN order.qty ELSE -order.qty)
      OBVIOUS
    <2>2. position \in Int
      BY <1>4, <1>6, <2>1
    <2>3. Signed(order.side, order.qty) = IF order.side = "Buy" THEN order.qty ELSE -order.qty
      BY <1>3 DEF Signed
    <2>4. ~(Magnitude(position) > PerSymbol[Symbol].qty)
      BY <1>2, <1>3, <1>5, <1>8, <2>1, <2>3, ApprovedFits
    <2>5. PerSymbol[Symbol].qty \in Int
      BY <1>8, LimitsAssumption
    <2>6. position <= PerSymbol[Symbol].qty /\ -PerSymbol[Symbol].qty <= position
      BY <2>2, <2>4, <2>5 DEF Magnitude
    <2> QED BY <2>1, <2>2, <2>5, <2>6
  <1> QED BY <1>1, <1>5, <1>7, <1>8

\* What regime filter, sizer, risk engine and model filter let through leaves the
\* portfolio within max_total_notional_usdt and the symbol's position limit, for
\* any limits, positions and candidates.
THEOREM EntryFitsLimits == SignalSpec => []EntersWithinLimits
  BY HistoriesBounded, SoundEntries, PTL

=============================================================================
