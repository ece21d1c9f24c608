----------------------------- MODULE Reconciler -----------------------------
(***************************************************************************)
(* What Reconciler.reconcile_orders, Reconciler.reconcile_positions and    *)
(* the branches of RuntimeOrchestrator._reconcile_cycle compute, as        *)
(* operators.  The steps that fetch the snapshots are in OrderFlow.        *)
(***************************************************************************)
EXTENDS Integers

CONSTANT MaxMismatches   \* where the mismatch counter stops (the code acts at 3)

ASSUME MaxMismatchesAssumption == MaxMismatches \in Nat \ {0}

\* The part of the runtime's state the reconcile cycle decides:
\* _startup_state_blocked, _orphan_position_blocked and
\* _consecutive_reconcile_mismatches.
BlockState == [startup : BOOLEAN, orphan : BOOLEAN, mismatches : 0 .. MaxMismatches]

NoBlocks == [startup |-> FALSE, orphan |-> FALSE, mismatches |-> 0]

\* Mutant of Orphaned: trusts the local store alone.
OrphanedLocalOnly(held, localExits, exchangeExits) == held \ localExits

\* Symbols with a position for which no reduce-only order is open both
\* locally and on the exchange (missing_reduce_only_exit issues).
Orphaned(held, localExits, exchangeExits) ==
    held \ (localExits \intersect exchangeExits)

NextMismatch(n) == IF n < MaxMismatches THEN n + 1 ELSE n

\* The cycle found nothing but orders missing on the exchange, closed them
\* all, and every position is protected: the first branch.  A report with no
\* issue at all also takes it, since all() of an empty list is true; the
\* final else of the code is never reached.
RecoveredByClosing(missing, closed, strays, orphans) ==
    strays = {} /\ closed = missing /\ orphans = {}

\* Only orders missing locally, already upserted by reconcile_orders.
RecoveredBySync(missing, strays, orphans) ==
    missing = {} /\ strays # {} /\ orphans = {}

\* Mutant of AfterMismatch: a position without an exit counts as a mismatch
\* but the orphan flag is never raised.
AfterMismatchNoOrphan(blocks, orphans) ==
    [startup    |-> TRUE,
     orphan     |-> blocks.orphan,
     mismatches |-> NextMismatch(blocks.mismatches)]

\* Mutant of AfterMismatch: a mismatch no longer raises the startup block.
AfterMismatchStartupKept(blocks, orphans) ==
    [startup    |-> blocks.startup,
     orphan     |-> blocks.orphan \/ orphans # {},
     mismatches |-> NextMismatch(blocks.mismatches)]

\* The third branch: startup block always, orphan block when a position
\* lacks its exit (never cleared here).
AfterMismatch(blocks, orphans) ==
    [startup    |-> TRUE,
     orphan     |-> blocks.orphan \/ orphans # {},
     mismatches |-> NextMismatch(blocks.mismatches)]

\* Mutant of AfterSync: forgets to clear the orphan block.
AfterSyncKeepsOrphan(blocks, strays, reduceOnly) ==
    [startup    |-> blocks.startup /\ ~(strays \subseteq reduceOnly),
     orphan     |-> blocks.orphan,
     mismatches |-> 0]

\* The second branch: the orphan block goes, the startup block only when
\* every synchronised order is reduce-only.
AfterSync(blocks, strays, reduceOnly) ==
    [startup    |-> blocks.startup /\ ~(strays \subseteq reduceOnly),
     orphan     |-> FALSE,
     mismatches |-> 0]

BlocksAfter(blocks, missing, closed, strays, orphans, reduceOnly) ==
    IF RecoveredByClosing(missing, closed, strays, orphans) THEN NoBlocks
    ELSE IF RecoveredBySync(missing, strays, orphans)
         THEN AfterSync(blocks, strays, reduceOnly)
         ELSE AfterMismatch(blocks, orphans)

=============================================================================
