----------------------------- MODULE SoakProofs ------------------------------
(***************************************************************************)
(* Theorems about Soak, for any number of entry orders, sessions and       *)
(* incidents and any thresholds of the promotion.                          *)
(***************************************************************************)
EXTENDS Soak, SequenceTheorems, TLAPS

-----------------------------------------------------------------------------
(***************************************************************************)
(* The inductive invariant.                                                *)
(***************************************************************************)
AbortReasons == {"task_failed", "repeated_reconcile_mismatch", "stale_feed"}

Fates == {"unused", "past", "registered", "placed", "refused", "filled", "skipped", "failed",
          "counted", "exit_placed", "covered", "closed"}

Session == [mode : {"demo", "paper"}, placement : BOOLEAN, clean : BOOLEAN,
            aborts : SUBSET AbortReasons, count : [Counters -> Nat],
            stale : BOOLEAN, tripped : BOOLEAN]

Reported == [mode : {"demo", "paper"}, placement : BOOLEAN, clean : BOOLEAN,
             aborts : SUBSET AbortReasons, count : [Counters -> Nat],
             uncleared : BOOLEAN, stale : BOOLEAN, tripped : BOOLEAN,
             verdict : {"PASS", "PASS_WITH_WARNINGS", "FAIL"}, duration : Durations,
             loose_ends : BOOLEAN, blocks : BlockState]

TypeOK ==
    /\ session \in Session
    /\ up \in BOOLEAN
    /\ answers \in SUBSET {"decision", "exit"}
    /\ fate \in [Entries -> Fates]
    /\ blocks \in BlockState
    /\ reports \in Seq(Reported)

Some(fates) == \E e \in Entries : fate[e] \in fates

One(holds) == IF holds THEN 1 ELSE 0

\* Every answer that is awaited, and a refusal, leaves the acks one short.
AcksShort ==
    session.count.acks + One("decision" \in answers) + One("exit" \in answers)
        + One(Some({"refused"})) <= session.count.submissions

\* Every fill has been settled but the one the handler is at.
FillsSettled ==
    session.count.entry_fill =
        session.count.pe_submitted + session.count.pe_failed + session.count.pe_skipped
            + One(Some({"filled"}))

FailuresCounted == Some({"failed"}) => session.count.pe_failed > 0

\* The handler is at one entry, whose exit, once placed, has yet to be answered.
AtHandler == {"filled", "counted", "exit_placed"}

OneAtHandler ==
    \A e, f \in Entries : fate[e] \in AtHandler /\ fate[f] \in AtHandler => e = f

ExitAwaited == Some({"exit_placed"}) => "exit" \in answers

\* Between two sessions nothing is under way.
NothingLeft == ~up => answers = {} /\ \A e \in Entries : fate[e] \in {"unused", "past"}

OrphanBlocksStartup == blocks.orphan => blocks.startup

SessionInv ==
    /\ AcksShort /\ FillsSettled /\ FailuresCounted
    /\ OneAtHandler /\ ExitAwaited /\ NothingLeft /\ OrphanBlocksStartup

\* What a report says is true of the session it is about.
SoundReport(r) ==
    /\ ExitMissing(r) \/ AbortBlamed(r) \/ RepeatedMismatch(r) => r.verdict = "FAIL"
    /\ r.blocks.orphan => r.blocks.startup
    /\ r.blocks.startup => r.uncleared
    /\ r.verdict # "FAIL" => ~r.loose_ends

ReportsSound == \A i \in DOMAIN reports : SoundReport(reports[i])

IInv == TypeOK /\ SessionInv /\ ReportsSound

-----------------------------------------------------------------------------
(***************************************************************************)
(* Counters and fates.                                                     *)
(***************************************************************************)

\* The counters the invariant is about.
Key == {"submissions", "acks", "entry_fill", "pe_submitted", "pe_failed", "pe_skipped"}

\* All of them are counters of a session.
LEMMA KeyCounters == Key \subseteq Counters
  BY DEF Key, Counters

\* A counter goes up by one or stays.
LEMMA CountingFacts ==
    ASSUME NEW s \in Session, NEW names
    PROVE  /\ Counting(s, names) \in Session
           /\ \A c \in Counters :
                 Counting(s, names).count[c] = s.count[c] + IF c \in names THEN 1 ELSE 0
  <1> DEFINE count == [c \in Counters |-> s.count[c] + IF c \in names THEN 1 ELSE 0]
  <1>1. Counting(s, names) = [s EXCEPT !.count = count]
    BY DEF Counting
  <1>2. s.count \in [Counters -> Nat]
    BY DEF Session
  <1>3. count \in [Counters -> Nat]
    BY <1>2
  <1>4. \A c \in Counters : count[c] = s.count[c] + IF c \in names THEN 1 ELSE 0
    OBVIOUS
  <1> HIDE DEF count
  <1>5. Counting(s, names) \in Session /\ Counting(s, names).count = count
    BY <1>1, <1>3 DEF Session
  <1> QED BY <1>4, <1>5

KeysNat ==
    /\ session.count.submissions \in Nat /\ session.count.acks \in Nat
    /\ session.count.entry_fill \in Nat /\ session.count.pe_submitted \in Nat
    /\ session.count.pe_failed \in Nat /\ session.count.pe_skipped \in Nat

KeysCount(names) ==
    /\ session'.count.submissions = session.count.submissions + One("submissions" \in names)
    /\ session'.count.acks = session.count.acks + One("acks" \in names)
    /\ session'.count.entry_fill = session.count.entry_fill + One("entry_fill" \in names)
    /\ session'.count.pe_submitted = session.count.pe_submitted + One("pe_submitted" \in names)
    /\ session'.count.pe_failed = session.count.pe_failed + One("pe_failed" \in names)
    /\ session'.count.pe_skipped = session.count.pe_skipped + One("pe_skipped" \in names)

\* The key counters are numbers.
LEMMA CountType == ASSUME TypeOK PROVE KeysNat
  <1>1. session.count \in [Counters -> Nat]
    BY DEF TypeOK, Session
  <1> QED BY <1>1, KeyCounters DEF Key, KeysNat

\* What a step that counts does to the key counters.
LEMMA CountFacts ==
    ASSUME TypeOK, NEW names, Count(names)
    PROVE  session' \in Session /\ KeysNat /\ KeysCount(names)
  <1>1. session' = Counting(session, names) /\ session \in Session
    BY DEF Count, TypeOK
  <1>2. /\ session' \in Session
        /\ \A c \in Counters : session'.count[c] = session.count[c] + One(c \in names)
    BY <1>1, CountingFacts DEF One
  <1> QED BY <1>2, CountType, KeyCounters DEF Key, KeysCount

\* One entry moves on.
LEMMA Moved ==
    ASSUME TypeOK, NEW e \in Entries, NEW to \in Fates, fate' = [fate EXCEPT ![e] = to]
    PROVE  /\ fate' \in [Entries -> Fates]
           /\ \A f \in Entries : fate'[f] = IF f = e THEN to ELSE fate[f]
  BY DEF TypeOK

\* Whether some entry has one of the fates, when one entry moves on.
LEMMA SomeMoved ==
    ASSUME TypeOK, NEW e \in Entries, NEW to \in Fates, fate' = [fate EXCEPT ![e] = to],
           NEW S
    PROVE  /\ to \in S => Some(S)'
           /\ to \notin S /\ fate[e] \notin S => (Some(S)' <=> Some(S))
           /\ to \notin S /\ (\A f \in Entries : fate[f] \in S => f = e) => ~Some(S)'
           /\ fate[e] \in S => Some(S)
  <1>1. \A f \in Entries : fate'[f] = IF f = e THEN to ELSE fate[f]
    BY Moved
  <1>2. to \in S => Some(S)'
    BY <1>1 DEF Some
  <1>3. ASSUME to \notin S, fate[e] \notin S PROVE Some(S)' <=> Some(S)
    BY <1>1, <1>3 DEF Some
  <1>4. ASSUME to \notin S, \A f \in Entries : fate[f] \in S => f = e PROVE ~Some(S)'
    BY <1>1, <1>4 DEF Some
  <1>5. Some(S) \in BOOLEAN /\ Some(S)' \in BOOLEAN
    BY DEF Some
  <1> QED BY <1>2, <1>3, <1>4, <1>5 DEF Some

-----------------------------------------------------------------------------
(***************************************************************************)
(* The start and the end of a session.                                     *)
(***************************************************************************)

\* build_soak_report says what was.
LEMMA ReportIsSound ==
    ASSUME IInv, NEW s \in Session, s.count = session.count, NEW d \in Durations
    PROVE  Report(s, d) \in Reported /\ SoundReport(Report(s, d))
  <1> DEFINE m == Summary(s)
             r == Report(s, d)
  <1>1. /\ r.mode = m.mode /\ r.clean = m.clean /\ r.aborts = m.aborts /\ r.count = m.count
        /\ r.uncleared = m.uncleared /\ r.stale = m.stale /\ r.tripped = m.tripped
        /\ r.uncleared = blocks.startup /\ r.count = session.count
        /\ r.verdict = Verdict(m) /\ r.blocks = blocks /\ r.loose_ends = LooseEnds
    BY DEF Report, Summary
  <1>2. Verdict(m) \in {"PASS", "PASS_WITH_WARNINGS", "FAIL"}
        /\ (Failures(m) # {} => Verdict(m) = "FAIL")
    BY DEF Verdict
  <1>3. r \in Reported
    <2>1. blocks \in BlockState /\ blocks.startup \in BOOLEAN /\ LooseEnds \in BOOLEAN
      BY DEF IInv, TypeOK, BlockState, LooseEnds
    <2> QED BY <1>2, <2>1 DEF Report, Reported, Session
  <1> HIDE DEF m, r
  <1>4. /\ ExitMissing(m) => Failures(m) # {}
        /\ Aborted(m) => Failures(m) # {}
        /\ RepeatedMismatch(m) => Failures(m) # {}
        /\ m.count.pe_failed > 0 => Failures(m) # {}
        /\ Unanswered(m) => Failures(m) # {}
    BY DEF Failures, When
  <1>5. ExitMissing(r) \/ AbortBlamed(r) \/ RepeatedMismatch(r) => r.verdict = "FAIL"
    <2>1. ExitMissing(r) => ExitMissing(m)
      BY <1>1 DEF ExitMissing
    <2>2. RepeatedMismatch(r) => RepeatedMismatch(m)
      BY <1>1 DEF RepeatedMismatch
    <2>3. StaleFeedRecovered(m) => StaleFeedRecovered(r)
      BY <1>1 DEF StaleFeedRecovered, UnackedFills
    <2>4. AbortBlamed(r) => Aborted(m)
      BY <1>1, <2>3 DEF AbortBlamed, Aborted
    <2> QED BY <1>1, <1>2, <1>4, <2>1, <2>2, <2>4
  <1>6. (r.blocks.orphan => r.blocks.startup) /\ (r.blocks.startup => r.uncleared)
    BY <1>1 DEF IInv, SessionInv, OrphanBlocksStartup
  <1>7. ASSUME r.verdict # "FAIL"
        PROVE  ~r.loose_ends
    <2>1. ~ExitMissing(m) /\ ~(m.count.pe_failed > 0) /\ ~Unanswered(m)
      BY <1>1, <1>2, <1>4, <1>7
    <2>2. /\ session.count.submissions \in Nat /\ session.count.acks \in Nat
          /\ session.count.entry_fill \in Nat /\ session.count.pe_submitted \in Nat
          /\ session.count.pe_failed \in Nat /\ session.count.pe_skipped \in Nat
      BY CountType DEF IInv, KeysNat
    <2>3. session.count.submissions <= session.count.acks
      BY <1>1, <2>1, <2>2 DEF Unanswered
    <2>4. session.count.entry_fill <=
             session.count.pe_submitted + session.count.pe_failed + session.count.pe_skipped
      BY <1>1, <2>1, <2>2 DEF ExitMissing
    <2>5. ~Some({"refused"}) /\ "exit" \notin answers /\ "decision" \notin answers
      BY <2>2, <2>3 DEF IInv, SessionInv, AcksShort, One
    <2>6. ~Some({"filled"})
      BY <2>2, <2>4 DEF IInv, SessionInv, FillsSettled, One
    <2>7. ~Some({"failed"})
      BY <1>1, <2>1 DEF IInv, SessionInv, FailuresCounted
    <2>8. ~Some({"exit_placed"})
      BY <2>5 DEF IInv, SessionInv, ExitAwaited
    <2>9. answers = {}
      BY <2>5 DEF IInv, TypeOK
    <2> QED BY <1>1, <2>5, <2>6, <2>7, <2>8, <2>9 DEF Some, LooseEnds
  <1> QED BY <1>3, <1>5, <1>6, <1>7 DEF SoundReport, r

\* A new session has counted nothing that the invariant is about.
LEMMA FreshFacts ==
    ASSUME NEW mode \in {"demo", "paper"}
    PROVE  /\ Fresh(mode) \in Session
           /\ \A c \in Counters : Fresh(mode).count[c] = 0
  <1>1. NoCounts \in [Counters -> Nat] /\ \A c \in Counters : NoCounts[c] = 0
    BY DEF NoCounts
  <1>2. {} \in SUBSET AbortReasons
    OBVIOUS
  <1> QED BY <1>1, <1>2 DEF Fresh, Session

\* When nothing is counted and nothing under way, nothing is owed.
LEMMA BlankInv ==
    ASSUME session' \in Session, \A c \in Key : session'.count[c] = 0, answers' = {},
           \A e \in Entries : fate'[e] \in {"unused", "past"}, OrphanBlocksStartup'
    PROVE  SessionInv'
  <1>1. /\ session'.count.submissions = 0 /\ session'.count.acks = 0
        /\ session'.count.entry_fill = 0 /\ session'.count.pe_submitted = 0
        /\ session'.count.pe_failed = 0 /\ session'.count.pe_skipped = 0
    BY DEF Key
  <1>2. /\ ~Some({"refused"})' /\ ~Some({"filled"})'
        /\ ~Some({"failed"})' /\ ~Some({"exit_placed"})'
    BY DEF Some
  <1>3. AcksShort'
    BY <1>1, <1>2 DEF AcksShort, One
  <1>4. FillsSettled'
    BY <1>1, <1>2 DEF FillsSettled, One
  <1>5. FailuresCounted' /\ ExitAwaited'
    BY <1>2 DEF FailuresCounted, ExitAwaited
  <1>6. OneAtHandler'
    BY DEF OneAtHandler, AtHandler
  <1>7. NothingLeft'
    BY DEF NothingLeft
  <1> QED BY <1>3, <1>4, <1>5, <1>6, <1>7 DEF SessionInv

\* What the process held is gone.
LEMMA GoneKeeps ==
    ASSUME IInv, Gone, reports' \in Seq(Reported), ReportsSound'
    PROVE  IInv'
  <1>1. session' \in Session /\ \A c \in Counters : session'.count[c] = 0
    BY FreshFacts DEF Gone
  <1>2. fate' \in [Entries -> Fates] /\ \A e \in Entries : fate'[e] \in {"unused", "past"}
    BY DEF Gone, Fates
  <1>3. blocks' \in BlockState /\ OrphanBlocksStartup'
    BY MaxMismatchesAssumption DEF Gone, NoBlocks, BlockState, OrphanBlocksStartup
  <1>4. TypeOK'
    BY <1>1, <1>2, <1>3 DEF Gone, TypeOK
  <1>5. SessionInv'
    <2>1. \A c \in Key : session'.count[c] = 0
      BY <1>1, KeyCounters
    <2>2. answers' = {}
      BY DEF Gone
    <2> QED BY <1>1, <1>2, <1>3, <2>1, <2>2, BlankInv
  <1> QED BY <1>4, <1>5 DEF IInv

\* A session that ends leaves a sound report.
LEMMA ReportKeeps ==
    ASSUME IInv, Gone, NEW s \in Session, s.count = session.count, NEW d \in Durations,
           reports' = Append(reports, Report(s, d))
    PROVE  IInv'
  <1>1. reports \in Seq(Reported) /\ Report(s, d) \in Reported /\ SoundReport(Report(s, d))
    BY ReportIsSound DEF IInv, TypeOK
  <1>2. /\ reports' \in Seq(Reported) /\ Len(reports) \in Nat
        /\ DOMAIN reports' = 1 .. Len(reports) + 1 /\ DOMAIN reports = 1 .. Len(reports)
        /\ reports'[Len(reports) + 1] = Report(s, d)
        /\ \A i \in 1 .. Len(reports) : reports'[i] = reports[i]
    BY <1>1, AppendProperties
  <1>3. \A i \in DOMAIN reports' : SoundReport(reports'[i])
    BY <1>1, <1>2 DEF IInv, ReportsSound
  <1>4. ReportsSound'
    BY <1>3 DEF ReportsSound, SoundReport, ExitMissing, AbortBlamed, RepeatedMismatch,
                StaleFeedRecovered, UnackedFills
  <1> QED BY <1>2, <1>4, GoneKeeps

\* The session ends as asked.
LEMMA EndsKeeps == ASSUME IInv, NEW d \in Durations, SessionEnds(d) PROVE IInv'
  BY ReportKeeps DEF SessionEnds, IInv, TypeOK

\* A failed task ends it.
LEMMA TaskFailsKeeps == ASSUME IInv, NEW d \in Durations, TaskFails(d) PROVE IInv'
  <1> DEFINE failed == [session EXCEPT !.clean = FALSE, !.aborts = @ \union {"task_failed"}]
  <1>1. failed \in Session /\ failed.count = session.count
    <2>1. session \in Session
      BY DEF IInv, TypeOK
    <2>2. session.aborts \union {"task_failed"} \in SUBSET AbortReasons
      BY <2>1 DEF Session, AbortReasons
    <2> QED BY <2>1, <2>2 DEF Session
  <1> QED BY <1>1, ReportKeeps DEF TaskFails

\* It leaves no report.
LEMMA NoReportKeeps == ASSUME IInv, LeavesNoReport PROVE IInv'
  <1>1. reports' \in Seq(Reported) /\ ReportsSound' /\ Gone
    BY DEF IInv, TypeOK, LeavesNoReport, ReportsSound
  <1> QED BY <1>1, GoneKeeps

\* A session starts, blocked or not.
LEMMA StartKeeps ==
    ASSUME IInv, NEW mode \in {"demo", "paper"}, NEW dirty \in BOOLEAN,
           SessionStart(mode, dirty)
    PROVE  IInv'
  <1> DEFINE names == IF dirty THEN {"startup_blocked"} ELSE {}
  <1>1. /\ TypeOK /\ ~up /\ up' = TRUE /\ session' = Counting(Fresh(mode), names)
        /\ blocks' = [NoBlocks EXCEPT !.startup = dirty]
        /\ answers' = answers /\ fate' = fate /\ reports' = reports
    BY DEF IInv, SessionStart
  <1>2. /\ session' \in Session
        /\ \A c \in Counters :
              session'.count[c] = Fresh(mode).count[c] + IF c \in names THEN 1 ELSE 0
    BY <1>1, FreshFacts, CountingFacts
  <1>3. \A c \in Key : session'.count[c] = 0
    <2>1. \A c \in Key : c \notin names
      BY DEF Key
    <2> QED BY <1>2, <2>1, FreshFacts, KeyCounters
  <1>4. blocks' \in BlockState /\ OrphanBlocksStartup'
    <2>1. blocks' = [startup |-> dirty, orphan |-> FALSE, mismatches |-> 0]
      BY <1>1 DEF NoBlocks
    <2> QED BY <2>1, MaxMismatchesAssumption DEF BlockState, OrphanBlocksStartup
  <1>5. answers = {} /\ \A e \in Entries : fate[e] \in {"unused", "past"}
    BY <1>1 DEF IInv, SessionInv, NothingLeft
  <1>6. TypeOK'
    BY <1>1, <1>2, <1>4 DEF TypeOK
  <1>7. SessionInv'
    BY <1>1, <1>2, <1>3, <1>4, <1>5, BlankInv
  <1>8. ReportsSound'
    BY <1>1 DEF IInv, ReportsSound
  <1> QED BY <1>6, <1>7, <1>8 DEF IInv

-----------------------------------------------------------------------------
(***************************************************************************)
(* Steps that leave the orders alone.                                      *)
(***************************************************************************)

\* Neither an order nor a counter the invariant is about changes.
LEMMA AsideKeeps ==
    ASSUME IInv, up' = up, answers' = answers, fate' = fate, reports' = reports,
           session' \in Session, \A c \in Key : session'.count[c] = session.count[c],
           blocks' \in BlockState, OrphanBlocksStartup'
    PROVE  IInv'
  <1>1. TypeOK'
    BY DEF IInv, TypeOK
  <1>2. /\ session'.count.submissions = session.count.submissions
        /\ session'.count.acks = session.count.acks
        /\ session'.count.entry_fill = session.count.entry_fill
        /\ session'.count.pe_submitted = session.count.pe_submitted
        /\ session'.count.pe_failed = session.count.pe_failed
        /\ session'.count.pe_skipped = session.count.pe_skipped
    BY DEF Key
  <1>3. \A S : Some(S)' <=> Some(S)
    BY DEF Some
  <1>4. AcksShort'
    BY <1>2, <1>3 DEF IInv, SessionInv, AcksShort, One
  <1>5. FillsSettled'
    BY <1>2, <1>3 DEF IInv, SessionInv, FillsSettled, One
  <1>6. FailuresCounted' /\ ExitAwaited'
    BY <1>2, <1>3 DEF IInv, SessionInv, FailuresCounted, ExitAwaited
  <1>7. OneAtHandler' /\ NothingLeft'
    BY DEF IInv, SessionInv, OneAtHandler, NothingLeft
  <1>8. ReportsSound'
    BY DEF IInv, ReportsSound
  <1> QED BY <1>1, <1>4, <1>5, <1>6, <1>7, <1>8 DEF IInv, SessionInv

\* Counters that no order depends on go up.
LEMMA OtherCounters ==
    ASSUME NEW s \in Session, NEW names, names \intersect Key = {}
    PROVE  /\ Counting(s, names) \in Session
           /\ \A c \in Key : Counting(s, names).count[c] = s.count[c]
  <1>1. /\ Counting(s, names) \in Session
        /\ \A c \in Counters :
              Counting(s, names).count[c] = s.count[c] + IF c \in names THEN 1 ELSE 0
    BY CountingFacts
  <1>2. \A c \in Key : c \in Counters /\ c \notin names
    BY KeyCounters
  <1>3. s.count \in [Counters -> Nat]
    BY DEF Session
  <1> QED BY <1>1, <1>2, <1>3

\* A candidate that leads to no entry.
LEMMA DroppedKeeps == ASSUME IInv, NEW how \in NoEntry, CandidateDropped(how) PROVE IInv'
  <1>1. how \intersect Key = {}
    BY DEF NoEntry, SizedOut, FilteredOut, Allowed, Key
  <1>2. ({"candidates"} \union how) \intersect Key = {}
    BY <1>1 DEF Key
  <1>3. session \in Session /\ session' = Counting(session, {"candidates"} \union how)
    BY DEF IInv, TypeOK, CandidateDropped, Count
  <1>4. session' \in Session /\ \A c \in Key : session'.count[c] = session.count[c]
    BY <1>2, <1>3, OtherCounters
  <1>5. blocks' \in BlockState /\ OrphanBlocksStartup'
    BY DEF IInv, TypeOK, SessionInv, OrphanBlocksStartup, CandidateDropped
  <1> QED BY <1>4, <1>5, AsideKeeps DEF CandidateDropped

\* A reconcile cycle, whichever branch it takes.
LEMMA CycleKeeps ==
    ASSUME IInv, NEW new \in BlockState, new.orphan => new.startup, NEW mismatch \in BOOLEAN,
           ReconcileCycle(new, mismatch)
    PROVE  IInv'
  <1> DEFINE names == BlockCounters(blocks, new) \union When(mismatch, "mismatch_cycles")
             counted == Counting(session, names)
             blamed == When(mismatch /\ new.mismatches = MaxMismatches,
                            "repeated_reconcile_mismatch")
  <1>1. names \intersect Key = {}
    BY DEF BlockCounters, When, Key
  <1>2. counted \in Session /\ \A c \in Key : counted.count[c] = session.count[c]
    BY <1>1, OtherCounters DEF IInv, TypeOK
  <1>3. session' = [counted EXCEPT !.aborts = @ \union blamed]
    BY DEF ReconcileCycle
  <1>4. blamed \subseteq AbortReasons
    BY DEF When, AbortReasons
  <1> HIDE DEF counted, blamed, names
  <1>5. counted.aborts \union blamed \in SUBSET AbortReasons
    BY <1>2, <1>4 DEF Session
  <1>6. session' \in Session /\ session'.count = counted.count
    BY <1>2, <1>3, <1>5 DEF Session
  <1>7. blocks' \in BlockState /\ OrphanBlocksStartup'
    BY DEF ReconcileCycle, OrphanBlocksStartup
  <1> QED BY <1>2, <1>6, <1>7, AsideKeeps DEF ReconcileCycle

\* The three branches of the reconcile cycle.
LEMMA ReconcileKeeps ==
    ASSUME IInv, ReconcileOk \/ ReconcileSynced \/ ReconcileMismatch PROVE IInv'
  <1>1. CASE ReconcileOk
    <2>1. NoBlocks \in BlockState /\ ~NoBlocks.orphan
      BY MaxMismatchesAssumption DEF NoBlocks, BlockState
    <2> QED BY <1>1, <2>1, CycleKeeps DEF ReconcileOk
  <1>2. CASE ReconcileSynced
    <2>1. PICK strays \in {{"entry"}, {"exit"}} :
              ReconcileCycle(AfterSync(blocks, strays, {"exit"}), FALSE)
      BY <1>2 DEF ReconcileSynced
    <2>2. /\ AfterSync(blocks, strays, {"exit"}) \in BlockState
          /\ ~AfterSync(blocks, strays, {"exit"}).orphan
      BY MaxMismatchesAssumption DEF AfterSync, BlockState, IInv, TypeOK
    <2> QED BY <2>1, <2>2, CycleKeeps
  <1>3. CASE ReconcileMismatch
    <2>1. PICK orphans \in {{}, {"symbol"}} :
              ReconcileCycle(AfterMismatch(blocks, orphans), TRUE)
      BY <1>3 DEF ReconcileMismatch
    <2>2. blocks \in BlockState
      BY DEF IInv, TypeOK
    <2>3. NextMismatch(blocks.mismatches) \in 0 .. MaxMismatches
      BY <2>2, MaxMismatchesAssumption DEF NextMismatch, BlockState
    <2>4. /\ AfterMismatch(blocks, orphans) \in BlockState
          /\ AfterMismatch(blocks, orphans).startup
      BY <2>2, <2>3 DEF AfterMismatch, BlockState
    <2> QED BY <2>1, <2>4, CycleKeeps
  <1> QED BY <1>1, <1>2, <1>3

\* The feed goes stale, and later it is back.
LEMMA FeedKeeps ==
    ASSUME IInv, FeedStale \/ \E cooled \in BOOLEAN : FeedBack(cooled) PROVE IInv'
  <1>1. session \in Session /\ blocks \in BlockState /\ OrphanBlocksStartup
    BY DEF IInv, TypeOK, SessionInv
  <1>2. session' \in Session /\ session'.count = session.count
    <2>1. CASE FeedStale
      <3>1. session.aborts \union {"stale_feed"} \in SUBSET AbortReasons
        BY <1>1 DEF Session, AbortReasons
      <3> QED BY <1>1, <2>1, <3>1 DEF FeedStale, Session
    <2>2. CASE \E cooled \in BOOLEAN : FeedBack(cooled)
      <3>1. PICK cooled \in BOOLEAN :
                session' = [session EXCEPT !.stale = FALSE, !.tripped = ~cooled /\ @]
        BY <2>2 DEF FeedBack
      <3>2. (~cooled /\ session.tripped) \in BOOLEAN
        OBVIOUS
      <3> QED BY <1>1, <3>1, <3>2 DEF Session
    <2> QED BY <2>1, <2>2
  <1>3. /\ up' = up /\ answers' = answers /\ fate' = fate /\ blocks' = blocks
        /\ reports' = reports
    BY DEF FeedStale, FeedBack
  <1>4. OrphanBlocksStartup'
    BY <1>1, <1>3 DEF OrphanBlocksStartup
  <1> QED BY <1>1, <1>2, <1>3, <1>4, AsideKeeps

-----------------------------------------------------------------------------
(***************************************************************************)
(* Steps of an order.                                                      *)
(***************************************************************************)

\* What every step of an order of the session under way leaves alone.
OrderStep == up /\ up' = up /\ blocks' = blocks /\ reports' = reports

\* Then what is left to show is that the orders are accounted for.
LEMMA OrderKeeps ==
    ASSUME IInv, OrderStep, session' \in Session, answers' \subseteq {"decision", "exit"},
           fate' \in [Entries -> Fates],
           AcksShort', FillsSettled', FailuresCounted', ExitAwaited', OneAtHandler'
    PROVE  IInv'
  <1>1. TypeOK'
    BY DEF IInv, TypeOK, OrderStep
  <1>2. NothingLeft' /\ OrphanBlocksStartup' /\ ReportsSound'
    BY DEF IInv, SessionInv, OrderStep, NothingLeft, OrphanBlocksStartup, ReportsSound
  <1> QED BY <1>1, <1>2 DEF IInv, SessionInv

\* The handler turns to an entry only when it is at no other.
LEMMA HandlerMoves ==
    ASSUME IInv, NEW e \in Entries, NEW to \in Fates, fate' = [fate EXCEPT ![e] = to],
           to \notin AtHandler \/ fate[e] \in AtHandler \/ HandlerFree
    PROVE  OneAtHandler'
  <1>1. \A f \in Entries : fate'[f] = IF f = e THEN to ELSE fate[f]
    BY Moved DEF IInv
  <1>2. \A f, g \in Entries : fate[f] \in AtHandler /\ fate[g] \in AtHandler => f = g
    BY DEF IInv, SessionInv, OneAtHandler
  <1>3. CASE to \notin AtHandler \/ fate[e] \in AtHandler
    <2>1. \A f \in Entries : fate'[f] \in AtHandler => fate[f] \in AtHandler
      BY <1>1, <1>3
    <2> QED BY <1>2, <2>1 DEF OneAtHandler
  <1>4. CASE HandlerFree
    <2>1. \A f \in Entries : fate'[f] \in AtHandler => f = e
      BY <1>1, <1>4 DEF HandlerFree, AtHandler
    <2> QED BY <2>1 DEF OneAtHandler
  <1> QED BY <1>3, <1>4

\* The one entry whose fate is of the handler.
LEMMA HandlerAlone ==
    ASSUME IInv, NEW e \in Entries, NEW S, S \subseteq AtHandler, fate[e] \in S
    PROVE  \A f \in Entries : fate[f] \in S => f = e
  BY DEF IInv, SessionInv, OneAtHandler

\* The entry is registered.
LEMMA RegisteredKeeps == ASSUME IInv, NEW e \in Entries, EntryRegistered(e) PROVE IInv'
  <1> DEFINE names == Allowed \union {"candidates", "intents"}
  <1>1. /\ TypeOK /\ OrderStep /\ answers' = answers /\ Count(names)
        /\ fate[e] = "unused" /\ fate' = [fate EXCEPT ![e] = "registered"]
    BY DEF IInv, EntryRegistered, OrderStep
  <1>2. "registered" \in Fates
    BY DEF Fates
  <1>3. /\ session' \in Session
        /\ session'.count.submissions = session.count.submissions
        /\ session'.count.acks = session.count.acks
        /\ session'.count.entry_fill = session.count.entry_fill
        /\ session'.count.pe_submitted = session.count.pe_submitted
        /\ session'.count.pe_failed = session.count.pe_failed
        /\ session'.count.pe_skipped = session.count.pe_skipped
    <2>1. names \intersect Key = {}
      BY DEF Allowed, Key
    <2>2. session' = Counting(session, names) /\ session \in Session
      BY <1>1 DEF Count, TypeOK
    <2>3. session' \in Session /\ \A c \in Key : session'.count[c] = session.count[c]
      BY <2>1, <2>2, OtherCounters
    <2> QED BY <2>3 DEF Key
  <1>4. /\ (Some({"refused"})' <=> Some({"refused"})) /\ (Some({"filled"})' <=> Some({"filled"}))
        /\ (Some({"failed"})' <=> Some({"failed"}))
        /\ (Some({"exit_placed"})' <=> Some({"exit_placed"}))
    <2>1. \A S : "registered" \notin S /\ "unused" \notin S => (Some(S)' <=> Some(S))
      BY <1>1, <1>2, SomeMoved
    <2> QED BY <2>1
  <1>5. AcksShort' /\ FillsSettled' /\ FailuresCounted' /\ ExitAwaited'
    BY <1>1, <1>3, <1>4
       DEF IInv, SessionInv, AcksShort, FillsSettled, FailuresCounted, ExitAwaited, One
  <1>6. OneAtHandler'
    BY <1>1, <1>2, HandlerMoves DEF AtHandler
  <1> QED BY <1>1, <1>2, <1>3, <1>5, <1>6, OrderKeeps, Moved DEF TypeOK

\* It is on its way to the exchange.
LEMMA PlacedKeeps == ASSUME IInv, NEW e \in Entries, EntryPlaced(e) PROVE IInv'
  <1>1. /\ TypeOK /\ OrderStep /\ answers' = answers \union {"decision"}
        /\ Count({"submissions"})
        /\ fate[e] = "registered" /\ fate' = [fate EXCEPT ![e] = "placed"]
    BY DEF IInv, EntryPlaced, OrderStep
  <1>2. "placed" \in Fates
    BY DEF Fates
  <1>3. session' \in Session /\ KeysNat /\ KeysCount({"submissions"})
    BY <1>1, CountFacts
  <1>4. /\ (Some({"refused"})' <=> Some({"refused"})) /\ (Some({"filled"})' <=> Some({"filled"}))
        /\ (Some({"failed"})' <=> Some({"failed"}))
        /\ (Some({"exit_placed"})' <=> Some({"exit_placed"}))
    <2>1. \A S : "placed" \notin S /\ "registered" \notin S => (Some(S)' <=> Some(S))
      BY <1>1, <1>2, SomeMoved
    <2> QED BY <2>1
  <1>5. AcksShort'
    BY <1>1, <1>3, <1>4 DEF IInv, SessionInv, AcksShort, KeysNat, KeysCount, One
  <1>6. FillsSettled' /\ FailuresCounted' /\ ExitAwaited'
    BY <1>1, <1>3, <1>4
       DEF IInv, SessionInv, FillsSettled, FailuresCounted, ExitAwaited, KeysNat,
           KeysCount, One
  <1>7. OneAtHandler'
    BY <1>1, <1>2, HandlerMoves DEF AtHandler
  <1>8. answers' \subseteq {"decision", "exit"}
    BY <1>1 DEF TypeOK
  <1> QED BY <1>1, <1>2, <1>3, <1>5, <1>6, <1>7, <1>8, OrderKeeps, Moved

\* Its submission is answered, refused or its answer is lost.
LEMMA AnsweredKeeps ==
    ASSUME IInv, NEW answer \in Answers, EntryAnswered(answer) PROVE IInv'
  <1> DEFINE names == When(answer = "acked", "acks")
  <1>1. /\ TypeOK /\ OrderStep /\ "decision" \in answers /\ answers' = answers \ {"decision"}
        /\ Count(names)
        /\ fate' = IF answer # "refused" THEN fate
                   ELSE [e \in Entries |-> IF fate[e] = "placed" THEN "refused" ELSE fate[e]]
    BY DEF IInv, EntryAnswered, OrderStep
  <1>2. fate' \in [Entries -> Fates] /\ \A e \in Entries :
            fate'[e] = IF answer = "refused" /\ fate[e] = "placed" THEN "refused" ELSE fate[e]
    BY <1>1 DEF TypeOK, Fates
  <1>3. session' \in Session /\ KeysNat /\ KeysCount(names)
    BY <1>1, CountFacts
  <1>4. One("acks" \in names) = One(answer = "acked") /\ names \subseteq {"acks"}
    BY DEF When, One
  <1>5. /\ (Some({"filled"})' <=> Some({"filled"})) /\ (Some({"failed"})' <=> Some({"failed"}))
        /\ (Some({"exit_placed"})' <=> Some({"exit_placed"}))
        /\ answer # "refused" => (Some({"refused"})' <=> Some({"refused"}))
    BY <1>2 DEF Some
  <1>6. AcksShort'
    BY <1>1, <1>3, <1>4, <1>5
       DEF IInv, SessionInv, AcksShort, KeysNat, KeysCount, One
  <1>7. FillsSettled' /\ FailuresCounted'
    BY <1>3, <1>4, <1>5
       DEF IInv, SessionInv, FillsSettled, FailuresCounted, KeysNat, KeysCount, One
  <1>8. ExitAwaited' /\ answers' \subseteq {"decision", "exit"}
    BY <1>1, <1>5 DEF IInv, SessionInv, ExitAwaited, TypeOK
  <1>9. OneAtHandler'
    <2>1. \A e \in Entries : fate'[e] \in AtHandler => fate[e] \in AtHandler
      BY <1>2 DEF AtHandler
    <2> QED BY <2>1 DEF IInv, SessionInv, OneAtHandler
  <1> QED BY <1>1, <1>2, <1>3, <1>6, <1>7, <1>8, <1>9, OrderKeeps

\* Its fill is counted.
LEMMA FilledKeeps == ASSUME IInv, NEW e \in Entries, EntryFilled(e) PROVE IInv'
  <1>1. /\ TypeOK /\ OrderStep /\ HandlerFree /\ answers' = answers
        /\ Count({"filled", "entry_fill"})
        /\ fate[e] = "placed" /\ fate' = [fate EXCEPT ![e] = "filled"]
    BY DEF IInv, EntryFilled, HandlerStep, OrderStep
  <1>2. "filled" \in Fates
    BY DEF Fates
  <1>3. session' \in Session /\ KeysNat /\ KeysCount({"filled", "entry_fill"})
    BY <1>1, CountFacts
  <1>4. /\ (Some({"refused"})' <=> Some({"refused"})) /\ (Some({"failed"})' <=> Some({"failed"}))
        /\ (Some({"exit_placed"})' <=> Some({"exit_placed"}))
        /\ Some({"filled"})' /\ ~Some({"filled"})
    <2>1. /\ \A S : "filled" \notin S /\ "placed" \notin S => (Some(S)' <=> Some(S))
          /\ \A S : "filled" \in S => Some(S)'
      BY <1>1, <1>2, SomeMoved
    <2>2. ~Some({"filled"})
      BY <1>1 DEF Some, HandlerFree
    <2> QED BY <2>1, <2>2
  <1>5. AcksShort'
    BY <1>1, <1>3, <1>4 DEF IInv, SessionInv, AcksShort, KeysNat, KeysCount, One
  <1>6. FillsSettled' /\ FailuresCounted' /\ ExitAwaited'
    BY <1>1, <1>3, <1>4
       DEF IInv, SessionInv, FillsSettled, FailuresCounted, ExitAwaited, KeysNat,
           KeysCount, One
  <1>7. OneAtHandler'
    BY <1>1, <1>2, HandlerMoves
  <1>8. answers' \subseteq {"decision", "exit"}
    BY <1>1 DEF TypeOK
  <1> QED BY <1>1, <1>2, <1>3, <1>5, <1>6, <1>7, <1>8, OrderKeeps, Moved

\* What becomes of a fill: each way it goes on is counted by a counter of its own.
LEMMA SettledKeeps ==
    ASSUME IInv, NEW e \in Entries, ExitSkipped(e) \/ ExitNotBuilt(e) \/ ExitCounted(e)
    PROVE  IInv'
  <1>1. PICK to \in {"skipped", "failed", "counted"}, name \in Key :
            /\ HandlerStep(e, "filled", to, {name}) /\ answers' = answers
            /\ name \in {"pe_skipped", "pe_failed", "pe_submitted"}
            /\ to = "failed" => name = "pe_failed"
    BY DEF ExitSkipped, ExitNotBuilt, ExitCounted, Key
  <1>2. /\ TypeOK /\ OrderStep /\ answers' = answers /\ Count({name})
        /\ fate[e] = "filled" /\ fate' = [fate EXCEPT ![e] = to]
    BY <1>1 DEF IInv, HandlerStep, OrderStep
  <1>3. to \in Fates
    BY DEF Fates
  <1>4. session' \in Session /\ KeysNat /\ KeysCount({name})
    BY <1>2, CountFacts
  <1>5. /\ (Some({"refused"})' <=> Some({"refused"}))
        /\ (Some({"exit_placed"})' <=> Some({"exit_placed"}))
        /\ to # "failed" => (Some({"failed"})' <=> Some({"failed"}))
        /\ ~Some({"filled"})' /\ Some({"filled"})
    <2>1. \A S : to \notin S /\ "filled" \notin S => (Some(S)' <=> Some(S))
      BY <1>2, <1>3, SomeMoved
    <2>2. \A f \in Entries : fate[f] \in {"filled"} => f = e
      BY <1>2, HandlerAlone DEF AtHandler
    <2>3. ~Some({"filled"})' /\ Some({"filled"})
      BY <1>2, <1>3, <2>2, SomeMoved
    <2> QED BY <2>1, <2>3
  <1>6. AcksShort'
    BY <1>1, <1>2, <1>4, <1>5 DEF IInv, SessionInv, AcksShort, KeysNat, KeysCount, One
  <1>7. FillsSettled'
    BY <1>1, <1>4, <1>5 DEF IInv, SessionInv, FillsSettled, KeysNat, KeysCount, One
  <1>8. FailuresCounted' /\ ExitAwaited'
    BY <1>1, <1>4, <1>5
       DEF IInv, SessionInv, FailuresCounted, ExitAwaited, KeysNat, KeysCount, One
  <1>9. OneAtHandler'
    BY <1>2, <1>3, HandlerMoves DEF AtHandler
  <1>10. answers' \subseteq {"decision", "exit"}
    BY <1>2 DEF TypeOK
  <1> QED BY <1>2, <1>3, <1>4, <1>6, <1>7, <1>8, <1>9, <1>10, OrderKeeps, Moved

\* The exit is on its way to the exchange.
LEMMA ExitPlacedKeeps == ASSUME IInv, NEW e \in Entries, ExitPlaced(e) PROVE IInv'
  <1>1. /\ TypeOK /\ OrderStep /\ answers' = answers \union {"exit"}
        /\ Count({"submissions"})
        /\ fate[e] = "counted" /\ fate' = [fate EXCEPT ![e] = "exit_placed"]
    BY DEF IInv, ExitPlaced, HandlerStep, OrderStep
  <1>2. "exit_placed" \in Fates
    BY DEF Fates
  <1>3. session' \in Session /\ KeysNat /\ KeysCount({"submissions"})
    BY <1>1, CountFacts
  <1>4. /\ (Some({"refused"})' <=> Some({"refused"})) /\ (Some({"failed"})' <=> Some({"failed"}))
        /\ (Some({"filled"})' <=> Some({"filled"}))
    <2>1. \A S : "exit_placed" \notin S /\ "counted" \notin S => (Some(S)' <=> Some(S))
      BY <1>1, <1>2, SomeMoved
    <2> QED BY <2>1
  <1>5. AcksShort'
    BY <1>1, <1>3, <1>4 DEF IInv, SessionInv, AcksShort, KeysNat, KeysCount, One
  <1>6. FillsSettled' /\ FailuresCounted'
    BY <1>3, <1>4
       DEF IInv, SessionInv, FillsSettled, FailuresCounted, KeysNat, KeysCount, One
  <1>7. ExitAwaited' /\ answers' \subseteq {"decision", "exit"}
    BY <1>1 DEF ExitAwaited, TypeOK
  <1>8. OneAtHandler'
    BY <1>1, <1>2, HandlerMoves DEF AtHandler
  <1> QED BY <1>1, <1>2, <1>3, <1>5, <1>6, <1>7, <1>8, OrderKeeps, Moved

\* Its submission is answered, refused or its answer is lost.
LEMMA ExitAnsweredKeeps ==
    ASSUME IInv, NEW e \in Entries, NEW answer \in Answers, ExitAnswered(e, answer)
    PROVE  IInv'
  <1>1. PICK known \in BOOLEAN :
            HandlerStep(e, "exit_placed", IF answer = "refused" THEN "refused" ELSE "covered",
                        When(answer = "acked", "acks") \union When(known, "pe_ack"))
    BY DEF ExitAnswered
  <1> DEFINE to == IF answer = "refused" THEN "refused" ELSE "covered"
             names == When(answer = "acked", "acks") \union When(known, "pe_ack")
  <1>2. /\ TypeOK /\ OrderStep /\ answers' = answers \ {"exit"} /\ Count(names)
        /\ fate[e] = "exit_placed" /\ fate' = [fate EXCEPT ![e] = to]
    BY <1>1 DEF IInv, HandlerStep, OrderStep, ExitAnswered
  <1>3. to \in Fates
    BY DEF Fates
  <1>4. session' \in Session /\ KeysNat /\ KeysCount(names)
    BY <1>2, CountFacts
  <1>5. One("acks" \in names) = One(answer = "acked") /\ names \subseteq {"acks", "pe_ack"}
    BY DEF When, One
  <1>6. /\ (Some({"filled"})' <=> Some({"filled"})) /\ (Some({"failed"})' <=> Some({"failed"}))
        /\ answer # "refused" => (Some({"refused"})' <=> Some({"refused"}))
        /\ ~Some({"exit_placed"})' /\ Some({"exit_placed"})
    <2>1. \A S : to \notin S /\ "exit_placed" \notin S => (Some(S)' <=> Some(S))
      BY <1>2, <1>3, SomeMoved
    <2>2. \A f \in Entries : fate[f] \in {"exit_placed"} => f = e
      BY <1>2, HandlerAlone DEF AtHandler
    <2>3. ~Some({"exit_placed"})' /\ Some({"exit_placed"})
      BY <1>2, <1>3, <2>2, SomeMoved
    <2> QED BY <2>1, <2>3
  <1>7. AcksShort'
    BY <1>2, <1>4, <1>5, <1>6
       DEF IInv, SessionInv, AcksShort, ExitAwaited, KeysNat, KeysCount, One
  <1>8. FillsSettled' /\ FailuresCounted'
    BY <1>4, <1>5, <1>6
       DEF IInv, SessionInv, FillsSettled, FailuresCounted, KeysNat, KeysCount, One
  <1>9. ExitAwaited' /\ answers' \subseteq {"decision", "exit"}
    BY <1>2, <1>6 DEF ExitAwaited, TypeOK
  <1>10. OneAtHandler'
    BY <1>2, <1>3, HandlerMoves DEF AtHandler
  <1> QED BY <1>2, <1>3, <1>4, <1>7, <1>8, <1>9, <1>10, OrderKeeps, Moved

\* The exit is filled.
LEMMA ExitFilledKeeps == ASSUME IInv, NEW e \in Entries, ExitFilled(e) PROVE IInv'
  <1>1. /\ TypeOK /\ OrderStep /\ answers' = answers /\ Count({"filled"})
        /\ fate[e] = "covered" /\ fate' = [fate EXCEPT ![e] = "closed"]
    BY DEF IInv, ExitFilled, HandlerStep, OrderStep
  <1>2. "closed" \in Fates
    BY DEF Fates
  <1>3. session' \in Session /\ KeysNat /\ KeysCount({"filled"})
    BY <1>1, CountFacts
  <1>4. /\ (Some({"refused"})' <=> Some({"refused"})) /\ (Some({"filled"})' <=> Some({"filled"}))
        /\ (Some({"failed"})' <=> Some({"failed"}))
        /\ (Some({"exit_placed"})' <=> Some({"exit_placed"}))
    <2>1. \A S : "closed" \notin S /\ "covered" \notin S => (Some(S)' <=> Some(S))
      BY <1>1, <1>2, SomeMoved
    <2> QED BY <2>1
  <1>5. AcksShort'
    BY <1>1, <1>3, <1>4 DEF IInv, SessionInv, AcksShort, KeysNat, KeysCount, One
  <1>6. FillsSettled' /\ FailuresCounted' /\ ExitAwaited'
    BY <1>1, <1>3, <1>4
       DEF IInv, SessionInv, FillsSettled, FailuresCounted, ExitAwaited, KeysNat,
           KeysCount, One
  <1>7. OneAtHandler'
    BY <1>1, <1>2, HandlerMoves DEF AtHandler
  <1>8. answers' \subseteq {"decision", "exit"}
    BY <1>1 DEF TypeOK
  <1> QED BY <1>1, <1>2, <1>3, <1>5, <1>6, <1>7, <1>8, OrderKeeps, Moved

-----------------------------------------------------------------------------
(***************************************************************************)
(* The invariant holds throughout.                                         *)
(***************************************************************************)
LEMMA InitInv == Init => IInv
  <1> SUFFICES ASSUME Init PROVE IInv
    OBVIOUS
  <1>1. /\ session = Fresh("demo") /\ up = FALSE /\ answers = {} /\ blocks = NoBlocks
        /\ fate = [e \in Entries |-> "unused"] /\ reports = <<>>
    BY DEF Init
  <1>2. session \in Session /\ \A c \in Counters : session.count[c] = 0
    BY <1>1, FreshFacts
  <1>3. fate \in [Entries -> Fates] /\ \A e \in Entries : fate[e] = "unused"
    BY <1>1 DEF Fates
  <1>4. blocks \in BlockState /\ OrphanBlocksStartup
    BY <1>1, MaxMismatchesAssumption DEF NoBlocks, BlockState, OrphanBlocksStartup
  <1>5. reports \in Seq(Reported) /\ ReportsSound
    BY <1>1 DEF ReportsSound
  <1>6. TypeOK
    BY <1>1, <1>2, <1>3, <1>4, <1>5 DEF TypeOK
  <1>7. /\ session.count.submissions = 0 /\ session.count.acks = 0
        /\ session.count.entry_fill = 0 /\ session.count.pe_submitted = 0
        /\ session.count.pe_failed = 0 /\ session.count.pe_skipped = 0
    BY <1>2, KeyCounters DEF Key
  <1>8. \A S : "unused" \notin S => ~Some(S)
    BY <1>3 DEF Some
  <1>9. /\ ~Some({"refused"}) /\ ~Some({"filled"}) /\ ~Some({"failed"})
        /\ ~Some({"exit_placed"})
    BY <1>8
  <1>10. AcksShort /\ FillsSettled
    BY <1>1, <1>7, <1>9 DEF AcksShort, FillsSettled, One
  <1>11. FailuresCounted /\ OneAtHandler /\ ExitAwaited /\ NothingLeft
    BY <1>1, <1>3, <1>9
       DEF FailuresCounted, OneAtHandler, AtHandler, ExitAwaited, NothingLeft
  <1> QED BY <1>4, <1>5, <1>6, <1>10, <1>11 DEF IInv, SessionInv

\* Every step keeps the invariant.
LEMMA StepInv == IInv /\ [Next]_vars => IInv'
  <1> SUFFICES ASSUME IInv, [Next]_vars PROVE IInv'
    OBVIOUS
  <1>1. CASE SessionStep
    BY <1>1, StartKeeps, EndsKeeps, TaskFailsKeeps, NoReportKeeps DEF SessionStep
  <1>2. CASE DecisionStep
    BY <1>2, DroppedKeeps, RegisteredKeeps, PlacedKeeps, AnsweredKeeps DEF DecisionStep
  <1>3. CASE ExitStep
    BY <1>3, FilledKeeps, SettledKeeps, ExitPlacedKeeps, ExitAnsweredKeeps, ExitFilledKeeps
       DEF ExitStep
  <1>4. CASE WatchStep
    BY <1>4, ReconcileKeeps, FeedKeeps DEF WatchStep
  <1>5. CASE UNCHANGED vars
    <2>1. /\ up' = up /\ answers' = answers /\ fate' = fate /\ reports' = reports
          /\ session' = session /\ blocks' = blocks
      BY <1>5 DEF vars
    <2>2. session' \in Session /\ blocks' \in BlockState /\ OrphanBlocksStartup'
      BY <2>1 DEF IInv, TypeOK, SessionInv, OrphanBlocksStartup
    <2> QED BY <2>1, <2>2, AsideKeeps
  <1> QED BY <1>1, <1>2, <1>3, <1>4, <1>5 DEF Next

\* The inductive invariant holds of every reachable state.
THEOREM Invariance == Spec => []IInv
  <1> QED BY InitInv, StepInv, PTL DEF Spec

-----------------------------------------------------------------------------
(***************************************************************************)
(* The properties.                                                         *)
(***************************************************************************)

\* A report that does not fail accounts for every order of its session: none was
\* refused or still awaits its answer, and every fill seen has been settled,
\* whatever the number of orders and of sessions and wherever a session ends.
THEOREM PassAccounts == Spec => []PassAccountsForFills
  <1>1. IInv => PassAccountsForFills
    BY DEF IInv, ReportsSound, SoundReport, PassAccountsForFills
  <1> QED BY <1>1, Invariance, PTL

\* No verdict of READY_FOR_PAPER over a session that ended blocked, whatever
\* the thresholds of the promotion.
THEOREM ReadyUnblocked == Spec => []ReadyEndsUnblocked
  <1>1. IInv => ReadyEndsUnblocked
    <2> SUFFICES ASSUME IInv, NEW i \in DOMAIN reports,
                        reports[i].blocks.startup \/ reports[i].blocks.orphan
                 PROVE  PromotionVerdict(reports) # "READY_FOR_PAPER"
      BY DEF ReadyEndsUnblocked
    <2>1. reports[i].uncleared
      BY DEF IInv, ReportsSound, SoundReport
    <2>2. Attribution(reports).startup_not_clear # {}
      BY <2>1 DEF Attribution
    <2>3. "unresolved_startup_state" \in NotReadyReasons(reports)
      BY <2>2 DEF NotReadyReasons, When
    <2> QED BY <2>3 DEF PromotionVerdict
  <1> QED BY <1>1, Invariance, PTL

\* The report of a session the promotion blames is a FAIL.
THEOREM BlamedFailed == Spec => []BlamedSessionsFailed
  <1>1. IInv => BlamedSessionsFailed
    <2> SUFFICES ASSUME IInv,
                        NEW i \in Attribution(reports).exit_missing
                                  \union Attribution(reports).session_aborted
                                  \union Attribution(reports).reconcile_abort
                 PROVE  i \in Attribution(reports).any_fail
      BY DEF BlamedSessionsFailed
    <2>1. i \in DOMAIN reports /\ (ExitMissing(reports[i]) \/ AbortBlamed(reports[i])
                                       \/ RepeatedMismatch(reports[i]))
      BY DEF Attribution
    <2>2. reports[i].verdict = "FAIL"
      BY <2>1 DEF IInv, ReportsSound, SoundReport
    <2> QED BY <2>1, <2>2 DEF Attribution, Failed
  <1> QED BY <1>1, Invariance, PTL

=============================================================================
