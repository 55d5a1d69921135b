---------------------------- MODULE NorgateTrial ----------------------------
(***************************************************************************)
(* The Norgate trial (docs/audit/NORGATE_PLATINUM_TRIAL.md): four scripts, *)
(* run by hand in any order and any number of times, that leave files      *)
(* behind, and the verdict the last of them draws from the files.  A       *)
(* script finds out whether the updater (NDU) runs and then asks one       *)
(* lookup after another.  Between any two of its steps NDU comes and goes  *)
(* and the vendor lists symbols anew, NDU also goes in the midst of a      *)
(* lookup, and a script may die between two steps.                         *)
(***************************************************************************)
EXTENDS NorgateStaging

CONSTANTS
    Vendors,        \* states of the vendor, by number
    Plans,          \* what a trial is: the scripts that are run, and the states of the
                    \* vendor, the Security Master seed and the membership source they meet
    NoSource,       \* an unreadable membership source
    JoinDates,      \* days of the join snapshots
    Predecessor,    \* WWE
    Successor,      \* TKO
    MaxChanges      \* bound on what happens around the scripts

ASSUME AssetsAssumption == Assets \subseteq Nat \ {NoAsset} /\ NoAsset = 0

\* The symbol the vendor gives of an asset is listed, and for that asset.
ASSUME ListingAssumption ==
    \A n \in DOMAIN Vendors : LET v == Vendors[n] IN
        \A s \in Symbols :
            v.listing[s] # NoAsset => v.listing[v.asset[v.listing[s]].symbol] = v.listing[s]

ASSUME PlansAssumption == \A p \in Plans : p.vendors \subseteq DOMAIN Vendors

ASSUME NoVendorAssumption == NoVendor \notin DOMAIN Vendors

VARIABLES
    plan,       \* the plan of this trial, fixed
    up,         \* is NDU running
    vendor, master, members,
    proof,      \* package_proof.json: its verdict, or "absent"
    frozen,     \* frozen_sample.csv
    pairs,      \* ticker_change_assetid_match of frozen_sample.json
    map,        \* mapping/occupancy.csv
    files,      \* bars/totalreturn and bars/unadjusted, by asset id
    baseline,   \* vendor_coverage_probe.json of the baseline probe
    verdict,    \* verdict.json
    job,        \* what the running script has still to write
    live,       \* ghost: scripts that started with NDU running, and no later full run without
    changes     \* how often something happened around the scripts

inputs == <<plan, vendor, master, members>>
world == <<up, changes, inputs>>
artifacts == <<proof, frozen, pairs, map, files, baseline, verdict>>
vars == <<world, artifacts, job, live>>

Told == Vendors[vendor]

Idle == [script |-> "none"]
NoFile == [NoBars EXCEPT !.of = 0 - 1]
NoVerdict == [value |-> "absent", ready |-> FALSE, failed |-> {}]

-----------------------------------------------------------------------------
(***************************************************************************)
(* The gates (app/norgate_trial/validation.py).                            *)
(***************************************************************************)
GateF1 == IF frozen = <<>> THEN "NOT_TESTABLE"
          ELSE IF \E i \in DOMAIN frozen : frozen[i].identity = "FAIL" THEN "FAIL"
          ELSE "PASS"

GateF2 == LET seen == {frozen[i].coverage : i \in DOMAIN frozen}
          IN IF "FAIL" \in seen THEN "FAIL"
             ELSE IF "PASS" \in seen THEN "PASS" ELSE "NOT_TESTABLE"

\* Where the JSON tells no pairs, the rows do.
TickerChange == IF pairs # <<>> THEN pairs
                ELSE IF frozen # <<>> THEN ComparePairs(frozen) ELSE <<>>

GateF3 == LET seen == {TickerChange[pair] : pair \in DOMAIN TickerChange}
          IN IF seen = {} THEN "NOT_TESTABLE"
             ELSE IF "FAIL" \in seen THEN "FAIL"
             ELSE IF seen = {"PASS"} THEN "PASS" ELSE "PARTIAL"

\* The notes of the two rows never tell of a surviving entity.
FirstRow(ticker) ==
    LET is == {i \in DOMAIN frozen : frozen[i].ticker = ticker}
    IN frozen[CHOOSE i \in is : \A j \in is : i <= j]

GateF4 ==
    IF frozen = <<>> THEN "NOT_TESTABLE"
    ELSE LET new == Or(FirstRow(Successor).asset, FirstRow(Successor).current)
             old == Or(FirstRow(Predecessor).asset, FirstRow(Predecessor).delisted)
         IN IF new = NoAsset /\ old = NoAsset THEN "NOT_TESTABLE"
            ELSE IF new = NoAsset \/ old = NoAsset THEN "PARTIAL"
            ELSE IF new = old THEN "FAIL" ELSE "PASS"

Contaminated == {i \in DOMAIN map : CurrentTickerContamination(map[i], master)}

GateU1(expected) ==
    LET tickers == WindowTickers({map[i].occ : i \in DOMAIN map})
    IN IF map = <<>> THEN "NOT_TESTABLE"
       ELSE IF Contaminated # {} \/ Cardinality(tickers) < expected THEN "FAIL"
       ELSE "PASS"

\* Rows without a series are counted, not failed.
ShortSeries(row) ==
    LET days == files["totalreturn"][row.asset].days
    IN days # {} /\ (InteriorGap(days) \/ ~ SeriesCoversOccupancy(days, row))

GateU2 ==
    IF map = <<>> THEN "NOT_TESTABLE"
    ELSE IF \E i \in DOMAIN map : /\ OverlapsEvalWindow(map[i].occ)
                                  /\ Mapped(map[i])
                                  /\ ShortSeries(map[i])
         THEN "FAIL" ELSE "PASS"

RowsFor(ticker, day) ==
    {i \in DOMAIN map : map[i].occ.ticker = ticker /\ HoldsOn(map[i].occ, day)}

JoinProblem(day) ==
    LET present == {m \in members : HoldsOn(m, day)}
    IN \/ present = {}
       \/ \E m \in present :
             LET rows == RowsFor(m.ticker, day)
             IN \/ rows = {}
                \/ (CHOOSE i \in rows : \A j \in rows : i <= j) \in Contaminated

GateJ1 ==
    IF map = <<>> \/ members \in {NoSource, {}} THEN "NOT_TESTABLE"
    ELSE IF \E day \in JoinDates : JoinProblem(day) THEN "FAIL" ELSE "PASS"

\* The cross-check is skipped, or the index series cannot be asked for.
GateM1(skip) == IF skip \/ ~ up THEN "NOT_TESTABLE" ELSE "PASS"

OnDisk(dir) == {a \in Assets : files[dir][a] # NoFile}

SampleAsset == CHOOSE a \in OnDisk("totalreturn") :
                   \A b \in OnDisk("totalreturn") : a <= b

GateA1 ==
    IF OnDisk("totalreturn") = {} THEN "FAIL"
    ELSE IF \/ files["totalreturn"][SampleAsset].days = {}
            \/ files["unadjusted"][SampleAsset].days = {}
            \/ files["totalreturn"][SampleAsset].bad # {} THEN "FAIL"
    ELSE "PASS"

GateA2 ==
    IF OnDisk("totalreturn") = {} THEN "NOT_TESTABLE"
    ELSE LET shared == files["totalreturn"][SampleAsset].days
                         \cap files["unadjusted"][SampleAsset].days
         IN IF shared = {} THEN "NOT_TESTABLE"
            ELSE IF shared \cap files["totalreturn"][SampleAsset].adjusted # {} THEN "PASS"
            ELSE "PARTIAL"

GateQ1 ==
    IF \E a \in OnDisk("totalreturn") : files["totalreturn"][a].bad # {} THEN "FAIL"
    ELSE "PASS"

Gates(expected, skip) ==
    [P0 |-> IF proof = "absent" THEN "NOT_TESTABLE" ELSE proof,
     F1 |-> GateF1, F2 |-> GateF2, F3 |-> GateF3, F4 |-> GateF4,
     U1 |-> GateU1(expected), U2 |-> GateU2, J1 |-> GateJ1, M1 |-> GateM1(skip),
     A1 |-> GateA1, A2 |-> GateA2, I1 |-> "PASS", Q1 |-> GateQ1]

(***************************************************************************)
(* build_verdict.  The residuals the script states are always allowed.     *)
(***************************************************************************)
MustPass == {"P0", "F1", "F2", "U1", "U2", "J1", "A1", "I1"}

Ready(gates) ==
    /\ \A g \in MustPass : gates[g] = "PASS"
    /\ gates.F3 \in {"PASS", "PARTIAL"}
    /\ gates.F4 \in {"PASS", "PARTIAL", "NOT_TESTABLE"}
    /\ gates.M1 \in {"PASS", "PARTIAL", "NOT_TESTABLE"}

BuildVerdict(gates) ==
    LET failed == {g \in DOMAIN gates : gates[g] = "FAIL"}
        value == IF "NOT_TESTABLE" \in {gates.P0, gates.F1} THEN "NOT_TESTABLE"
                 ELSE IF failed \cap {"F1", "F3", "U1", "J1", "I1", "P0", "F2", "U2", "A1"} # {}
                      THEN "NOT SUITABLE"
                 ELSE IF \A g \in DOMAIN gates : gates[g] = "PASS" THEN "SUITABLE"
                 ELSE "PARTIALLY SUITABLE"
    IN [value |-> value,
        ready |-> value = "SUITABLE" \/ (value = "PARTIALLY SUITABLE" /\ Ready(gates)),
        failed |-> failed]

-----------------------------------------------------------------------------
Init ==
    /\ plan \in Plans
    /\ up \in BOOLEAN
    /\ vendor \in plan.vendors /\ master \in plan.masters /\ members \in plan.sources
    /\ proof = "absent" /\ frozen = <<>> /\ pairs = <<>> /\ map = <<>>
    /\ files = [dir \in {"totalreturn", "unadjusted"} |-> [a \in Assets |-> NoFile]]
    /\ baseline = [verdict |-> "absent", rows |-> <<>>]
    /\ verdict = NoVerdict
    /\ job = Idle /\ live = {} /\ changes = 0

(***************************************************************************)
(* Around the scripts.                                                     *)
(***************************************************************************)
Change ==
    /\ changes < MaxChanges /\ changes' = changes + 1
    /\ UNCHANGED <<artifacts, live>>

SwitchNdu == Change /\ up' = ~ up /\ UNCHANGED <<inputs, job>>

\* A symbol may come to mean another asset while a script still stages.
UpdateVendor ==
    /\ Change /\ vendor' \in plan.vendors \ {vendor}
    /\ job' = IF job.script \in {"map", "stage"} THEN [job EXCEPT !.torn = TRUE] ELSE job
    /\ UNCHANGED <<up, plan, master, members>>

EditSeed ==
    Change /\ master' \in plan.masters \ {master} /\ UNCHANGED <<up, plan, vendor, members, job>>

ReplaceSource ==
    Change /\ members' \in plan.sources \ {members} /\ UNCHANGED <<up, plan, vendor, master, job>>

Crash == Change /\ job # Idle /\ job' = Idle /\ UNCHANGED <<up, inputs>>

(***************************************************************************)
(* Asking.  What a step hears is one of a set of outcomes; where NDU is    *)
(* lost on the way, the step is told nothing of it but that the calls left *)
(* raise, which they do from then on.                                      *)
(***************************************************************************)
MayLose == up /\ changes < MaxChanges

Lose(lost) ==
    /\ up' = (up /\ ~ lost)
    /\ changes' = IF lost THEN changes + 1 ELSE changes

\* norgate_status of a running NDU and, for some scripts, the delisted symbols
Opening(loads) ==
    {[databases |-> Told.databases, known |-> IF loads THEN DelistedSymbols(Told) ELSE {},
      lost |-> FALSE]}
    \cup {[databases |-> d, known |-> {}, lost |-> TRUE] :
              d \in IF MayLose THEN {{}, Told.databases} ELSE {}}

Answers(symbol) ==
    LET hit == Lookup(Told, up, symbol)
    IN {[hit |-> hit, lost |-> FALSE]}
       \cup {[hit |-> CutShort(symbol, hit, n), lost |-> TRUE] :
                 n \in IF MayLose /\ Found(hit) THEN 1 .. 4 ELSE {}}

Asking(script, told) ==
    [script |-> script, databases |-> told.databases, known |-> told.known,
     rows |-> <<>>, heard |-> <<>>, of |-> NoVendor]

\* Ghost: the one vendor that answered all that is behind the row so far
AnsweredBy(lost) ==
    IF /\ up /\ ~ lost /\ job.databases = Told.databases
       /\ job.heard = <<>> \/ job.of = vendor
    THEN vendor ELSE NoVendor

Starts(script) == job = Idle /\ script \in plan.scripts

(***************************************************************************)
(* norgate_platinum_package_proof.py                                       *)
(***************************************************************************)
ProvePackage ==
    /\ Starts("proof")
    /\ IF up THEN /\ \E told \in Opening(FALSE) : job' = Asking("proof", told) /\ Lose(told.lost)
                  /\ UNCHANGED <<proof, live>>
       ELSE /\ proof' = "NOT_TESTABLE" /\ live' = live \ {"proof"}
            /\ UNCHANGED <<up, changes, job>>
    /\ UNCHANGED <<inputs, frozen, pairs, map, files, baseline, verdict>>

AskControl ==
    /\ job.script = "proof" /\ Len(job.heard) < Len(Controls)
    /\ \E told \in Answers(Controls[Len(job.heard) + 1]) :
          job' = [job EXCEPT !.heard = Append(@, told.hit)] /\ Lose(told.lost)
    /\ UNCHANGED <<inputs, artifacts, live>>

WriteProof ==
    /\ job.script = "proof" /\ Len(job.heard) = Len(Controls)
    /\ proof' = PackageVerdict(job.databases, job.heard)
    /\ live' = live \cup {"proof"} /\ job' = Idle
    /\ UNCHANGED <<world, frozen, pairs, map, files, baseline, verdict>>

(***************************************************************************)
(* norgate_platinum_frozen_probe.py: the rows and then the pairs; where    *)
(* NDU is down, the emptied pairs and then the emptied rows.               *)
(***************************************************************************)
ProbeFrozen(requireProof) ==
    /\ Starts("probe")
    /\ requireProof => proof = "PASS"
    /\ IF up THEN /\ \E told \in Opening(TRUE) : job' = Asking("probe", told) /\ Lose(told.lost)
                  /\ pairs' = pairs
       ELSE pairs' = <<>> /\ job' = [script |-> "probe down"] /\ UNCHANGED <<up, changes>>
    /\ UNCHANGED <<inputs, proof, frozen, map, files, baseline, verdict, live>>

\* One lookup; the last of a row's classifies it.
Classified(sample, heard, of) ==
    IF job.script = "probe" THEN FrozenRow(sample, heard, of) ELSE LiveRow(sample, heard, of)

AskRow(asked, sample) ==
    \E told \in Answers(asked[Len(job.heard) + 1]) :
        /\ Lose(told.lost)
        /\ LET heard == Append(job.heard, told.hit)
               of == AnsweredBy(told.lost)
           IN job' = IF Len(heard) = Len(asked)
                     THEN [job EXCEPT !.rows = Append(@, Classified(sample, heard, of)),
                                      !.heard = <<>>, !.of = NoVendor]
                     ELSE [job EXCEPT !.heard = heard, !.of = of]

AskSample ==
    /\ job.script = "probe" /\ Len(job.rows) < Len(Samples)
    /\ LET sample == Samples[Len(job.rows) + 1]
       IN AskRow(SampleQuestions(sample, job.databases, job.known), sample)
    /\ UNCHANGED <<inputs, artifacts, live>>

WriteRows ==
    /\ job.script = "probe" /\ Len(job.rows) = Len(Samples)
    /\ frozen' = RecycleRules(job.rows) /\ live' = live \cup {"probe"}
    /\ job' = [script |-> "pairs", pairs |-> ComparePairs(job.rows)]
    /\ UNCHANGED <<world, proof, pairs, map, files, baseline, verdict>>

\* Mutation: the rows of an earlier run stay.
RowsKept == frozen

RowsWithoutNdu == <<>>

FinishProbe ==
    /\ \/ job.script = "pairs" /\ pairs' = job.pairs /\ UNCHANGED <<frozen, live>>
       \/ job.script = "probe down" /\ frozen' = RowsWithoutNdu /\ pairs' = pairs
          /\ live' = live \ {"probe"}
    /\ job' = Idle
    /\ UNCHANGED <<world, proof, map, files, baseline, verdict>>

(***************************************************************************)
(* norgate_platinum_stage.py: the source and the seed are read, the        *)
(* occupancies mapped one by one and the map written; then per asset the   *)
(* two series, asked for by symbol and filed under the asset id of the map.*)
(***************************************************************************)
Stage(skipBars) ==
    /\ Starts("stage") /\ up /\ members # NoSource
    /\ \E told \in Opening(TRUE) :
          /\ Lose(told.lost)
          /\ job' = [script |-> "map", known |-> told.known, occs |-> BuildOccupancies(members),
                     master |-> master, skip |-> skipBars, rows |-> <<>>, heard |-> <<>>,
                     torn |-> FALSE]
    /\ UNCHANGED <<inputs, artifacts, live>>

AskOccupancy ==
    /\ job.script = "map" /\ Len(job.rows) < Len(job.occs)
    /\ LET occ == job.occs[Len(job.rows) + 1]
       IN \E told \in Answers(StillToAsk(occ, job.master, job.known, job.heard)[1]) :
             /\ Lose(told.lost)
             /\ LET heard == Append(job.heard, told.hit)
                IN job' = IF StillToAsk(occ, job.master, job.known, heard) = <<>>
                          THEN [job EXCEPT !.rows = Append(@, MapOccupancy(occ, job.master, heard)),
                                           !.heard = <<>>]
                          ELSE [job EXCEPT !.heard = heard]
    /\ UNCHANGED <<inputs, artifacts, live>>

FirstsOf(rows) ==
    {i \in DOMAIN rows : /\ Mapped(rows[i])
                         /\ \A j \in DOMAIN rows : j < i => rows[j].asset # rows[i].asset}

WriteMap ==
    /\ job.script = "map" /\ Len(job.rows) = Len(job.occs)
    /\ map' = job.rows
    /\ job' = IF job.skip \/ FirstsOf(job.rows) = {} THEN Idle
              ELSE [script |-> "stage", todo |-> FirstsOf(job.rows), row |-> 0,
                    half |-> NoFile, torn |-> job.torn]
    /\ UNCHANGED <<world, proof, frozen, pairs, files, baseline, verdict, live>>

\* The symbol a mapped row is fetched under (norgate_symbol).
\* Mutation: the ticker of the index.
PitTicker(row) == row.occ.ticker

FetchSymbol(row) == row.symbol

File(dir, asset, series) ==
    files' = [files EXCEPT ![dir][asset] = [series EXCEPT !.of = IF job.torn THEN asset ELSE @]]

Unadjusted(series) == [of |-> series.of, days |-> series.days, bad |-> {}, adjusted |-> {}]

\* Both series are asked for before either is written.
ExportTotalReturn(i) ==
    /\ job.script = "stage" /\ job.half = NoFile
    /\ i \in job.todo /\ \A j \in job.todo : i <= j
    /\ \E lost \in IF MayLose THEN BOOLEAN ELSE {FALSE} :
          LET row == map[i]
              series == Series(Told, up, FetchSymbol(row), row.occ)
          IN /\ Lose(lost)
             /\ File("totalreturn", row.asset, series)
             /\ job' = [script |-> "stage", todo |-> job.todo \ {i}, row |-> i,
                        half |-> IF lost THEN NoBars ELSE Unadjusted(series), torn |-> job.torn]
    /\ UNCHANGED <<inputs, proof, frozen, pairs, map, baseline, verdict, live>>

ExportUnadjusted ==
    /\ job.script = "stage" /\ job.half # NoFile
    /\ File("unadjusted", map[job.row].asset, job.half)
    /\ job' = IF job.todo = {} THEN Idle ELSE [job EXCEPT !.half = NoFile]
    /\ UNCHANGED <<world, proof, frozen, pairs, map, baseline, verdict, live>>

(***************************************************************************)
(* norgate_platinum_validate.py                                            *)
(***************************************************************************)
Validate(expected, skip) ==
    /\ Starts("validate")
    /\ LET window == WindowTickers({map[i].occ : i \in DOMAIN map})
           need == IF expected = 0 THEN Cardinality(window) ELSE expected
       IN verdict' = BuildVerdict(Gates(need, skip))
    /\ UNCHANGED <<world, proof, frozen, pairs, map, files, baseline, job, live>>

(***************************************************************************)
(* probe_vendor_coverage.py: whether the vendor can be asked is found out  *)
(* once, and once more before the sample is asked.                         *)
(***************************************************************************)
DetectEnvironment ==
    /\ Starts("baseline") /\ job' = [script |-> "detected", queryable |-> up]
    /\ UNCHANGED <<world, artifacts, live>>

\* The payload calls its evidence live when the vendor could be asked at the
\* start, and its verdict follows what answered.
KnownCaseResults(rows, queryable) ==
    [i \in DOMAIN rows |-> IF queryable THEN rows[i].identity ELSE "NOT_TESTABLE"]

BuildPayload(rows, queryable, answered) ==
    [verdict |-> IF queryable /\ answered THEN "INSUFFICIENT" ELSE "PROMISING",
     evidence |-> IF queryable THEN "LIVE" ELSE "DOCUMENTED",
     known |-> KnownCaseResults(rows, queryable),
     rows |-> rows]

DocsRows == [i \in DOMAIN Samples |-> DocsRow(Samples[i])]

ProbeBaseline ==
    /\ job.script = "detected"
    /\ IF job.queryable /\ up
       THEN /\ \E told \in Opening(FALSE) : job' = Asking("baseline", told) /\ Lose(told.lost)
            /\ baseline' = baseline
       ELSE /\ baseline' = BuildPayload(DocsRows, job.queryable, FALSE) /\ job' = Idle
            /\ UNCHANGED <<up, changes>>
    /\ UNCHANGED <<inputs, proof, frozen, pairs, map, files, verdict, live>>

AskBaseline ==
    /\ job.script = "baseline" /\ Len(job.rows) < Len(Samples)
    /\ LET sample == Samples[Len(job.rows) + 1]
       IN AskRow(LiveQuestions(sample, job.databases), sample)
    /\ UNCHANGED <<inputs, artifacts, live>>

WriteBaseline ==
    /\ job.script = "baseline" /\ Len(job.rows) = Len(Samples)
    /\ baseline' = BuildPayload(BaselineRecycleRules(job.rows), TRUE, TRUE) /\ job' = Idle
    /\ UNCHANGED <<world, proof, frozen, pairs, map, files, verdict, live>>

Next ==
    \/ SwitchNdu \/ UpdateVendor \/ EditSeed \/ ReplaceSource \/ Crash
    \/ ProvePackage \/ AskControl \/ WriteProof
    \/ \E requireProof \in BOOLEAN : ProbeFrozen(requireProof)
    \/ AskSample \/ WriteRows \/ FinishProbe
    \/ \E skipBars \in BOOLEAN : Stage(skipBars)
    \/ AskOccupancy \/ WriteMap
    \/ \E i \in DOMAIN map : ExportTotalReturn(i)
    \/ ExportUnadjusted
    \/ \E expected \in {0, 2}, skip \in BOOLEAN : Validate(expected, skip)
    \/ DetectEnvironment \/ ProbeBaseline \/ AskBaseline \/ WriteBaseline

Spec == Init /\ [][Next]_vars

-----------------------------------------------------------------------------
\* No verdict but NOT_TESTABLE is ever drawn unless the package proof and the
\* frozen probe both started with NDU running and neither has since run to its
\* end without it: a run that finds NDU down takes back what an earlier run had
\* shown, in whatever order the scripts run and die (gate_p0, gate_f1).  That
\* NDU answered what was asked afterwards it does not say.
StartedLive ==
    [][verdict' # verdict /\ verdict'.value # "NOT_TESTABLE" => {"proof", "probe"} \subseteq live]_vars

\* Under a ready verdict the two occupancies of a recycled ticker are two assets
\* where both are on record, whoever answered for each and whatever was lost in
\* between, and no row that one vendor answered in full is its acquirer's.
ReadyIdentities ==
    [][verdict' # verdict /\ verdict'.ready =>
        /\ \A pair \in Recycled :
              LET old == frozen[pair[1]]
                  new == frozen[pair[2]]
              IN {old.asset, old.delisted} \cap {new.asset, new.current} \subseteq {NoAsset}
        /\ \A i \in DOMAIN frozen :
              LET row == frozen[i]
              IN row.of # NoVendor /\ row.asset # NoAsset =>
                    StemOf(Vendors[row.of].asset[row.asset].symbol) \notin MustNotAlias(Samples[i])
    ]_vars

\* The bars filed under an asset id are that asset's, whatever was staged
\* before, however scripts died or lost the vendor, and whichever symbols the
\* vendor gave to other assets between two stagings.  What is staged while the
\* vendor lists anew is left out.
FilesAreTheirAsset ==
    \A dir \in DOMAIN files : \A a \in Assets :
        files[dir][a].days # {} => files[dir][a].of = a

\* The re-probe is no laxer than the baseline probe it replaces: an identity
\* the baseline fails, it fails, where one vendor answered both for the row in
\* full, and for the row it is compared with if its ticker is recycled.
ReprobeIsStricter ==
    baseline.verdict = "INSUFFICIENT" /\ frozen # <<>> =>
        \A i \in DOMAIN frozen :
            LET alike == {i} \cup {pair[2] : pair \in {p \in Recycled : p[1] = i}}
            IN /\ \E v \in DOMAIN Vendors :
                     \A k \in alike : baseline.rows[k].of = v /\ frozen[k].of = v
               /\ baseline.known[i] = "FAIL"
               => frozen[i].identity = "FAIL"

\* "ATVI, CELG, XLNX, FRC, SIVB, ESRX do not alias to acquirers if they
\* resolve" is asked of a ready vendor (docs/audit/NORGATE_PLATINUM_TRIAL.md).
ReadyIsUnaliased ==
    verdict.ready =>
        \A i \in DOMAIN frozen : \A v \in DOMAIN Vendors :
            frozen[i].asset # NoAsset =>
                StemOf(Vendors[v].asset[frozen[i].asset].symbol) \notin MustNotAlias(Samples[i])
=============================================================================
