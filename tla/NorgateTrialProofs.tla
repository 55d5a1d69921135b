-------------------------- MODULE NorgateTrialProofs --------------------------
(***************************************************************************)
(* Theorems about NorgateTrial, for every sample, every vendor that lists  *)
(* the symbols it gives, every seed and source, and any number of changes  *)
(* around the scripts.                                                     *)
(*                                                                         *)
(* The files a verdict is drawn from are tied to what was heard when they  *)
(* were written: a proof or a sample on disk was begun with NDU running    *)
(* (EvidenceInv), a row says what its lookups said and, where one vendor   *)
(* answered them in full, what that vendor holds (ProbedInv), and an       *)
(* export under way files an asset's bars under that asset (FilingInv).    *)
(***************************************************************************)
EXTENDS NorgateTrial, SequenceTheorems, TLAPS

EvidenceInv ==
    /\ proof \notin {"absent", "NOT_TESTABLE"} => "proof" \in live
    /\ frozen # <<>> => "probe" \in live

\* A list under construction
IsList(s) == \E S : s \in Seq(S)

\* What a vendor holds of the past of a sample, and whether it is an acquirer's.
PastOf(v, sample) ==
    IF AsksSuffix(sample, v.databases) THEN Lookup(v, TRUE, sample.suffix) ELSE NotFound
Denied(v, sample) ==
    LET hit == IdentityLookup(sample, Lookup(v, TRUE, sample.ticker), PastOf(v, sample), NotFound)
    IN Found(hit) /\ StemOf(hit.symbol) \in sample.aliases

\* What one vendor answered in full is what it holds.
Truthful(sample, row) ==
    row.of # NoVendor =>
        LET v == Vendors[row.of]
        IN /\ row.of \in DOMAIN Vendors
           /\ row.current = Lookup(v, TRUE, sample.ticker).id
           /\ row.delisted = PastOf(v, sample).id

FrozenTrue(sample, row) ==
    /\ row.delisted # NoAsset => row.asset = row.delisted
    /\ sample.suffix = NoSymbol => row.asset = row.current /\ row.delisted = NoAsset
    /\ Truthful(sample, row)
    /\ row.of # NoVendor =>
           LET v == Vendors[row.of]
           IN /\ Denied(v, sample) => row.identity = "FAIL"
              /\ row.identity # "FAIL" /\ row.asset # NoAsset =>
                     StemOf(v.asset[row.asset].symbol) \notin MustNotAlias(sample)

LiveTrue(sample, row) ==
    /\ Truthful(sample, row)
    /\ row.of # NoVendor /\ row.identity = "FAIL" => Denied(Vendors[row.of], sample)

FrozenShape(row) ==
    row = [ticker |-> row.ticker, asset |-> row.asset, current |-> row.current,
           delisted |-> row.delisted, identity |-> row.identity, coverage |-> row.coverage,
           of |-> row.of]
LiveShape(row) ==
    row = [ticker |-> row.ticker, current |-> row.current, delisted |-> row.delisted,
           identity |-> row.identity, coverage |-> row.coverage, evidence |-> row.evidence,
           of |-> row.of]

FrozenRows(rows) == \A i \in DOMAIN rows : FrozenTrue(Samples[i], rows[i]) /\ FrozenShape(rows[i])
LiveRows(rows) == \A i \in DOMAIN rows : LiveTrue(Samples[i], rows[i]) /\ LiveShape(rows[i])

\* What is asked for the next row
Questions(j) ==
    LET sample == Samples[Len(j.rows) + 1]
    IN IF j.script = "probe" THEN SampleQuestions(sample, j.databases, j.known)
       ELSE LiveQuestions(sample, j.databases)

HeardTrue(databases, heard, of, asked) ==
    of # NoVendor =>
        /\ of \in DOMAIN Vendors
        /\ databases = Vendors[of].databases
        /\ \A k \in DOMAIN heard : heard[k] = Lookup(Vendors[of], TRUE, asked[k])

AskingTrue(j) ==
    /\ j = [script |-> j.script, databases |-> j.databases, known |-> j.known,
            rows |-> j.rows, heard |-> j.heard, of |-> j.of]
    /\ IsList(j.rows) /\ Len(j.rows) <= Len(Samples)
    /\ IsList(j.heard)
    /\ Len(j.rows) < Len(Samples) =>
           /\ Len(j.heard) < Len(Questions(j))
           /\ j.heard # <<>> => HeardTrue(j.databases, j.heard, j.of, Questions(j))
    /\ j.script = "probe" => FrozenRows(j.rows)
    /\ j.script = "baseline" => LiveRows(j.rows)

\* The rules for recycled tickers have been applied to what is on disk.
FrozenFiled ==
    /\ DOMAIN frozen = DOMAIN Samples
    /\ \A i \in DOMAIN frozen : FrozenTrue(Samples[i], frozen[i])
    /\ \A pair \in Recycled :
           Collapsed(frozen[pair[1]], frozen[pair[2]]) => frozen[pair[1]].identity = "FAIL"
BaselineFiled ==
    /\ DOMAIN baseline.rows = DOMAIN Samples
    /\ \A i \in DOMAIN Samples :
           /\ Truthful(Samples[i], baseline.rows[i])
           /\ baseline.known[i] = "FAIL" =>
                 \/ baseline.rows[i].of # NoVendor =>
                        Denied(Vendors[baseline.rows[i].of], Samples[i])
                 \/ \E pair \in Recycled :
                       pair[1] = i /\ BaselineCollapsed(baseline.rows[i], baseline.rows[pair[2]])

ProbedInv ==
    /\ up \in BOOLEAN /\ vendor \in DOMAIN Vendors
    /\ frozen # <<>> => FrozenFiled
    /\ baseline.verdict = "INSUFFICIENT" => BaselineFiled
    /\ job.script \in {"probe", "baseline"} => AskingTrue(job)

\* The symbol of what was found or mapped still means its asset.
Listed(hit) == Found(hit) => Told.listing[hit.symbol] = hit.id
RowListed(row) == Mapped(row) => Told.listing[row.symbol] = row.asset
Dirs == {"totalreturn", "unadjusted"}
FilesShape == files = [dir \in Dirs |-> [a \in Assets |-> files[dir][a]]]
Mapping ==
    /\ job = [script |-> "map", known |-> job.known, occs |-> job.occs, master |-> job.master,
              skip |-> job.skip, rows |-> job.rows, heard |-> job.heard, torn |-> job.torn]
    /\ IsList(job.rows) /\ IsList(job.heard)
    /\ job.torn \/ /\ \A i \in DOMAIN job.rows : RowListed(job.rows[i])
                   /\ \A k \in DOMAIN job.heard : Listed(job.heard[k])
Exporting ==
    /\ job = [script |-> "stage", todo |-> job.todo, row |-> job.row, half |-> job.half,
              torn |-> job.torn]
    /\ job.torn \/ \A i \in DOMAIN map : RowListed(map[i])
    /\ job.torn \/ (job.half.days # {} /\ Mapped(map[job.row]) =>
                        job.half.of = map[job.row].asset)
    /\ job.half = [of |-> job.half.of, days |-> job.half.days, bad |-> job.half.bad,
                   adjusted |-> job.half.adjusted]
FilingInv ==
    /\ vendor \in DOMAIN Vendors
    /\ FilesShape /\ FilesAreTheirAsset
    /\ job.script = "map" => Mapping
    /\ job.script = "stage" => Exporting

------------------------------------------------------------------------------
(* Lists.                                                                   *)

LEMMA AppendOf ==
    ASSUME NEW s, IsList(s), NEW e
    PROVE  /\ IsList(Append(s, e)) /\ Len(s) \in Nat /\ DOMAIN s = 1 .. Len(s)
           /\ Len(Append(s, e)) = Len(s) + 1 /\ DOMAIN Append(s, e) = 1 .. Len(s) + 1
           /\ \A i \in DOMAIN s : Append(s, e)[i] = s[i]
           /\ Append(s, e)[Len(s) + 1] = e
           /\ Append(s, e) # <<>>
  <1>1. PICK S : s \in Seq(S)
    BY DEF IsList
  <1> DEFINE T == S \cup {e}
  <1>2. Len(s) \in Nat /\ DOMAIN s = 1 .. Len(s) /\ s \in [1 .. Len(s) -> S]
    BY <1>1
  <1>3. s \in [1 .. Len(s) -> T]
    BY <1>2
  <1>4. s \in Seq(T) /\ e \in T
    BY <1>2, <1>3
  <1> HIDE DEF T
  <1>5. /\ Append(s, e) \in Seq(T) /\ Append(s, e) # <<>> /\ Len(Append(s, e)) = Len(s) + 1
        /\ \A i \in 1 .. Len(s) : Append(s, e)[i] = s[i]
        /\ Append(s, e)[Len(s) + 1] = e
    BY <1>4, AppendProperties
  <1>6. DOMAIN Append(s, e) = 1 .. Len(s) + 1
    BY <1>5
  <1> QED
    BY <1>2, <1>5, <1>6 DEF IsList

LEMMA EmptyList == IsList(<<>>) /\ Len(<<>>) = 0 /\ DOMAIN <<>> = {}
  <1>1. <<>> \in Seq({})
    OBVIOUS
  <1> QED
    BY <1>1 DEF IsList

\* What holds of a list and of one more element holds of the longer list.
LEMMA AppendKeeps ==
    ASSUME NEW s, IsList(s), NEW e, NEW i \in DOMAIN Append(s, e)
    PROVE  \/ i \in DOMAIN s /\ Append(s, e)[i] = s[i]
           \/ i = Len(s) + 1 /\ Append(s, e)[i] = e
  BY AppendOf

------------------------------------------------------------------------------
(* What the vendor is asked.                                                *)

LEMMA UpIs == up \in BOOLEAN => (up => up = TRUE)
  BY Zenon

LEMMA LookupOf ==
    ASSUME NEW v, NEW s, Found(Lookup(v, TRUE, s))
    PROVE  LET hit == Lookup(v, TRUE, s) IN
           /\ s \in Symbols /\ hit.id = v.listing[s] /\ hit.id # NoAsset
           /\ hit.symbol = v.asset[hit.id].symbol
  BY DEF Lookup, Found, NotFound

LEMMA LookupIsListed ==
    ASSUME NEW n \in DOMAIN Vendors, NEW s, Found(Lookup(Vendors[n], TRUE, s))
    PROVE  Vendors[n].listing[Lookup(Vendors[n], TRUE, s).symbol] = Lookup(Vendors[n], TRUE, s).id
  <1> DEFINE v == Vendors[n]
             hit == Lookup(v, TRUE, s)
  <1>1. s \in Symbols /\ hit.id = v.listing[s] /\ hit.id # NoAsset
        /\ hit.symbol = v.asset[hit.id].symbol
    BY LookupOf
  <1> HIDE DEF hit
  <1>2. v.listing[hit.symbol] = hit.id
    BY <1>1, ListingAssumption DEF ListingAssumption
  <1> QED
    BY <1>2 DEF hit

LEMMA NothingIsFound == ~ Found(NotFound) /\ NotFound.id = NoAsset
  BY DEF Found, NotFound

\* An answer nothing was lost of is the whole of what the vendor holds.
LEMMA AnswerOf ==
    ASSUME NEW symbol, NEW told \in Answers(symbol), ~ told.lost
    PROVE  told.hit = Lookup(Told, up, symbol)
  BY DEF Answers

\* What is answered, cut short or not, is listed under the symbol it comes with.
LEMMA AnswerIsListed ==
    ASSUME NEW symbol, NEW told \in Answers(symbol), vendor \in DOMAIN Vendors, up \in BOOLEAN
    PROVE  Listed(told.hit)
  <1> DEFINE hit == Lookup(Told, up, symbol)
  <1>1. CASE ~ up
    <2>1. hit = NotFound /\ ~ MayLose
      BY <1>1 DEF Lookup, MayLose
    <2>2. told.hit = hit
      BY <2>1 DEF Answers
    <2> QED
      BY <2>1, <2>2, NothingIsFound DEF Listed
  <1>2. CASE up
    <2>1. hit = Lookup(Told, TRUE, symbol)
      BY <1>2, UpIs
    <2>2. Found(hit) => Told.listing[symbol] = hit.id /\ Told.listing[hit.symbol] = hit.id
      <3> SUFFICES ASSUME Found(Lookup(Told, TRUE, symbol))
                   PROVE  LET h == Lookup(Told, TRUE, symbol) IN
                          Told.listing[symbol] = h.id /\ Told.listing[h.symbol] = h.id
        BY <2>1
      <3>1. Told.listing[symbol] = Lookup(Told, TRUE, symbol).id
        BY LookupOf
      <3>2. Told.listing[Lookup(Told, TRUE, symbol).symbol] = Lookup(Told, TRUE, symbol).id
        BY LookupIsListed DEF Told
      <3> QED
        BY <3>1, <3>2
    <2> HIDE DEF hit
    <2>3. \/ told.hit = hit
          \/ \E n \in 1 .. 4 : told.hit = CutShort(symbol, hit, n) /\ Found(hit)
      <3>1. told \in {[hit |-> hit, lost |-> FALSE]}
                     \cup {[hit |-> CutShort(symbol, hit, n), lost |-> TRUE] :
                               n \in IF MayLose /\ Found(hit) THEN 1 .. 4 ELSE {}}
        BY DEF Answers, hit
      <3> QED
        BY <3>1
    <2>4. ASSUME NEW n \in 1 .. 4
          PROVE  LET cut == CutShort(symbol, hit, n) IN
                 cut.id = hit.id /\ (cut.symbol = symbol \/ cut.symbol = hit.symbol)
      BY DEF CutShort
    <2> QED
      BY <2>2, <2>3, <2>4 DEF Listed, Found
  <1> QED
    BY <1>1, <1>2

LEMMA QuestionsOf ==
    ASSUME NEW sample, NEW databases, NEW known
    PROVE  /\ LET asked == SampleQuestions(sample, databases, known) IN
              /\ Len(asked) \in 1 .. 3 /\ asked[1] = sample.ticker
              /\ AsksSuffix(sample, databases) => Len(asked) >= 2 /\ asked[2] = sample.suffix
              /\ ~ AsksSuffix(sample, databases) => Len(asked) = 1
           /\ LET asked == LiveQuestions(sample, databases) IN
              /\ Len(asked) \in 1 .. 3 /\ asked[1] = sample.ticker
              /\ AsksSuffix(sample, databases) => Len(asked) = 2 /\ asked[2] = sample.suffix
              /\ ~ AsksSuffix(sample, databases) => Len(asked) = 1
  <1> DEFINE other == Alternates(sample, known)[1]
             one == <<sample.ticker>>
             two == <<sample.ticker, sample.suffix>>
             three == <<sample.ticker, sample.suffix, other>>
  <1>1. /\ Len(one) = 1 /\ one[1] = sample.ticker
        /\ Len(two) = 2 /\ two[1] = sample.ticker /\ two[2] = sample.suffix
        /\ Len(three) = 3 /\ three[1] = sample.ticker /\ three[2] = sample.suffix
    OBVIOUS
  <1>2. LiveQuestions(sample, databases) = IF AsksSuffix(sample, databases) THEN two ELSE one
    BY DEF LiveQuestions
  <1>3. \/ /\ SampleQuestions(sample, databases, known) = three
           /\ AsksSuffix(sample, databases)
        \/ SampleQuestions(sample, databases, known) = LiveQuestions(sample, databases)
    BY DEF SampleQuestions
  <1> HIDE DEF one, two, three
  <1> QED
    BY <1>1, <1>2, <1>3

------------------------------------------------------------------------------
(* What a row says of what was heard for it.                                *)

\* All of a row's lookups, answered by one vendor
Answered(heard, of, sample) ==
    of # NoVendor =>
        /\ of \in DOMAIN Vendors
        /\ Heard(heard, 1) = Lookup(Vendors[of], TRUE, sample.ticker)
        /\ Heard(heard, 2) = PastOf(Vendors[of], sample)
        /\ \/ Heard(heard, 3) = NotFound
           \/ \E s : Heard(heard, 3) = Lookup(Vendors[of], TRUE, s)

LEMMA FrozenRowOf ==
    ASSUME NEW sample, NEW heard, NEW of,
           Answered(heard, of, sample),
           sample.suffix = NoSymbol => Heard(heard, 2) = NotFound
    PROVE  LET row == FrozenRow(sample, heard, of) IN FrozenTrue(sample, row) /\ FrozenShape(row)
  <1> DEFINE row == FrozenRow(sample, heard, of)
             current == Heard(heard, 1)
             past == Heard(heard, 2)
             other == Heard(heard, 3)
             hit == IdentityLookup(sample, current, past, other)
             early == IdentityLookup(sample, current, past, NotFound)
  <1>1. /\ row.asset = hit.id /\ row.current = current.id /\ row.delisted = past.id /\ row.of = of
        /\ row.identity = IF ~ Found(hit) THEN "NOT_TESTABLE"
                          ELSE IF IsAliasIdentity(hit, MustNotAlias(sample)) THEN "FAIL" ELSE "PASS"
        /\ FrozenShape(row)
    BY DEF FrozenRow, ClassifyFrozenRow, FrozenShape
  <1>2. sample.suffix = NoSymbol => past = NotFound /\ hit = current
    BY DEF IdentityLookup
  <1>3. Found(past) => hit = past
    <2> HIDE DEF past, current, other
    <2> QED
      BY <1>2, NothingIsFound DEF IdentityLookup, past
  <1>4. Found(early) => hit = early
    <2> HIDE DEF past, current, other
    <2> QED
      BY NothingIsFound DEF IdentityLookup
  <1>5. hit = current \/ hit = past \/ hit = other
    BY DEF IdentityLookup
  <1>6. of # NoVendor =>
            /\ of \in DOMAIN Vendors
            /\ current = Lookup(Vendors[of], TRUE, sample.ticker)
            /\ past = PastOf(Vendors[of], sample)
            /\ other = NotFound \/ \E s : other = Lookup(Vendors[of], TRUE, s)
    BY DEF Answered
  <1>7. of # NoVendor => (Denied(Vendors[of], sample) =>
                              Found(early) /\ StemOf(early.symbol) \in sample.aliases)
    BY <1>6 DEF Denied
  <1>8. of # NoVendor => (Found(hit) => hit.symbol = Vendors[of].asset[hit.id].symbol)
    <2>1. \A v, s : Found(Lookup(v, TRUE, s)) =>
                       Lookup(v, TRUE, s).symbol = v.asset[Lookup(v, TRUE, s).id].symbol
      BY LookupOf
    <2>2. of # NoVendor => hit = NotFound \/ \E s : hit = Lookup(Vendors[of], TRUE, s)
      <3> HIDE DEF hit, past, current, other
      <3> QED
        BY <1>5, <1>6 DEF PastOf
    <2> HIDE DEF hit
    <2> QED
      BY <2>1, <2>2, NothingIsFound
  <1> HIDE DEF row, current, past, other, hit, early
  <1>9. of # NoVendor =>
           /\ Denied(Vendors[of], sample) => row.identity = "FAIL"
           /\ row.identity # "FAIL" /\ row.asset # NoAsset =>
                  StemOf(Vendors[of].asset[row.asset].symbol) \notin MustNotAlias(sample)
    <2>1. of # NoVendor => (Denied(Vendors[of], sample) =>
              Found(hit) /\ IsAliasIdentity(hit, MustNotAlias(sample)))
      BY <1>4, <1>7 DEF IsAliasIdentity, MustNotAlias
    <2>2. of # NoVendor => (row.identity # "FAIL" /\ row.asset # NoAsset =>
              StemOf(Vendors[of].asset[row.asset].symbol) \notin MustNotAlias(sample))
      BY <1>1, <1>8 DEF Found, IsAliasIdentity
    <2> QED
      BY <1>1, <2>1, <2>2
  <1>10. Truthful(sample, row)
    BY <1>1, <1>6 DEF Truthful
  <1>11. /\ row.delisted # NoAsset => row.asset = row.delisted
         /\ sample.suffix = NoSymbol => row.asset = row.current /\ row.delisted = NoAsset
    BY <1>1, <1>2, <1>3, NothingIsFound DEF Found
  <1> QED
    BY <1>1, <1>9, <1>10, <1>11 DEF FrozenTrue, row

LEMMA LiveRowOf ==
    ASSUME NEW sample, NEW heard, NEW of, Answered(heard, of, sample)
    PROVE  LET row == LiveRow(sample, heard, of) IN LiveTrue(sample, row) /\ LiveShape(row)
  <1> DEFINE row == LiveRow(sample, heard, of)
             current == Heard(heard, 1)
             past == Heard(heard, 2)
             hit == IdentityLookup(sample, current, past, NotFound)
  <1>1. /\ row.current = current.id /\ row.delisted = past.id /\ row.of = of
        /\ row.identity = "FAIL" => Found(hit) /\ StemOf(hit.symbol) \in sample.aliases
        /\ LiveShape(row)
    BY DEF LiveRow, ClassifyLiveRow, LiveShape
  <1>2. of # NoVendor =>
            /\ of \in DOMAIN Vendors
            /\ current = Lookup(Vendors[of], TRUE, sample.ticker)
            /\ past = PastOf(Vendors[of], sample)
    BY DEF Answered
  <1> HIDE DEF row, current, past
  <1>3. Truthful(sample, row)
    BY <1>1, <1>2 DEF Truthful
  <1>4. of # NoVendor /\ row.identity = "FAIL" => Denied(Vendors[of], sample)
    BY <1>1, <1>2 DEF Denied
  <1> QED
    BY <1>1, <1>3, <1>4 DEF LiveTrue, row

LEMMA HeardOf ==
    ASSUME NEW sample, NEW heard, NEW of, NEW asked, NEW known,
           \/ asked = SampleQuestions(sample, job.databases, known)
           \/ asked = LiveQuestions(sample, job.databases),
           DOMAIN heard = 1 .. Len(asked), HeardTrue(job.databases, heard, of, asked)
    PROVE  /\ Answered(heard, of, sample)
           /\ sample.suffix = NoSymbol => Heard(heard, 2) = NotFound
  <1>1. /\ Len(asked) \in 1 .. 3 /\ asked[1] = sample.ticker
        /\ AsksSuffix(sample, job.databases) => Len(asked) >= 2 /\ asked[2] = sample.suffix
        /\ ~ AsksSuffix(sample, job.databases) => Len(asked) = 1
    BY QuestionsOf
  <1>2. /\ Heard(heard, 1) = heard[1] /\ 1 \in DOMAIN heard
        /\ Heard(heard, 2) = IF AsksSuffix(sample, job.databases) THEN heard[2] ELSE NotFound
        /\ AsksSuffix(sample, job.databases) => 2 \in DOMAIN heard
        /\ Heard(heard, 3) = NotFound \/ (3 \in DOMAIN heard /\ Heard(heard, 3) = heard[3])
    <2>1. /\ 1 \in DOMAIN heard
          /\ AsksSuffix(sample, job.databases) => 2 \in DOMAIN heard
          /\ ~ AsksSuffix(sample, job.databases) => 2 \notin DOMAIN heard
      <3> DEFINE n == Len(asked)
      <3>1. n \in 1 .. 3 /\ DOMAIN heard = 1 .. n
        BY <1>1
      <3>2. /\ AsksSuffix(sample, job.databases) => n >= 2
            /\ ~ AsksSuffix(sample, job.databases) => n = 1
        BY <1>1
      <3> HIDE DEF n
      <3>3. 1 \in DOMAIN heard
        BY <3>1
      <3>4. AsksSuffix(sample, job.databases) => 2 \in DOMAIN heard
        BY <3>1, <3>2
      <3>5. n = 1 => 2 \notin DOMAIN heard
        <4>1. n = 1 => DOMAIN heard = 1 .. 1
          BY <3>1
        <4>2. 2 \notin 1 .. 1
          OBVIOUS
        <4> QED
          BY <4>1, <4>2, Zenon
      <3> QED
        BY <3>2, <3>3, <3>4, <3>5
    <2> QED
      BY <2>1 DEF Heard
  <1>3. sample.suffix = NoSymbol => ~ AsksSuffix(sample, job.databases)
    BY DEF AsksSuffix
  <1>4. ASSUME of # NoVendor
        PROVE  /\ of \in DOMAIN Vendors
               /\ Heard(heard, 1) = Lookup(Vendors[of], TRUE, sample.ticker)
               /\ Heard(heard, 2) = PastOf(Vendors[of], sample)
               /\ \/ Heard(heard, 3) = NotFound
                  \/ \E s : Heard(heard, 3) = Lookup(Vendors[of], TRUE, s)
    <2>1. /\ of \in DOMAIN Vendors /\ job.databases = Vendors[of].databases
          /\ \A k \in DOMAIN heard : heard[k] = Lookup(Vendors[of], TRUE, asked[k])
      BY <1>4 DEF HeardTrue
    <2>2. Heard(heard, 1) = Lookup(Vendors[of], TRUE, sample.ticker)
      BY <1>1, <1>2, <2>1
    <2>3. Heard(heard, 2) = PastOf(Vendors[of], sample)
      <3>1. CASE AsksSuffix(sample, job.databases)
        <4>1. Heard(heard, 2) = Lookup(Vendors[of], TRUE, sample.suffix)
          BY <1>1, <1>2, <2>1, <3>1
        <4> QED
          BY <2>1, <3>1, <4>1 DEF PastOf
      <3>2. CASE ~ AsksSuffix(sample, job.databases)
        BY <1>2, <2>1, <3>2 DEF PastOf
      <3> QED
        BY <3>1, <3>2
    <2>4. Heard(heard, 3) = NotFound \/ \E s : Heard(heard, 3) = Lookup(Vendors[of], TRUE, s)
      BY <1>2, <2>1
    <2> QED
      BY <2>1, <2>2, <2>3, <2>4
  <1> QED
    BY <1>2, <1>3, <1>4 DEF Answered

\* A lookup more, for a row of either probe
LEMMA AskRowKeeps ==
    ASSUME ProbedInv, job.script \in {"probe", "baseline"}, Len(job.rows) < Len(Samples),
           AskRow(Questions(job), Samples[Len(job.rows) + 1])
    PROVE  AskingTrue(job') /\ job'.script = job.script
  <1> DEFINE sample == Samples[Len(job.rows) + 1]
             asked == Questions(job)
  <1>1. AskingTrue(job) /\ up \in BOOLEAN /\ Len(Samples) \in Nat
    BY SampleAssumption DEF ProbedInv, SampleAssumption
  <1>2. PICK told \in Answers(asked[Len(job.heard) + 1]) :
            LET heard == Append(job.heard, told.hit)
                of == AnsweredBy(told.lost)
            IN job' = IF Len(heard) = Len(asked)
                      THEN [job EXCEPT !.rows = Append(@, Classified(sample, heard, of)),
                                       !.heard = <<>>, !.of = NoVendor]
                      ELSE [job EXCEPT !.heard = heard, !.of = of]
    BY DEF AskRow
  <1> DEFINE heard == Append(job.heard, told.hit)
             of == AnsweredBy(told.lost)
             row == Classified(sample, heard, of)
  <1>3. \/ asked = SampleQuestions(sample, job.databases, job.known)
        \/ asked = LiveQuestions(sample, job.databases)
    BY DEF Questions
  <1>4. Len(asked) \in 1 .. 3
    BY <1>3, QuestionsOf
  <1>5. /\ IsList(heard) /\ Len(job.heard) \in Nat /\ DOMAIN job.heard = 1 .. Len(job.heard)
        /\ Len(heard) = Len(job.heard) + 1 /\ DOMAIN heard = 1 .. Len(job.heard) + 1
        /\ \A i \in DOMAIN job.heard : heard[i] = job.heard[i]
        /\ heard[Len(job.heard) + 1] = told.hit /\ heard # <<>>
    BY <1>1, AppendOf DEF AskingTrue
  <1>6. Len(job.heard) < Len(asked) /\ (job.heard # <<>> => HeardTrue(job.databases, job.heard, job.of, asked))
    BY <1>1 DEF AskingTrue
  <1> HIDE DEF asked, sample
  <1>7. HeardTrue(job.databases, heard, of, asked)
    <2> SUFFICES ASSUME of # NoVendor
                 PROVE  /\ of \in DOMAIN Vendors /\ job.databases = Vendors[of].databases
                        /\ \A k \in DOMAIN heard : heard[k] = Lookup(Vendors[of], TRUE, asked[k])
      BY DEF HeardTrue
    <2>1. /\ of = vendor /\ up /\ ~ told.lost /\ job.databases = Told.databases
          /\ job.heard = <<>> \/ job.of = vendor
      BY DEF AnsweredBy
    <2>2. told.hit = Lookup(Vendors[of], TRUE, asked[Len(job.heard) + 1])
      BY <1>1, <2>1, AnswerOf, UpIs DEF Told
    <2>3. vendor \in DOMAIN Vendors
      BY DEF ProbedInv
    <2>4. \A k \in DOMAIN job.heard : job.heard[k] = Lookup(Vendors[of], TRUE, asked[k])
      <3>1. CASE job.heard = <<>>
        BY <3>1, EmptyList
      <3>2. CASE job.heard # <<>>
        BY <1>6, <2>1, <2>3, <3>2, NoVendorAssumption DEF HeardTrue, NoVendorAssumption
      <3> QED
        BY <3>1, <3>2
    <2> HIDE DEF heard, of
    <2>5. \A k \in DOMAIN heard : heard[k] = Lookup(Vendors[of], TRUE, asked[k])
      <3> SUFFICES ASSUME NEW k \in DOMAIN heard
                   PROVE  heard[k] = Lookup(Vendors[of], TRUE, asked[k])
        OBVIOUS
      <3>1. k \in DOMAIN job.heard \/ k = Len(job.heard) + 1
        BY <1>5
      <3> QED
        BY <1>5, <2>2, <2>4, <3>1
    <2> QED
      BY <2>1, <2>3, <2>5 DEF Told
  <1>8. CASE Len(heard) = Len(asked)
    <2>1. job' = [script |-> job.script, databases |-> job.databases, known |-> job.known,
                  rows |-> Append(job.rows, row), heard |-> <<>>, of |-> NoVendor]
      BY <1>1, <1>2, <1>8 DEF AskingTrue
    <2>2. /\ IsList(Append(job.rows, row)) /\ Len(job.rows) \in Nat
          /\ Len(Append(job.rows, row)) = Len(job.rows) + 1
          /\ DOMAIN job.rows = 1 .. Len(job.rows)
      BY <1>1, AppendOf DEF AskingTrue
    <2>3. /\ Answered(heard, of, sample)
          /\ sample.suffix = NoSymbol => Heard(heard, 2) = NotFound
      <3>1. DOMAIN heard = 1 .. Len(asked)
        BY <1>5, <1>8
      <3> HIDE DEF heard, of
      <3> QED
        BY <1>3, <1>7, <3>1, HeardOf
    <2>4. job.script = "probe" => FrozenTrue(sample, row) /\ FrozenShape(row)
      BY <2>3, FrozenRowOf DEF Classified
    <2>5. job.script = "baseline" => LiveTrue(sample, row) /\ LiveShape(row)
      BY <2>3, LiveRowOf DEF Classified
    <2> HIDE DEF row
    <2>6. \A i \in DOMAIN Append(job.rows, row) :
              \/ i \in DOMAIN job.rows /\ Append(job.rows, row)[i] = job.rows[i]
              \/ Samples[i] = sample /\ Append(job.rows, row)[i] = row
      BY <1>1, AppendKeeps DEF AskingTrue, sample
    <2>7. job.script = "probe" => FrozenRows(job'.rows)
      BY <1>1, <2>1, <2>4, <2>6 DEF AskingTrue, FrozenRows
    <2>8. job.script = "baseline" => LiveRows(job'.rows)
      BY <1>1, <2>1, <2>5, <2>6 DEF AskingTrue, LiveRows
    <2>9. Len(Questions(job')) \in 1 .. 3
      BY QuestionsOf DEF Questions
    <2>10. /\ job'.script = job.script /\ job'.rows = Append(job.rows, row) /\ job'.heard = <<>>
           /\ job' = [script |-> job'.script, databases |-> job'.databases, known |-> job'.known,
                      rows |-> job'.rows, heard |-> job'.heard, of |-> job'.of]
      BY <2>1
    <2>11. IsList(job'.rows) /\ Len(job'.rows) <= Len(Samples)
      BY <1>1, <2>2, <2>10
    <2>12. IsList(job'.heard) /\ Len(job'.heard) < Len(Questions(job'))
      <3>1. IsList(job'.heard) /\ Len(job'.heard) = 0
        BY <2>10, EmptyList, Zenon
      <3> DEFINE m == Len(job'.heard)
                 n == Len(Questions(job'))
      <3>2. m = 0 /\ n \in 1 .. 3
        BY <2>9, <3>1, Zenon
      <3> HIDE DEF m, n
      <3>3. m < n
        BY <3>2
      <3> QED
        BY <3>1, <3>3, Zenon DEF m, n
    <2> QED
      BY <2>7, <2>8, <2>10, <2>11, <2>12 DEF AskingTrue
  <1>9. CASE Len(heard) # Len(asked)
    <2>1. job' = [script |-> job.script, databases |-> job.databases, known |-> job.known,
                  rows |-> job.rows, heard |-> heard, of |-> of]
      BY <1>1, <1>2, <1>9 DEF AskingTrue
    <2> HIDE DEF heard, of
    <2>2. /\ job'.script = job.script /\ job'.databases = job.databases /\ job'.rows = job.rows
          /\ job'.known = job.known /\ job'.heard = heard /\ job'.of = of
      BY <2>1
    <2>3. Questions(job') = asked
      BY <2>2 DEF Questions, asked
    <2>4. HeardTrue(job'.databases, job'.heard, job'.of, Questions(job'))
      BY <1>7, <2>2, <2>3 DEF HeardTrue
    <2>5. Len(heard) < Len(asked)
      BY <1>4, <1>5, <1>6, <1>9
    <2> QED
      BY <1>1, <1>5, <2>1, <2>2, <2>3, <2>4, <2>5 DEF AskingTrue, FrozenRows, LiveRows
  <1> QED
    BY <1>8, <1>9

------------------------------------------------------------------------------
(* What a script has still to write is a record, and says which script.     *)

JobShape(j) == "script" \in DOMAIN j /\ j = [f \in DOMAIN j |-> j[f]]

LEMMA HeardShape ==
    ASSUME JobShape(job), NEW heard, job' = [job EXCEPT !.heard = heard]
    PROVE  JobShape(job') /\ job'.script = job.script
  BY DEF JobShape

LEMMA HeardOfShape ==
    ASSUME JobShape(job), NEW heard, NEW of, job' = [job EXCEPT !.heard = heard, !.of = of]
    PROVE  JobShape(job') /\ job'.script = job.script
  BY DEF JobShape

LEMMA RowsShape ==
    ASSUME JobShape(job), NEW rows, NEW heard,
           job' = [job EXCEPT !.rows = rows, !.heard = heard]
    PROVE  JobShape(job') /\ job'.script = job.script
  BY DEF JobShape

LEMMA RowsOfShape ==
    ASSUME JobShape(job), NEW rows, NEW heard, NEW of,
           job' = [job EXCEPT !.rows = rows, !.heard = heard, !.of = of]
    PROVE  JobShape(job') /\ job'.script = job.script
  BY DEF JobShape

LEMMA AskRowShape ==
    ASSUME JobShape(job), NEW asked, NEW sample, AskRow(asked, sample)
    PROVE  JobShape(job') /\ job'.script = job.script
  <1>1. \/ \E rows, heard, of : job' = [job EXCEPT !.rows = rows, !.heard = heard, !.of = of]
        \/ \E heard, of : job' = [job EXCEPT !.heard = heard, !.of = of]
    <2>1. PICK told \in Answers(asked[Len(job.heard) + 1]) :
            LET heard == Append(job.heard, told.hit)
                of == AnsweredBy(told.lost)
            IN job' = IF Len(heard) = Len(asked)
                      THEN [job EXCEPT !.rows = Append(@, Classified(sample, heard, of)),
                                       !.heard = <<>>, !.of = NoVendor]
                      ELSE [job EXCEPT !.heard = heard, !.of = of]
      BY DEF AskRow
    <2> QED
      BY <2>1
  <1> QED
    BY <1>1, HeardOfShape, RowsOfShape

LEMMA AskOccupancyShape ==
    ASSUME JobShape(job), AskOccupancy
    PROVE  JobShape(job') /\ job'.script = "map"
  <1>1. \/ \E rows, heard : job' = [job EXCEPT !.rows = rows, !.heard = heard]
        \/ \E heard : job' = [job EXCEPT !.heard = heard]
    BY DEF AskOccupancy
  <1>2. job.script = "map"
    BY DEF AskOccupancy
  <1> QED
    BY <1>1, <1>2, HeardShape, RowsShape

LEMMA ExportShape ==
    ASSUME JobShape(job), ExportUnadjusted \/ \E i \in DOMAIN map : ExportTotalReturn(i)
    PROVE  JobShape(job') /\ job'.script \in {"stage", "none"}
  <1>1. CASE ExportUnadjusted
    <2>1. job.script = "stage" /\ (job' = Idle \/ job' = [job EXCEPT !.half = NoFile])
      BY <1>1 DEF ExportUnadjusted
    <2> QED
      BY <2>1 DEF JobShape, Idle
  <1>2. CASE \E i \in DOMAIN map : ExportTotalReturn(i)
    <2>1. \E todo, row, half, torn :
              job' = [script |-> "stage", todo |-> todo, row |-> row, half |-> half, torn |-> torn]
      BY <1>2 DEF ExportTotalReturn
    <2> QED
      BY <2>1 DEF JobShape
  <1> QED
    BY <1>1, <1>2

LEMMA AskingShape ==
    ASSUME NEW script, NEW told
    PROVE  JobShape(Asking(script, told)) /\ Asking(script, told).script = script
  BY DEF JobShape, Asking

LEMMA ShapeStep ==
    ASSUME JobShape(job), [Next]_vars
    PROVE  JobShape(job')
  <1>1. JobShape(Idle)
    BY DEF JobShape, Idle
  <1>2. CASE SwitchNdu \/ UpdateVendor \/ EditSeed \/ ReplaceSource \/ Crash \/ UNCHANGED vars
    <2>1. job' = job \/ job' = Idle \/ job' = [job EXCEPT !.torn = TRUE]
      BY <1>2 DEF SwitchNdu, UpdateVendor, EditSeed, ReplaceSource, Crash, vars
    <2> QED
      BY <1>1, <2>1 DEF JobShape
  <1>3. CASE ProvePackage \/ WriteProof
    <2>1. job' = job \/ job' = Idle \/ \E told : job' = Asking("proof", told)
      BY <1>3 DEF ProvePackage, WriteProof
    <2> QED
      BY <1>1, <2>1, AskingShape
  <1>4. CASE AskControl
    <2>1. \E heard : job' = [job EXCEPT !.heard = heard]
      BY <1>4 DEF AskControl
    <2> QED
      BY <2>1, HeardShape
  <1>5. CASE \E requireProof \in BOOLEAN : ProbeFrozen(requireProof)
    <2>1. (\E told : job' = Asking("probe", told)) \/ job' = [script |-> "probe down"]
      BY <1>5 DEF ProbeFrozen
    <2>2. JobShape([script |-> "probe down"])
      BY DEF JobShape
    <2> QED
      BY <2>1, <2>2, AskingShape
  <1>6. CASE AskSample \/ AskBaseline
    BY <1>6, AskRowShape DEF AskSample, AskBaseline
  <1>7. CASE WriteRows \/ FinishProbe \/ WriteBaseline
    <2>1. job' = Idle \/ \E p : job' = [script |-> "pairs", pairs |-> p]
      BY <1>7 DEF WriteRows, FinishProbe, WriteBaseline
    <2> QED
      BY <1>1, <2>1 DEF JobShape
  <1>8. CASE (\E skipBars \in BOOLEAN : Stage(skipBars)) \/ WriteMap
    <2>1. CASE \E skipBars \in BOOLEAN : Stage(skipBars)
      <3>1. \E known, occs, seed, skip :
                job' = [script |-> "map", known |-> known, occs |-> occs, master |-> seed,
                        skip |-> skip, rows |-> <<>>, heard |-> <<>>, torn |-> FALSE]
        BY <2>1 DEF Stage
      <3> QED
        BY <3>1 DEF JobShape
    <2>2. CASE WriteMap
      <3>1. \/ job' = Idle
            \/ \E todo, torn : job' = [script |-> "stage", todo |-> todo, row |-> 0,
                                       half |-> NoFile, torn |-> torn]
        BY <2>2 DEF WriteMap
      <3> QED
        BY <1>1, <3>1 DEF JobShape
    <2> QED
      BY <1>8, <2>1, <2>2
  <1>9. CASE AskOccupancy \/ ExportUnadjusted \/ \E i \in DOMAIN map : ExportTotalReturn(i)
    BY <1>9, AskOccupancyShape, ExportShape
  <1>10. CASE DetectEnvironment \/ ProbeBaseline
    <2>1. \/ job' = Idle \/ \E told : job' = Asking("baseline", told)
          \/ job' = [script |-> "detected", queryable |-> up]
      BY <1>10 DEF DetectEnvironment, ProbeBaseline
    <2>2. JobShape([script |-> "detected", queryable |-> up])
      BY DEF JobShape
    <2> QED
      BY <1>1, <2>1, <2>2, AskingShape
  <1>11. CASE \E expected \in {0, 2}, skip \in BOOLEAN : Validate(expected, skip)
    BY <1>11 DEF Validate
  <1> QED
    BY <1>2, <1>3, <1>4, <1>5, <1>6, <1>7, <1>8, <1>9, <1>10, <1>11 DEF Next

LEMMA ShapeHolds == Spec => []JobShape(job)
  <1>1. Init => JobShape(job)
    BY DEF Init, Idle, JobShape
  <1>2. JobShape(job) /\ [Next]_vars => JobShape(job)'
    BY ShapeStep
  <1> QED
    BY <1>1, <1>2, PTL DEF Spec

------------------------------------------------------------------------------
(* What the two probes leave on disk.                                       *)

\* Failing an identity changes nothing else of a row.
Failing(row, failed) ==
    /\ failed.asset = row.asset /\ failed.current = row.current
    /\ failed.delisted = row.delisted /\ failed.of = row.of
    /\ failed.identity = row.identity \/ failed.identity = "FAIL"

LEMMA RecycledRowsOf ==
    ASSUME NEW rows, DOMAIN rows = DOMAIN Samples, FrozenRows(rows)
    PROVE  LET filed == RecycleRules(rows) IN
           /\ DOMAIN filed = DOMAIN Samples
           /\ \A i \in DOMAIN filed : FrozenTrue(Samples[i], filed[i])
           /\ \A pair \in Recycled :
                  Collapsed(filed[pair[1]], filed[pair[2]]) => filed[pair[1]].identity = "FAIL"
  <1> DEFINE filed == RecycleRules(rows)
             Collapses(i) == \E pair \in Recycled :
                                pair[1] = i /\ Collapsed(rows[i], rows[pair[2]])
  <1>1. DOMAIN filed = DOMAIN Samples
    BY DEF RecycleRules
  <1>2. \A i \in DOMAIN Samples :
            filed[i] = IF Collapses(i) THEN [rows[i] EXCEPT !.identity = "FAIL"] ELSE rows[i]
    BY DEF RecycleRules
  <1>3. \A i \in DOMAIN Samples : Failing(rows[i], [rows[i] EXCEPT !.identity = "FAIL"])
                                  /\ [rows[i] EXCEPT !.identity = "FAIL"].identity = "FAIL"
    BY DEF FrozenRows, FrozenShape, Failing
  <1> HIDE DEF filed, Collapses
  <1>4. \A i \in DOMAIN Samples :
            /\ Failing(rows[i], filed[i])
            /\ Collapses(i) => filed[i].identity = "FAIL"
    <2> SUFFICES ASSUME NEW i \in DOMAIN Samples
                 PROVE  Failing(rows[i], filed[i]) /\ (Collapses(i) => filed[i].identity = "FAIL")
      OBVIOUS
    <2>1. CASE Collapses(i)
      BY <1>2, <1>3, <2>1
    <2>2. CASE ~ Collapses(i)
      BY <1>2, <2>2 DEF Failing
    <2> QED
      BY <2>1, <2>2
  <1>5. \A i \in DOMAIN filed : FrozenTrue(Samples[i], filed[i])
    BY <1>1, <1>4 DEF FrozenRows, FrozenTrue, Truthful, Failing
  <1>6. ASSUME NEW pair \in Recycled, Collapsed(filed[pair[1]], filed[pair[2]])
        PROVE  filed[pair[1]].identity = "FAIL"
    <2>1. pair[1] \in DOMAIN Samples /\ pair[2] \in DOMAIN Samples
      BY SampleAssumption DEF SampleAssumption
    <2>2. Collapsed(rows[pair[1]], rows[pair[2]])
      BY <1>4, <1>6, <2>1 DEF Failing, Collapsed, Or
    <2> QED
      BY <1>4, <2>1, <2>2 DEF Collapses
  <1> QED
    BY <1>1, <1>5, <1>6 DEF filed

LEMMA BaselineRowsOf ==
    ASSUME NEW rows, DOMAIN rows = DOMAIN Samples, LiveRows(rows)
    PROVE  LET filed == BaselineRecycleRules(rows) IN
           /\ DOMAIN filed = DOMAIN Samples
           /\ \A i \in DOMAIN Samples :
                 /\ Truthful(Samples[i], filed[i])
                 /\ filed[i].identity = "FAIL" =>
                      \/ filed[i].of # NoVendor => Denied(Vendors[filed[i].of], Samples[i])
                      \/ \E pair \in Recycled :
                            pair[1] = i /\ BaselineCollapsed(filed[i], filed[pair[2]])
  <1> DEFINE filed == BaselineRecycleRules(rows)
             Collapses(i) == \E pair \in Recycled :
                                pair[1] = i /\ BaselineCollapsed(rows[i], rows[pair[2]])
             SameAnswers(row, failed) == /\ failed.current = row.current
                                         /\ failed.delisted = row.delisted /\ failed.of = row.of
  <1>1. DOMAIN filed = DOMAIN Samples
    BY DEF BaselineRecycleRules
  <1>2. \A i \in DOMAIN Samples :
            filed[i] = IF Collapses(i) THEN [rows[i] EXCEPT !.identity = "FAIL"] ELSE rows[i]
    BY DEF BaselineRecycleRules
  <1>3. \A i \in DOMAIN Samples : SameAnswers(rows[i], [rows[i] EXCEPT !.identity = "FAIL"])
    BY DEF LiveRows, LiveShape
  <1> HIDE DEF filed, Collapses
  <1>4. \A i \in DOMAIN Samples :
            /\ SameAnswers(rows[i], filed[i])
            /\ ~ Collapses(i) => filed[i] = rows[i]
    BY <1>2, <1>3
  <1>5. ASSUME NEW i \in DOMAIN Samples
        PROVE  /\ Truthful(Samples[i], filed[i])
               /\ filed[i].identity = "FAIL" =>
                      \/ filed[i].of # NoVendor => Denied(Vendors[filed[i].of], Samples[i])
                      \/ \E pair \in Recycled :
                            pair[1] = i /\ BaselineCollapsed(filed[i], filed[pair[2]])
    <2>1. Truthful(Samples[i], filed[i])
      BY <1>4 DEF LiveRows, LiveTrue, Truthful
    <2>2. ASSUME Collapses(i)
          PROVE  \E pair \in Recycled : pair[1] = i /\ BaselineCollapsed(filed[i], filed[pair[2]])
      <3>1. PICK pair \in Recycled : pair[1] = i /\ BaselineCollapsed(rows[i], rows[pair[2]])
        BY <2>2 DEF Collapses
      <3>2. pair[2] \in DOMAIN Samples
        BY SampleAssumption, <3>1 DEF SampleAssumption
      <3>3. BaselineCollapsed(filed[i], filed[pair[2]])
        BY <1>4, <3>1, <3>2 DEF BaselineCollapsed
      <3> QED
        BY <3>1, <3>3
    <2>3. ASSUME ~ Collapses(i), filed[i].identity = "FAIL", filed[i].of # NoVendor
          PROVE  Denied(Vendors[filed[i].of], Samples[i])
      BY <1>4, <2>3 DEF LiveRows, LiveTrue
    <2> QED
      BY <2>1, <2>2, <2>3
  <1> QED
    BY <1>1, <1>5 DEF filed

\* A probe that has only just begun.
LEMMA AskingBegins ==
    ASSUME NEW script, NEW told
    PROVE  AskingTrue(Asking(script, told))
  <1> DEFINE j == Asking(script, told)
  <1>1. /\ j = [script |-> j.script, databases |-> j.databases, known |-> j.known,
                rows |-> j.rows, heard |-> j.heard, of |-> j.of]
        /\ j.rows = <<>> /\ j.heard = <<>>
    BY DEF Asking
  <1>2. Len(Questions(j)) \in 1 .. 3
    BY QuestionsOf DEF Questions
  <1> HIDE DEF j
  <1>3. /\ IsList(j.rows) /\ Len(j.rows) = 0 /\ DOMAIN j.rows = {}
        /\ IsList(j.heard) /\ Len(j.heard) = 0
    BY <1>1, EmptyList, Zenon
  <1>4. Len(Samples) \in Nat
    BY SampleAssumption DEF SampleAssumption
  <1>5. Len(j.heard) < Len(Questions(j)) /\ Len(j.rows) <= Len(Samples)
    <2> DEFINE m == Len(j.heard)
               n == Len(Questions(j))
               k == Len(j.rows)
    <2>1. m = 0 /\ n \in 1 .. 3 /\ k = 0
      BY <1>2, <1>3, Zenon
    <2> HIDE DEF m, n, k
    <2>2. m < n /\ k <= Len(Samples)
      BY <1>4, <2>1
    <2> QED
      BY <2>2, Zenon DEF m, n, k
  <1> QED
    BY <1>1, <1>3, <1>5 DEF AskingTrue, FrozenRows, LiveRows, j

LEMMA WriteRowsKeeps ==
    ASSUME ProbedInv, WriteRows
    PROVE  ProbedInv'
  <1>1. /\ job.script = "probe" /\ Len(job.rows) = Len(Samples)
        /\ frozen' = RecycleRules(job.rows) /\ UNCHANGED <<up, vendor, baseline>>
        /\ job' = [script |-> "pairs", pairs |-> ComparePairs(job.rows)]
    BY DEF WriteRows, world, inputs
  <1>2. AskingTrue(job)
    BY <1>1 DEF ProbedInv
  <1>3. DOMAIN job.rows = DOMAIN Samples /\ FrozenRows(job.rows)
    BY <1>1, <1>2, AppendOf, SampleAssumption DEF AskingTrue, SampleAssumption
  <1>4. FrozenFiled'
    BY <1>1, <1>3, RecycledRowsOf DEF FrozenFiled
  <1>5. job'.script \notin {"probe", "baseline"}
    BY <1>1
  <1>6. baseline'.verdict = "INSUFFICIENT" => BaselineFiled'
    BY <1>1 DEF ProbedInv, BaselineFiled
  <1> QED
    BY <1>1, <1>4, <1>5, <1>6 DEF ProbedInv

LEMMA WriteBaselineKeeps ==
    ASSUME ProbedInv, WriteBaseline
    PROVE  ProbedInv'
  <1> DEFINE rows == BaselineRecycleRules(job.rows)
  <1>1. /\ job.script = "baseline" /\ Len(job.rows) = Len(Samples)
        /\ baseline' = BuildPayload(rows, TRUE, TRUE)
        /\ UNCHANGED <<up, vendor, frozen>> /\ job' = Idle
    BY DEF WriteBaseline, world, inputs
  <1>2. AskingTrue(job)
    BY <1>1 DEF ProbedInv
  <1>3. DOMAIN job.rows = DOMAIN Samples /\ LiveRows(job.rows)
    BY <1>1, <1>2, AppendOf, SampleAssumption DEF AskingTrue, SampleAssumption
  <1>4. /\ DOMAIN rows = DOMAIN Samples
        /\ \A i \in DOMAIN Samples :
              /\ Truthful(Samples[i], rows[i])
              /\ rows[i].identity = "FAIL" =>
                   \/ rows[i].of # NoVendor => Denied(Vendors[rows[i].of], Samples[i])
                   \/ \E pair \in Recycled :
                         pair[1] = i /\ BaselineCollapsed(rows[i], rows[pair[2]])
    BY <1>3, BaselineRowsOf
  <1> HIDE DEF rows
  <1>5. baseline'.rows = rows /\ baseline'.known = [i \in DOMAIN rows |-> rows[i].identity]
    BY <1>1 DEF BuildPayload, KnownCaseResults
  <1>6. BaselineFiled'
    BY <1>4, <1>5 DEF BaselineFiled
  <1>7. job'.script \notin {"probe", "baseline"}
    BY <1>1 DEF Idle
  <1>8. frozen' # <<>> => FrozenFiled'
    BY <1>1 DEF ProbedInv, FrozenFiled
  <1> QED
    BY <1>1, <1>6, <1>7, <1>8 DEF ProbedInv

\* What is on disk is left alone, or emptied, or the baseline of the documents.
LEMMA DiskKeeps ==
    ASSUME ProbedInv, frozen' = frozen \/ frozen' = <<>>,
           baseline' = baseline \/ baseline'.verdict # "INSUFFICIENT",
           up' \in BOOLEAN, vendor' \in DOMAIN Vendors,
           job'.script \in {"probe", "baseline"} => AskingTrue(job')
    PROVE  ProbedInv'
  <1>1. frozen' # <<>> => FrozenFiled'
    BY DEF ProbedInv, FrozenFiled
  <1>2. baseline'.verdict = "INSUFFICIENT" => BaselineFiled'
    BY DEF ProbedInv, BaselineFiled
  <1> QED
    BY <1>1, <1>2 DEF ProbedInv

LEMMA LoseIs == ASSUME NEW lost, Lose(lost) PROVE up' \in BOOLEAN
  BY DEF Lose

\* The plan of a trial stays what it was.
LEMMA PlanHolds == Spec => [](plan \in Plans)
  <1>1. Init => plan \in Plans
    BY DEF Init
  <1>2. ASSUME [Next]_vars PROVE plan' = plan
    <2>1. CASE SwitchNdu \/ UpdateVendor \/ EditSeed \/ ReplaceSource \/ Crash \/ UNCHANGED vars
      BY <2>1 DEF SwitchNdu, UpdateVendor, EditSeed, ReplaceSource, Crash, vars, world, inputs
    <2>2. CASE ProvePackage \/ AskControl \/ WriteProof \/ AskSample \/ WriteRows \/ FinishProbe
      BY <2>2 DEF ProvePackage, AskControl, WriteProof, AskSample, WriteRows, FinishProbe,
                  world, inputs
    <2>3. CASE \/ \E requireProof \in BOOLEAN : ProbeFrozen(requireProof)
               \/ \E skipBars \in BOOLEAN : Stage(skipBars)
               \/ \E i \in DOMAIN map : ExportTotalReturn(i)
               \/ \E expected \in {0, 2}, skip \in BOOLEAN : Validate(expected, skip)
      BY <2>3 DEF ProbeFrozen, Stage, ExportTotalReturn, Validate, world, inputs
    <2>4. CASE AskOccupancy \/ WriteMap \/ ExportUnadjusted
      BY <2>4 DEF AskOccupancy, WriteMap, ExportUnadjusted, world, inputs
    <2>5. CASE DetectEnvironment \/ ProbeBaseline \/ AskBaseline \/ WriteBaseline
      BY <2>5 DEF DetectEnvironment, ProbeBaseline, AskBaseline, WriteBaseline, world, inputs
    <2> QED
      BY <1>2, <2>1, <2>2, <2>3, <2>4, <2>5 DEF Next
  <1>3. plan \in Plans /\ [Next]_vars => (plan \in Plans)'
    BY <1>2
  <1> QED
    BY <1>1, <1>3, PTL DEF Spec

LEMMA ProbedStep ==
    ASSUME ProbedInv, JobShape(job), plan \in Plans, [Next]_vars
    PROVE  ProbedInv'
  <1>0. up \in BOOLEAN /\ vendor \in DOMAIN Vendors
    BY DEF ProbedInv
  <1>1. CASE SwitchNdu \/ UpdateVendor \/ EditSeed \/ ReplaceSource \/ Crash \/ UNCHANGED vars
    <2>1. /\ frozen' = frozen /\ baseline' = baseline /\ up' \in BOOLEAN
          /\ vendor' \in DOMAIN Vendors
      BY <1>0, <1>1, PlansAssumption
         DEF SwitchNdu, UpdateVendor, EditSeed, ReplaceSource, Crash, Change, vars,
             world, inputs, artifacts
    <2>2. job' = job \/ job'.script \notin {"probe", "baseline"}
      <3>1. \/ job' = job \/ job' = Idle
            \/ job.script \in {"map", "stage"} /\ job' = [job EXCEPT !.torn = TRUE]
        BY <1>1 DEF SwitchNdu, UpdateVendor, EditSeed, ReplaceSource, Crash, vars
      <3> QED
        BY <3>1 DEF JobShape, Idle
    <2>3. job'.script \in {"probe", "baseline"} => AskingTrue(job')
      BY <2>2 DEF ProbedInv
    <2> QED
      BY <2>1, <2>3, DiskKeeps
  <1>2. CASE ProvePackage \/ WriteProof \/ AskControl
    <2>1. frozen' = frozen /\ baseline' = baseline /\ up' \in BOOLEAN /\ vendor' = vendor
      BY <1>0, <1>2, LoseIs DEF ProvePackage, WriteProof, AskControl, world, inputs, artifacts
    <2>2. job' = job \/ job'.script \notin {"probe", "baseline"}
      <3>1. CASE ProvePackage \/ WriteProof
        <4>1. job' = job \/ job' = Idle \/ \E told : job' = Asking("proof", told)
          BY <3>1 DEF ProvePackage, WriteProof
        <4> QED
          BY <4>1 DEF Idle, Asking
      <3>2. CASE AskControl
        <4>1. job.script = "proof" /\ \E heard : job' = [job EXCEPT !.heard = heard]
          BY <3>2 DEF AskControl
        <4> QED
          BY <4>1, HeardShape
      <3> QED
        BY <1>2, <3>1, <3>2
    <2>3. job'.script \in {"probe", "baseline"} => AskingTrue(job')
      BY <2>2 DEF ProbedInv
    <2> QED
      BY <1>0, <2>1, <2>3, DiskKeeps
  <1>3. CASE \E requireProof \in BOOLEAN : ProbeFrozen(requireProof)
    <2>1. frozen' = frozen /\ baseline' = baseline /\ up' \in BOOLEAN /\ vendor' = vendor
      BY <1>0, <1>3, LoseIs DEF ProbeFrozen, inputs
    <2>2. (\E told : job' = Asking("probe", told)) \/ job' = [script |-> "probe down"]
      BY <1>3 DEF ProbeFrozen
    <2>3. job'.script \in {"probe", "baseline"} => AskingTrue(job')
      <3>1. [script |-> "probe down"].script = "probe down"
        OBVIOUS
      <3> QED
        BY <2>2, <3>1, AskingBegins
    <2> QED
      BY <1>0, <2>1, <2>3, DiskKeeps
  <1>4. CASE AskSample \/ AskBaseline
    <2>1. /\ job.script \in {"probe", "baseline"} /\ Len(job.rows) < Len(Samples)
          /\ AskRow(Questions(job), Samples[Len(job.rows) + 1])
      BY <1>4 DEF AskSample, AskBaseline, Questions
    <2>2. AskingTrue(job')
      BY <2>1, AskRowKeeps
    <2>3. frozen' = frozen /\ baseline' = baseline /\ vendor' = vendor
      BY <1>4 DEF AskSample, AskBaseline, inputs, artifacts
    <2>4. up' \in BOOLEAN
      BY <2>1, LoseIs DEF AskRow
    <2> QED
      BY <1>0, <2>2, <2>3, <2>4, DiskKeeps
  <1>5. CASE WriteRows
    BY <1>5, WriteRowsKeeps
  <1>6. CASE FinishProbe
    <2>1. /\ frozen' = frozen \/ frozen' = <<>>
          /\ baseline' = baseline /\ up' = up /\ vendor' = vendor /\ job' = Idle
      BY <1>6 DEF FinishProbe, RowsWithoutNdu, world, inputs
    <2>2. Idle.script \notin {"probe", "baseline"}
      BY DEF Idle
    <2> QED
      BY <1>0, <2>1, <2>2, DiskKeeps
  <1>7. CASE (\E skipBars \in BOOLEAN : Stage(skipBars)) \/ AskOccupancy \/ WriteMap
    <2>1. frozen' = frozen /\ baseline' = baseline /\ up' \in BOOLEAN /\ vendor' = vendor
      BY <1>0, <1>7, LoseIs DEF Stage, AskOccupancy, WriteMap, world, inputs, artifacts
    <2>2. job'.script \notin {"probe", "baseline"}
      <3>1. CASE \E skipBars \in BOOLEAN : Stage(skipBars)
        <4>1. \E known, occs, seed, skip :
                  job' = [script |-> "map", known |-> known, occs |-> occs, master |-> seed,
                          skip |-> skip, rows |-> <<>>, heard |-> <<>>, torn |-> FALSE]
          BY <3>1 DEF Stage
        <4> QED
          BY <4>1
      <3>2. CASE WriteMap
        <4>1. \/ job' = Idle
              \/ \E todo, torn : job' = [script |-> "stage", todo |-> todo, row |-> 0,
                                         half |-> NoFile, torn |-> torn]
          BY <3>2 DEF WriteMap
        <4> QED
          BY <4>1 DEF Idle
      <3>3. CASE AskOccupancy
        BY <3>3, AskOccupancyShape
      <3> QED
        BY <1>7, <3>1, <3>2, <3>3
    <2> QED
      BY <1>0, <2>1, <2>2, DiskKeeps
  <1>8. CASE ExportUnadjusted \/ \E i \in DOMAIN map : ExportTotalReturn(i)
    <2>1. frozen' = frozen /\ baseline' = baseline /\ up' \in BOOLEAN /\ vendor' = vendor
      BY <1>0, <1>8, LoseIs DEF ExportUnadjusted, ExportTotalReturn, world, inputs
    <2>2. job'.script \notin {"probe", "baseline"}
      BY <1>8, ExportShape
    <2> QED
      BY <1>0, <2>1, <2>2, DiskKeeps
  <1>9. CASE DetectEnvironment \/ ProbeBaseline
    <2>1. frozen' = frozen /\ up' \in BOOLEAN /\ vendor' = vendor
      BY <1>0, <1>9, LoseIs DEF DetectEnvironment, ProbeBaseline, world, inputs, artifacts
    <2>2. baseline' = baseline \/ baseline'.verdict # "INSUFFICIENT"
      <3>1. \/ baseline' = baseline
            \/ baseline' = BuildPayload(DocsRows, job.queryable, FALSE)
        BY <1>9 DEF DetectEnvironment, ProbeBaseline, artifacts
      <3>2. BuildPayload(DocsRows, job.queryable, FALSE).verdict # "INSUFFICIENT"
        BY DEF BuildPayload
      <3> QED
        BY <3>1, <3>2
    <2>3. \/ job' = Idle \/ \E told : job' = Asking("baseline", told)
          \/ job' = [script |-> "detected", queryable |-> up]
      BY <1>9 DEF DetectEnvironment, ProbeBaseline
    <2>4. job'.script \in {"probe", "baseline"} => AskingTrue(job')
      BY <2>3, AskingBegins DEF Idle
    <2> QED
      BY <1>0, <2>1, <2>2, <2>4, DiskKeeps
  <1>10. CASE WriteBaseline
    BY <1>10, WriteBaselineKeeps
  <1>11. CASE \E expected \in {0, 2}, skip \in BOOLEAN : Validate(expected, skip)
    <2>1. UNCHANGED <<frozen, baseline, up, vendor, job>>
      BY <1>11 DEF Validate, world, inputs
    <2> QED
      BY <1>0, <2>1, DiskKeeps DEF ProbedInv
  <1> QED
    BY <1>1, <1>2, <1>3, <1>4, <1>5, <1>6, <1>7, <1>8, <1>9, <1>10, <1>11 DEF Next

LEMMA ProbedHolds == Spec => []ProbedInv
  <1>1. Init => ProbedInv
    <2>1. Idle.script = "none"
      BY DEF Idle
    <2> QED
      BY <2>1, PlansAssumption DEF Init, ProbedInv
  <1> QED
    BY <1>1, ProbedStep, ShapeHolds, PlanHolds, PTL DEF Spec

\* An identity the baseline probe failed, the frozen re-probe fails, where one vendor
\* answered both in full for the row and for the one it is compared with: the re-probe's
\* rules are those of probe_vendor_coverage.py, and more.
THEOREM ReprobeStaysStrict == Spec => []ReprobeIsStricter
  <1>1. ASSUME ProbedInv, baseline.verdict = "INSUFFICIENT", frozen # <<>>, NEW i \in DOMAIN frozen,
               NEW v \in DOMAIN Vendors,
               \A k \in {i} \cup {pair[2] : pair \in {p \in Recycled : p[1] = i}} :
                   baseline.rows[k].of = v /\ frozen[k].of = v,
               baseline.known[i] = "FAIL"
        PROVE  frozen[i].identity = "FAIL"
    <2>1. FrozenFiled /\ BaselineFiled /\ v # NoVendor /\ i \in DOMAIN Samples
      BY <1>1, NoVendorAssumption DEF ProbedInv, FrozenFiled, NoVendorAssumption
    <2>2. baseline.rows[i].of = v /\ frozen[i].of = v /\ FrozenTrue(Samples[i], frozen[i])
      BY <1>1, <2>1 DEF FrozenFiled
    <2>3. CASE Denied(Vendors[v], Samples[i])
      BY <2>1, <2>2, <2>3 DEF FrozenTrue
    <2>4. CASE \E pair \in Recycled :
                  pair[1] = i /\ BaselineCollapsed(baseline.rows[i], baseline.rows[pair[2]])
      <3>1. PICK pair \in Recycled :
                pair[1] = i /\ BaselineCollapsed(baseline.rows[i], baseline.rows[pair[2]])
        BY <2>4
      <3> DEFINE k == pair[2]
      <3>2. baseline.rows[k].of = v /\ frozen[k].of = v
        BY <1>1, <3>1
      <3>3. k \in DOMAIN Samples
        BY <3>1, SampleAssumption DEF SampleAssumption
      <3> HIDE DEF k
      <3>4. /\ Truthful(Samples[i], baseline.rows[i]) /\ Truthful(Samples[k], baseline.rows[k])
            /\ Truthful(Samples[i], frozen[i]) /\ Truthful(Samples[k], frozen[k])
        BY <2>1, <3>3 DEF BaselineFiled, FrozenFiled, FrozenTrue
      <3>5. /\ baseline.rows[i].delisted = frozen[i].delisted
            /\ baseline.rows[k].current = frozen[k].current
        BY <2>1, <2>2, <3>2, <3>4 DEF Truthful
      <3>6. Collapsed(frozen[i], frozen[k])
        BY <3>1, <3>5 DEF Collapsed, BaselineCollapsed, Or, k
      <3> QED
        BY <2>1, <3>1, <3>6 DEF FrozenFiled, k
    <2> QED
      BY <1>1, <2>1, <2>2, <2>3, <2>4 DEF BaselineFiled
  <1>2. ProbedInv => ReprobeIsStricter
    BY <1>1 DEF ReprobeIsStricter
  <1> QED
    BY <1>2, ProbedHolds, PTL

------------------------------------------------------------------------------
(* What a verdict is drawn from.                                            *)

LEMMA GatesOf ==
    ASSUME NEW expected, NEW skip
    PROVE  LET gates == Gates(expected, skip) IN
           /\ gates.P0 = IF proof = "absent" THEN "NOT_TESTABLE" ELSE proof
           /\ gates.F1 = GateF1 /\ "F1" \in DOMAIN gates
  BY DEF Gates

LEMMA VerdictOf ==
    ASSUME NEW gates, "F1" \in DOMAIN gates
    PROVE  LET v == BuildVerdict(gates) IN
           /\ v.value # "NOT_TESTABLE" =>
                  gates.P0 # "NOT_TESTABLE" /\ gates.F1 # "NOT_TESTABLE"
           /\ v.ready => gates.F1 = "PASS"
  BY DEF BuildVerdict, Ready, MustPass

LEMMA F1Of ==
    /\ GateF1 # "NOT_TESTABLE" => frozen # <<>>
    /\ GateF1 = "PASS" =>
           frozen # <<>> /\ \A i \in DOMAIN frozen : frozen[i].identity # "FAIL"
  BY DEF GateF1

LEMMA OnlyValidateDraws ==
    ASSUME [Next]_vars, verdict' # verdict
    PROVE  \E expected \in {0, 2}, skip \in BOOLEAN : Validate(expected, skip)
  BY DEF Next, vars, world, artifacts, SwitchNdu, UpdateVendor, EditSeed, ReplaceSource, Crash,
         Change, ProvePackage, AskControl, WriteProof, ProbeFrozen, AskSample, WriteRows,
         FinishProbe, Stage, AskOccupancy, WriteMap, ExportTotalReturn, ExportUnadjusted,
         DetectEnvironment, ProbeBaseline, AskBaseline, WriteBaseline

LEMMA EvidenceStep ==
    ASSUME EvidenceInv, [Next]_vars
    PROVE  EvidenceInv'
  <1>1. CASE ProvePackage \/ WriteProof
    BY <1>1 DEF EvidenceInv, ProvePackage, WriteProof
  <1>2. CASE WriteRows \/ FinishProbe
    BY <1>2 DEF EvidenceInv, WriteRows, FinishProbe, RowsWithoutNdu
  <1>3. CASE ~ (ProvePackage \/ WriteProof \/ WriteRows \/ FinishProbe)
    <2>1. UNCHANGED <<proof, frozen, live>>
      BY <1>3 DEF Next, vars, world, artifacts, SwitchNdu, UpdateVendor, EditSeed, ReplaceSource,
                  Crash, Change, AskControl, ProbeFrozen, AskSample, Stage, AskOccupancy, WriteMap,
                  ExportTotalReturn, ExportUnadjusted, Validate, DetectEnvironment,
                  ProbeBaseline, AskBaseline, WriteBaseline
    <2> QED
      BY <2>1 DEF EvidenceInv
  <1> QED
    BY <1>1, <1>2, <1>3

LEMMA EvidenceHolds == Spec => []EvidenceInv
  <1>1. Init => EvidenceInv
    BY DEF Init, EvidenceInv
  <1> QED
    BY <1>1, EvidenceStep, PTL DEF Spec

\* A verdict that says more than NOT_TESTABLE is only drawn while the package proof and
\* the frozen sample on disk are those of runs that began with the updater running
\* (gate_p0, gate_f1, build_verdict), in whatever order the scripts ran and died.
THEOREM VerdictsStartedLive == Spec => StartedLive
  <1> DEFINE Drawn == verdict' # verdict /\ verdict'.value # "NOT_TESTABLE" =>
                          {"proof", "probe"} \subseteq live
  <1>1. ASSUME EvidenceInv, NEW expected, NEW skip, Validate(expected, skip)
        PROVE  Drawn
    <2>1. PICK need : verdict' = BuildVerdict(Gates(need, skip))
      BY <1>1 DEF Validate
    <2>2. verdict'.value # "NOT_TESTABLE" => proof \notin {"absent", "NOT_TESTABLE"} /\ frozen # <<>>
      BY <2>1, GatesOf, VerdictOf, F1Of
    <2> QED
      BY <1>1, <2>2 DEF EvidenceInv
  <1>2. EvidenceInv /\ [Next]_vars => [Drawn]_vars
    BY <1>1, OnlyValidateDraws
  <1> QED
    BY <1>2, EvidenceHolds, PTL DEF Spec, StartedLive

\* A ready verdict tells the two holders of a recycled ticker apart wherever both are on
\* record, and takes no row one vendor answered in full for its acquirer: what gate_f1
\* lets pass, by apply_recycle_identity_rules and classify_frozen_row.
THEOREM ReadyIsIdentified == Spec => ReadyIdentities
  <1> DEFINE Apart == \A pair \in Recycled :
                 LET old == frozen[pair[1]]
                     new == frozen[pair[2]]
                 IN {old.asset, old.delisted} \cap {new.asset, new.current} \subseteq {NoAsset}
             Unaliased == \A i \in DOMAIN frozen :
                 LET row == frozen[i]
                 IN row.of # NoVendor /\ row.asset # NoAsset =>
                       StemOf(Vendors[row.of].asset[row.asset].symbol) \notin MustNotAlias(Samples[i])
             Identified == verdict' # verdict /\ verdict'.ready => Apart /\ Unaliased
  <1>1. ASSUME ProbedInv, NEW expected, NEW skip, Validate(expected, skip), verdict'.ready
        PROVE  Apart /\ Unaliased
    <2>1. PICK need : verdict' = BuildVerdict(Gates(need, skip))
      BY <1>1 DEF Validate
    <2>2. frozen # <<>> /\ \A i \in DOMAIN frozen : frozen[i].identity # "FAIL"
      BY <1>1, <2>1, GatesOf, VerdictOf, F1Of
    <2>3. FrozenFiled
      BY <1>1, <2>2 DEF ProbedInv
    <2>4. Unaliased
      BY <2>2, <2>3 DEF FrozenFiled, FrozenTrue
    <2>5. ASSUME NEW pair \in Recycled
          PROVE  LET old == frozen[pair[1]]
                     new == frozen[pair[2]]
                 IN {old.asset, old.delisted} \cap {new.asset, new.current} \subseteq {NoAsset}
      <3> DEFINE old == frozen[pair[1]]
                 new == frozen[pair[2]]
      <3>1. /\ pair[1] \in DOMAIN frozen /\ pair[2] \in DOMAIN frozen
            /\ Samples[pair[2]].suffix = NoSymbol
        BY <2>3, SampleAssumption DEF SampleAssumption, FrozenFiled
      <3>2. ~ Collapsed(old, new)
        BY <2>2, <2>3, <3>1 DEF FrozenFiled
      <3>3. old.delisted # NoAsset => old.asset = old.delisted
        BY <2>3, <3>1 DEF FrozenFiled, FrozenTrue
      <3>4. new.asset = new.current
        BY <2>3, <3>1 DEF FrozenFiled, FrozenTrue
      <3> HIDE DEF old, new
      <3>5. {old.asset, old.delisted} \cap {new.asset, new.current} \subseteq {NoAsset}
        BY <3>2, <3>3, <3>4 DEF Collapsed, Or
      <3> QED
        BY <3>5 DEF old, new
    <2> QED
      BY <2>4, <2>5
  <1>2. ProbedInv /\ [Next]_vars => [Identified]_vars
    BY <1>1, OnlyValidateDraws
  <1> QED
    BY <1>2, ProbedHolds, PTL DEF Spec, ReadyIdentities

------------------------------------------------------------------------------
(* What is mapped and what is filed.                                        *)

LEMMA FileKeeps ==
    ASSUME FilesShape, FilesAreTheirAsset, NEW dir \in Dirs, NEW asset, NEW series,
           File(dir, asset, series),
           series = [of |-> series.of, days |-> series.days, bad |-> series.bad,
                     adjusted |-> series.adjusted],
           job.torn \/ (asset \in Assets /\ series.days # {} => series.of = asset)
    PROVE  (FilesShape /\ FilesAreTheirAsset)'
  <1> DEFINE written == [series EXCEPT !.of = IF job.torn THEN asset ELSE @]
  <1>1. files' = [files EXCEPT ![dir][asset] = written]
    BY DEF File
  <1>2. written.days = series.days /\ (asset \in Assets /\ series.days # {} => written.of = asset)
    OBVIOUS
  <1> HIDE DEF written
  <1>3. \A d \in Dirs, a \in Assets :
            files'[d][a] = IF d = dir /\ a = asset THEN written ELSE files[d][a]
    BY <1>1 DEF FilesShape
  <1>4. files' = [d \in Dirs |-> [a \in Assets |-> files'[d][a]]]
    BY <1>1 DEF FilesShape
  <1>5. DOMAIN files = Dirs /\ DOMAIN files' = Dirs
    BY <1>4 DEF FilesShape
  <1> QED
    BY <1>2, <1>3, <1>4, <1>5 DEF FilesShape, FilesAreTheirAsset

\* A series is the listed asset's, and has the shape of one.
LEMMA SeriesOf ==
    ASSUME NEW v, NEW u, NEW s, NEW occ
    PROVE  LET series == Series(v, u, s, occ) IN
           /\ series.days # {} => series.of = v.listing[s]
           /\ series = [of |-> series.of, days |-> series.days, bad |-> series.bad,
                        adjusted |-> series.adjusted]
  BY DEF Series, NoBars

LEMMA MappingListed ==
    ASSUME NEW occ, NEW seed, NEW heard, IsList(heard), heard # <<>>,
           \A k \in DOMAIN heard : Listed(heard[k])
    PROVE  RowListed(MapOccupancy(occ, seed, heard))
  <1> DEFINE row == MapOccupancy(occ, seed, heard)
  <1>1. \/ row = MappedTo(occ, NotFound, "none")
        \/ \E k \in DOMAIN heard : \E source : row = MappedTo(occ, heard[k], source)
    <2>1. CASE TakesCurrent(occ, seed, heard)
      <3>1. 1 \in DOMAIN heard
        BY <2>1, NothingIsFound DEF TakesCurrent, Heard
      <3> QED
        BY <2>1, <3>1 DEF MapOccupancy
    <2>2. CASE ~ TakesCurrent(occ, seed, heard) /\ TakesCandidate(occ, heard)
      <3>1. Len(heard) \in DOMAIN heard
        <4>1. DOMAIN heard = 1 .. Len(heard) /\ Len(heard) \in Nat
          BY AppendOf
        <4>2. Len(heard) > 1
          BY <2>2 DEF TakesCandidate
        <4> QED
          BY <4>1, <4>2
      <3> QED
        BY <2>2, <3>1 DEF MapOccupancy
    <2>3. CASE ~ TakesCurrent(occ, seed, heard) /\ ~ TakesCandidate(occ, heard)
      BY <2>3 DEF MapOccupancy
    <2> QED
      BY <2>1, <2>2, <2>3
  <1> HIDE DEF row
  <1>2. CASE row = MappedTo(occ, NotFound, "none")
    <2>1. ~ Mapped(row)
      BY <1>2, NothingIsFound DEF MappedTo, Mapped
    <2> QED
      BY <2>1 DEF RowListed, row
  <1>3. CASE \E k \in DOMAIN heard : \E source : row = MappedTo(occ, heard[k], source)
    <2>1. PICK k \in DOMAIN heard : \E source : row = MappedTo(occ, heard[k], source)
      BY <1>3
    <2>2. PICK source : row = MappedTo(occ, heard[k], source)
      BY <2>1
    <2>3. row.asset = heard[k].id /\ row.symbol = heard[k].symbol
      BY <2>2 DEF MappedTo
    <2>4. RowListed(row)
      BY <2>1, <2>3 DEF RowListed, Listed, Mapped, Found
    <2> QED
      BY <2>4 DEF row
  <1> QED
    BY <1>1, <1>2, <1>3

LEMMA AskOccupancyKeeps ==
    ASSUME FilingInv, up \in BOOLEAN, AskOccupancy
    PROVE  FilingInv'
  <1>1. Mapping /\ job.script = "map" /\ UNCHANGED <<vendor, files, map>>
    BY DEF AskOccupancy, FilingInv, inputs, artifacts
  <1> DEFINE occ == job.occs[Len(job.rows) + 1]
             asked == StillToAsk(occ, job.master, job.known, job.heard)[1]
  <1>2. PICK told \in Answers(asked) :
            LET heard == Append(job.heard, told.hit)
            IN job' = IF StillToAsk(occ, job.master, job.known, heard) = <<>>
                      THEN [job EXCEPT !.rows = Append(@, MapOccupancy(occ, job.master, heard)),
                                       !.heard = <<>>]
                      ELSE [job EXCEPT !.heard = heard]
    BY DEF AskOccupancy
  <1> DEFINE heard == Append(job.heard, told.hit)
             row == MapOccupancy(occ, job.master, heard)
             rows == Append(job.rows, row)
  <1>3. Listed(told.hit)
    BY AnswerIsListed DEF FilingInv
  <1> HIDE DEF occ, asked
  <1>4. IsList(job.heard) /\ IsList(job.rows)
    BY <1>1 DEF Mapping
  <1>5. IsList(heard) /\ heard # <<>>
    BY <1>4, AppendOf
  <1>6. \A k \in DOMAIN heard : (k \in DOMAIN job.heard /\ heard[k] = job.heard[k])
                                \/ heard[k] = told.hit
    BY <1>4, AppendKeeps
  <1> HIDE DEF heard
  <1>7. job.torn \/ \A k \in DOMAIN heard : Listed(heard[k])
    BY <1>1, <1>3, <1>6 DEF Mapping
  <1>8. job.torn \/ RowListed(row)
    BY <1>5, <1>7, MappingListed
  <1> HIDE DEF row
  <1>9. IsList(rows)
    BY <1>4, AppendOf
  <1>10. \A k \in DOMAIN rows : (k \in DOMAIN job.rows /\ rows[k] = job.rows[k]) \/ rows[k] = row
    BY <1>4, AppendKeeps
  <1> HIDE DEF rows
  <1>11. job.torn \/ \A k \in DOMAIN rows : RowListed(rows[k])
    BY <1>1, <1>8, <1>10 DEF Mapping
  <1>12. Mapping'
    <2>1. CASE StillToAsk(occ, job.master, job.known, heard) = <<>>
      <3>1. job' = [script |-> "map", known |-> job.known, occs |-> job.occs, master |-> job.master,
                    skip |-> job.skip, rows |-> rows, heard |-> <<>>, torn |-> job.torn]
        BY <1>1, <1>2, <2>1 DEF Mapping, heard, rows, row
      <3>2. /\ job' = [script |-> "map", known |-> job'.known, occs |-> job'.occs,
                       master |-> job'.master, skip |-> job'.skip, rows |-> job'.rows,
                       heard |-> job'.heard, torn |-> job'.torn]
            /\ job'.rows = rows /\ job'.heard = <<>> /\ job'.torn = job.torn
        BY <3>1
      <3>3. IsList(job'.heard) /\ DOMAIN job'.heard = {}
        BY <3>2, EmptyList, Zenon
      <3> QED
        BY <1>1, <1>9, <1>11, <3>2, <3>3 DEF Mapping, RowListed, Told
    <2>2. CASE StillToAsk(occ, job.master, job.known, heard) # <<>>
      <3>1. job' = [script |-> "map", known |-> job.known, occs |-> job.occs, master |-> job.master,
                    skip |-> job.skip, rows |-> job.rows, heard |-> heard, torn |-> job.torn]
        BY <1>1, <1>2, <2>2 DEF Mapping, heard
      <3>2. /\ job' = [script |-> "map", known |-> job'.known, occs |-> job'.occs,
                       master |-> job'.master, skip |-> job'.skip, rows |-> job'.rows,
                       heard |-> job'.heard, torn |-> job'.torn]
            /\ job'.rows = job.rows /\ job'.heard = heard /\ job'.torn = job.torn
        BY <3>1
      <3> QED
        BY <1>1, <1>5, <1>7, <3>2 DEF Mapping, RowListed, Listed, Told
    <2> QED
      BY <2>1, <2>2
  <1>13. job'.script = "map"
    BY <1>12 DEF Mapping
  <1> QED
    BY <1>1, <1>12, <1>13 DEF FilingInv, FilesShape, FilesAreTheirAsset

LEMMA WriteMapKeeps ==
    ASSUME FilingInv, WriteMap
    PROVE  FilingInv'
  <1>1. /\ Mapping /\ map' = job.rows /\ UNCHANGED <<vendor, files>>
        /\ \/ job' = Idle
           \/ job' = [script |-> "stage", todo |-> FirstsOf(job.rows), row |-> 0,
                      half |-> NoFile, torn |-> job.torn]
    BY DEF WriteMap, FilingInv, world, inputs
  <1>2. Idle.script \notin {"map", "stage"}
    BY DEF Idle
  <1>3. NoFile.days = {} /\ NoFile = [of |-> NoFile.of, days |-> NoFile.days, bad |-> NoFile.bad,
                                      adjusted |-> NoFile.adjusted]
    BY DEF NoFile, NoBars
  <1>4. ASSUME job' = [script |-> "stage", todo |-> FirstsOf(job.rows), row |-> 0,
                       half |-> NoFile, torn |-> job.torn]
        PROVE  Exporting' /\ job'.script = "stage"
    <2>1. job.torn \/ \A i \in DOMAIN map' : RowListed(map'[i])
      BY <1>1 DEF Mapping
    <2>2. /\ job' = [script |-> "stage", todo |-> job'.todo, row |-> job'.row, half |-> job'.half,
                     torn |-> job'.torn]
          /\ job'.script = "stage" /\ job'.half = NoFile /\ job'.torn = job.torn
      BY <1>4
    <2> QED
      BY <1>1, <1>3, <2>1, <2>2 DEF Exporting, RowListed, Told
  <1> QED
    BY <1>1, <1>2, <1>4 DEF FilingInv, FilesShape, FilesAreTheirAsset

LEMMA TotalReturnKeeps ==
    ASSUME FilingInv, NEW i \in DOMAIN map, ExportTotalReturn(i)
    PROVE  FilingInv'
  <1> DEFINE row == map[i]
             series == Series(Told, up, FetchSymbol(row), row.occ)
  <1>1. PICK lost \in BOOLEAN :
            /\ File("totalreturn", row.asset, series) /\ Exporting
            /\ job' = [script |-> "stage", todo |-> job.todo \ {i}, row |-> i,
                       half |-> IF lost THEN NoBars ELSE Unadjusted(series), torn |-> job.torn]
            /\ UNCHANGED <<vendor, map>>
    BY DEF ExportTotalReturn, FilingInv, inputs
  <1> DEFINE half == IF lost THEN NoBars ELSE Unadjusted(series)
  <1>2. /\ series.days # {} => series.of = Told.listing[row.symbol]
        /\ series = [of |-> series.of, days |-> series.days, bad |-> series.bad,
                     adjusted |-> series.adjusted]
    BY SeriesOf DEF FetchSymbol
  <1> HIDE DEF series
  <1>3. /\ half = [of |-> half.of, days |-> half.days, bad |-> half.bad, adjusted |-> half.adjusted]
        /\ half.days # {} => half.days = series.days /\ half.of = series.of
    BY DEF Unadjusted, NoBars
  <1> HIDE DEF half
  <1>4. job.torn \/ (Mapped(row) /\ series.days # {} => series.of = row.asset)
    BY <1>1, <1>2 DEF Exporting, RowListed
  <1>5. row.asset \in Assets => Mapped(row)
    BY AssetsAssumption DEF AssetsAssumption, Mapped
  <1>6. "totalreturn" \in Dirs
    BY DEF Dirs
  <1>7. (FilesShape /\ FilesAreTheirAsset)'
    BY <1>1, <1>2, <1>4, <1>5, <1>6, FileKeeps DEF FilingInv
  <1>8. Exporting'
    <2>1. /\ job' = [script |-> "stage", todo |-> job'.todo, row |-> job'.row, half |-> job'.half,
                     torn |-> job'.torn]
          /\ job'.row = i /\ job'.half = half /\ job'.torn = job.torn
      BY <1>1 DEF half
    <2>2. job.torn \/ \A k \in DOMAIN map : RowListed(map[k])
      BY <1>1 DEF Exporting
    <2> QED
      BY <1>1, <1>3, <1>4, <2>1, <2>2 DEF Exporting, RowListed, Mapped, Told
  <1>9. job'.script = "stage"
    BY <1>1
  <1> QED
    BY <1>1, <1>7, <1>8, <1>9 DEF FilingInv

LEMMA UnadjustedKeeps ==
    ASSUME FilingInv, ExportUnadjusted
    PROVE  FilingInv'
  <1>1. /\ File("unadjusted", map[job.row].asset, job.half) /\ Exporting
        /\ job' = Idle \/ job' = [job EXCEPT !.half = NoFile]
        /\ UNCHANGED <<vendor, map>>
    BY DEF ExportUnadjusted, FilingInv, world, inputs
  <1>2. "unadjusted" \in Dirs
    BY DEF Dirs
  <1>3. map[job.row].asset \in Assets => Mapped(map[job.row])
    BY AssetsAssumption DEF AssetsAssumption, Mapped
  <1>4. (FilesShape /\ FilesAreTheirAsset)'
    BY <1>1, <1>2, <1>3, FileKeeps DEF FilingInv, Exporting
  <1>5. Idle.script \notin {"map", "stage"}
    BY DEF Idle
  <1>6. NoFile.days = {} /\ NoFile = [of |-> NoFile.of, days |-> NoFile.days,
                                      bad |-> NoFile.bad, adjusted |-> NoFile.adjusted]
    BY DEF NoFile, NoBars
  <1>7. ASSUME job' = [job EXCEPT !.half = NoFile]
        PROVE  Exporting' /\ job'.script = "stage"
    <2>1. job' = [script |-> "stage", todo |-> job.todo, row |-> job.row, half |-> NoFile,
                  torn |-> job.torn]
      BY <1>1, <1>7 DEF Exporting
    <2>2. /\ job' = [script |-> "stage", todo |-> job'.todo, row |-> job'.row, half |-> job'.half,
                     torn |-> job'.torn]
          /\ job'.script = "stage" /\ job'.half = NoFile /\ job'.torn = job.torn
      BY <2>1
    <2> QED
      BY <1>1, <1>6, <2>2 DEF Exporting, RowListed, Told
  <1> QED
    BY <1>1, <1>4, <1>5, <1>7 DEF FilingInv

\* A change around the scripts: only the vendor's own tears an export.
LEMMA ChangeKeeps ==
    ASSUME FilingInv, plan \in Plans,
           SwitchNdu \/ UpdateVendor \/ EditSeed \/ ReplaceSource \/ Crash
    PROVE  FilingInv'
  <1>1. UNCHANGED <<map, files>>
    BY DEF SwitchNdu, UpdateVendor, EditSeed, ReplaceSource, Crash, Change, artifacts
  <1>2. CASE UpdateVendor
    <2>1. vendor' \in DOMAIN Vendors
      BY <1>2, PlansAssumption DEF UpdateVendor
    <2>2. CASE job.script = "stage"
      <3>1. job' = [script |-> "stage", todo |-> job.todo, row |-> job.row,
                    half |-> job.half, torn |-> TRUE]
        BY <1>2, <2>2 DEF UpdateVendor, FilingInv, Exporting
      <3>2. Exporting'
        BY <1>1, <2>2, <3>1 DEF FilingInv, Exporting
      <3>3. job'.script = "stage"
        BY <3>1
      <3> QED
        BY <1>1, <2>1, <3>2, <3>3 DEF FilingInv, FilesShape, FilesAreTheirAsset
    <2>3. CASE job.script = "map"
      <3>1. job' = [script |-> "map", known |-> job.known, occs |-> job.occs, master |-> job.master,
                    skip |-> job.skip, rows |-> job.rows, heard |-> job.heard, torn |-> TRUE]
        BY <1>2, <2>3 DEF UpdateVendor, FilingInv, Mapping
      <3>2. /\ job' = [script |-> "map", known |-> job'.known, occs |-> job'.occs,
                       master |-> job'.master, skip |-> job'.skip, rows |-> job'.rows,
                       heard |-> job'.heard, torn |-> job'.torn]
            /\ job'.script = "map" /\ job'.torn /\ job'.rows = job.rows /\ job'.heard = job.heard
        BY <3>1
      <3>3. Mapping'
        BY <2>3, <3>2 DEF FilingInv, Mapping
      <3> QED
        BY <1>1, <2>1, <3>2, <3>3 DEF FilingInv, FilesShape, FilesAreTheirAsset
    <2>4. CASE job.script \notin {"map", "stage"}
      BY <1>1, <1>2, <2>1, <2>4 DEF UpdateVendor, FilingInv, FilesShape, FilesAreTheirAsset
    <2> QED
      BY <2>2, <2>3, <2>4
  <1>3. CASE ~ UpdateVendor
    <2>1. vendor' = vendor /\ (job' = job \/ job' = Idle) /\ Idle.script \notin {"map", "stage"}
      BY <1>3 DEF SwitchNdu, EditSeed, ReplaceSource, Crash, Change, Idle, inputs
    <2>2. CASE job' = Idle
      BY <1>1, <2>1, <2>2 DEF FilingInv, FilesShape, FilesAreTheirAsset
    <2>3. CASE job' = job
      BY <1>1, <2>1, <2>3 DEF FilingInv, FilesShape, FilesAreTheirAsset, Exporting, Mapping,
                              RowListed, Listed, Told
    <2> QED
      BY <2>1, <2>2, <2>3
  <1> QED
    BY <1>2, <1>3

\* The scripts that neither map nor export leave alone what is mapped and filed.
LEMMA OthersKeep ==
    ASSUME FilingInv, UNCHANGED <<vendor, map, files>>,
           job' = job \/ job'.script \notin {"map", "stage"}
    PROVE  FilingInv'
  <1>1. CASE job' = job
    BY <1>1 DEF FilingInv, FilesShape, FilesAreTheirAsset, Exporting, Mapping, RowListed, Listed, Told
  <1>2. CASE job'.script \notin {"map", "stage"}
    BY <1>2 DEF FilingInv, FilesShape, FilesAreTheirAsset
  <1> QED
    BY <1>1, <1>2

LEMMA FilingStep ==
    ASSUME FilingInv, up \in BOOLEAN, JobShape(job), plan \in Plans, [Next]_vars
    PROVE  FilingInv'
  <1>0. Idle.script \notin {"map", "stage"}
    BY DEF Idle
  <1>1. CASE \E skipBars \in BOOLEAN : Stage(skipBars)
    <2>1. /\ UNCHANGED <<vendor, map, files>>
          /\ \E known, occs, seed, skip :
                 job' = [script |-> "map", known |-> known, occs |-> occs, master |-> seed,
                         skip |-> skip, rows |-> <<>>, heard |-> <<>>, torn |-> FALSE]
      BY <1>1 DEF Stage, inputs, artifacts
    <2>2. /\ job' = [script |-> "map", known |-> job'.known, occs |-> job'.occs,
                     master |-> job'.master, skip |-> job'.skip, rows |-> job'.rows,
                     heard |-> job'.heard, torn |-> job'.torn]
          /\ job'.script = "map" /\ job'.rows = <<>> /\ job'.heard = <<>>
      BY <2>1
    <2>3. /\ IsList(job'.rows) /\ IsList(job'.heard)
          /\ DOMAIN job'.rows = {} /\ DOMAIN job'.heard = {}
      BY <2>2, EmptyList, Zenon
    <2>4. Mapping'
      BY <2>2, <2>3 DEF Mapping
    <2> QED
      BY <2>1, <2>2, <2>4 DEF FilingInv, FilesShape, FilesAreTheirAsset
  <1>2. CASE \E i \in DOMAIN map : ExportTotalReturn(i)
    BY <1>2, TotalReturnKeeps
  <1>3. CASE ExportUnadjusted
    BY <1>3, UnadjustedKeeps
  <1>4. CASE SwitchNdu \/ UpdateVendor \/ EditSeed \/ ReplaceSource \/ Crash
    BY <1>4, ChangeKeeps
  <1>5. CASE AskOccupancy
    BY <1>5, AskOccupancyKeeps
  <1>6. CASE WriteMap
    BY <1>6, WriteMapKeeps
  <1>7. CASE ProvePackage \/ WriteProof \/ DetectEnvironment \/ ProbeBaseline \/ WriteBaseline
    <2>1. UNCHANGED <<vendor, map, files>>
      BY <1>7 DEF ProvePackage, WriteProof, DetectEnvironment, ProbeBaseline, WriteBaseline,
                  world, inputs, artifacts
    <2>2. \/ job' = job \/ job' = Idle \/ job' = [script |-> "detected", queryable |-> up]
          \/ \E told : job' = Asking("proof", told) \/ job' = Asking("baseline", told)
      BY <1>7 DEF ProvePackage, WriteProof, DetectEnvironment, ProbeBaseline, WriteBaseline
    <2>3. job' = job \/ job'.script \notin {"map", "stage"}
      BY <1>0, <2>2, AskingShape
    <2> QED
      BY <2>1, <2>3, OthersKeep
  <1>8. CASE AskControl \/ AskSample \/ AskBaseline
    <2>1. UNCHANGED <<vendor, map, files>>
      BY <1>8 DEF AskControl, AskSample, AskBaseline, inputs, artifacts
    <2>2. job'.script = job.script /\ job.script \in {"proof", "probe", "baseline"}
      <3>1. CASE AskControl
        <4>1. job.script = "proof" /\ \E heard : job' = [job EXCEPT !.heard = heard]
          BY <3>1 DEF AskControl
        <4> QED
          BY <4>1, HeardShape
      <3>2. CASE AskSample \/ AskBaseline
        BY <3>2, AskRowShape DEF AskSample, AskBaseline
      <3> QED
        BY <1>8, <3>1, <3>2
    <2> QED
      BY <2>1, <2>2, OthersKeep
  <1>9. CASE (\E requireProof \in BOOLEAN : ProbeFrozen(requireProof)) \/ WriteRows \/ FinishProbe
    <2>1. UNCHANGED <<vendor, map, files>>
      BY <1>9 DEF ProbeFrozen, WriteRows, FinishProbe, world, inputs
    <2>2. \/ job' = Idle \/ (\E told : job' = Asking("probe", told))
          \/ job' = [script |-> "probe down"]
          \/ \E p : job' = [script |-> "pairs", pairs |-> p]
      BY <1>9 DEF ProbeFrozen, WriteRows, FinishProbe
    <2>3. [script |-> "probe down"].script = "probe down"
      OBVIOUS
    <2>4. \A p : [script |-> "pairs", pairs |-> p].script = "pairs"
      OBVIOUS
    <2>5. job'.script \notin {"map", "stage"}
      <3>1. CASE \E told : job' = Asking("probe", told)
        BY <3>1, AskingShape
      <3>2. CASE \E p : job' = [script |-> "pairs", pairs |-> p]
        BY <2>4, <3>2
      <3> QED
        BY <1>0, <2>2, <2>3, <3>1, <3>2
    <2> QED
      BY <2>1, <2>5, OthersKeep
  <1>10. CASE \/ UNCHANGED vars
              \/ \E expected \in {0, 2}, skip \in BOOLEAN : Validate(expected, skip)
    <2>1. UNCHANGED <<vendor, map, files, job>>
      BY <1>10 DEF Validate, vars, world, inputs, artifacts
    <2> QED
      BY <2>1, OthersKeep
  <1> QED
    BY <1>1, <1>2, <1>3, <1>4, <1>5, <1>6, <1>7, <1>8, <1>9, <1>10 DEF Next

\* The bars filed under an asset id are that asset's, however exports were cut short,
\* lost the updater or found symbols listed anew between them: a row is fetched under the
\* symbol the asset came with when it was mapped (norgate_platinum_stage.py).
THEOREM FilesStayTheirAsset == Spec => []FilesAreTheirAsset
  <1>1. Init => FilingInv
    <2>1. NoFile.days = {}
      BY DEF NoFile, NoBars
    <2> QED
      BY <2>1, PlansAssumption DEF Init, FilingInv, FilesShape, FilesAreTheirAsset, Dirs, Idle
  <1>2. FilingInv => FilesAreTheirAsset
    BY DEF FilingInv
  <1>3. ProbedInv => up \in BOOLEAN
    BY DEF ProbedInv
  <1> QED
    BY <1>1, <1>2, <1>3, FilingStep, ProbedHolds, ShapeHolds, PlanHolds, PTL DEF Spec
=============================================================================
