---------------------------- MODULE BillingProofs ----------------------------
(***************************************************************************)
(* The theorems of Billing: for any number of instances, readings, prices  *)
(* and currencies, what is saved is what was shown, a remembered price     *)
(* keeps its currency, no interval runs backwards, and bills connect.      *)
(***************************************************************************)
EXTENDS Billing, FiniteSetTheorems, WellFoundedInduction, TLAPS

(* The inductive invariant. *)

Saved == [start : Ids, end : Ids, consumption : Nat, price : MaybePrices,
          currency : MaybeCurrencies, created : Stamps, typed : BOOLEAN,
          previewed : BOOLEAN,
          asShown : [consumption : BOOLEAN, price : BOOLEAN, currency : BOOLEAN],
          unsaved : BOOLEAN, settled : BOOLEAN]

Typed == TypeOK /\ calculations \in Seq(Saved)

\* A price was entered for the currency in some calculation.
Entered(price, c) == \E n \in 1..Len(calculations) :
    /\ calculations[n].typed
    /\ calculations[n].price = price /\ calculations[n].currency = c

\* A default interval that runs forward; a dialog has the current currency
\* unless that was changed since its preparation, and the current price too if
\* no calculation was saved.
DialogInv(d) ==
    /\ d.count <= Len(readings)
    /\ d.from # d.to => /\ d.from \in 1..Len(readings) /\ d.to \in 1..Len(readings)
                        /\ Before(d.from, d.to)
    /\ d.open /\ d.settled => d.saveCurrency = currency /\ d.currency = currency
    /\ d.open /\ Fresh(d) => d.remembered = Remembered(currency)

Preparing == {"prepare", "context", "reload", "recontext"}
Saving == {"read", "commit"}

\* What is saved is what was shown, whatever was saved meanwhile.
ShownInv(d, j) ==
    /\ Previewed(j.shown) => j.shown.consumption = Consumption(j.start, j.end)
    /\ Previewed(j.shown) /\ d.settled => j.shown.currency = j.currency
    /\ j.typed => Previewed(j.shown) /\ j.shown.price = j.price

\* What the worker of a dialog knows of the readings that it uses, of its price
\* and of what is shown.
JobInv(d, j) ==
    /\ j.count <= Len(readings)
    /\ j.step \in Preparing /\ d.settled => j.currency = currency
    /\ j.step \in {"reload", "recontext"} \cup Saving => d.open
    /\ j.step \in Saving => /\ j.start \in 1..Len(readings) /\ j.end \in 1..Len(readings)
                            /\ Billable(j.start, j.end)
                            /\ d.settled => j.currency = currency
                            /\ ShownInv(d, j)
    /\ j.step = "read" => /\ j.typed = (j.price # Blank)
                          /\ Fresh(d) => j.shown = Preview(d, j.start, j.end, j.price)
    /\ j.step = "commit" => /\ j.consumption = Consumption(j.start, j.end)
                            /\ j.typed \/ Entered(j.price, j.currency)
                            /\ Fresh(d) => j.shown = Bill(j)

\* A calculation is about two readings, in their order.
CalculationInv(c) ==
    /\ c.start \in 1..Len(readings) /\ c.end \in 1..Len(readings)
    /\ Billable(c.start, c.end) /\ c.consumption = Consumption(c.start, c.end)
    /\ c.previewed => c.asShown.consumption
    /\ c.previewed /\ c.settled => c.asShown.currency
    /\ c.typed => c.previewed /\ c.asShown.price
    /\ Fresh(c) => c.asShown.consumption /\ c.asShown.price /\ c.asShown.currency

PreferenceInv == IF calculations = <<>> THEN preference.price = Blank
                 ELSE /\ preference.price = calculations[Len(calculations)].price
                      /\ preference.currency = calculations[Len(calculations)].currency

IInv == /\ Typed
        /\ \A i \in Instances : DialogInv(dialog[i]) /\ JobInv(dialog[i], job[i])
        /\ \A n \in 1..Len(calculations) : CalculationInv(calculations[n])
        /\ PriceOfCurrency /\ PreferenceInv

-----------------------------------------------------------------------------
(* The order of readings *)

Less == {p \in Nat \X Nat : p[1] < p[2]}

\* A finite set with a strict order that relates any two has a first element:
\* the one that comes after the fewest.
LEMMA FirstExists ==
    ASSUME NEW n \in Nat, n # 0, NEW R,
           \A a, b \in 1..n : a # b => <<a, b>> \in R \/ <<b, a>> \in R,
           \A a \in 1..n : <<a, a>> \notin R,
           \A a, b, c \in 1..n : <<a, b>> \in R /\ <<b, c>> \in R => <<a, c>> \in R
    PROVE  \E a \in 1..n : \A b \in (1..n) \ {a} : <<a, b>> \in R
<1>1. PICK S : S = 1..n
    OBVIOUS
<1>2. PICK earlier : earlier = [a \in S |-> {b \in S : <<b, a>> \in R}]
    OBVIOUS
<1>3. IsFiniteSet(S)
    BY <1>1, FS_Interval
<1>4. ASSUME NEW a \in S
      PROVE  /\ IsFiniteSet(earlier[a]) /\ Cardinality(earlier[a]) \in Nat
             /\ earlier[a] \subseteq S
             /\ \A b : b \in earlier[a] <=> b \in S /\ <<b, a>> \in R
    <2>1. /\ earlier[a] \subseteq S
          /\ \A b : b \in earlier[a] <=> b \in S /\ <<b, a>> \in R
        BY <1>2
    <2>2. IsFiniteSet(earlier[a])
        BY <1>3, <2>1, FS_Subset
    <2>3. QED
        BY <2>1, <2>2, FS_CardinalityType
<1>5. PICK counts : counts = {Cardinality(earlier[a]) : a \in S}
    OBVIOUS
<1>6. counts \subseteq Nat /\ counts # {}
    <2>1. 1 \in S
        BY <1>1
    <2>2. QED
        BY <1>4, <1>5, <2>1
<1>7. IsWellFoundedOn(Less, Nat)
    BY NatLessThanWellFounded, Zenon DEF Less, OpToRel
<1>8. PICK m \in counts : \A c \in counts : <<c, m>> \notin Less
    BY <1>6, <1>7, WFMin
<1>9. PICK a \in S : m = Cardinality(earlier[a])
    BY <1>5
<1>10. ASSUME NEW b \in S, b # a, <<a, b>> \notin R PROVE FALSE
    <2>1. <<b, a>> \in R
        BY <1>1, <1>10
    <2>2. earlier[b] \subseteq earlier[a]
        BY <1>1, <1>4, <2>1
    <2>3. b \in earlier[a] /\ b \notin earlier[b]
        BY <1>1, <1>4, <2>1
    <2>4. /\ IsFiniteSet(earlier[a]) /\ earlier[b] # earlier[a]
          /\ Cardinality(earlier[b]) \in Nat /\ m \in Nat
        BY <1>4, <1>9, <2>3
    <2>5. Cardinality(earlier[b]) <= Cardinality(earlier[a])
        BY <2>2, <2>4, FS_Subset
    <2>6. Cardinality(earlier[b]) # Cardinality(earlier[a])
        BY <2>2, <2>4, FS_Subset
    <2>7. PICK c : c = Cardinality(earlier[b])
        OBVIOUS
    <2>8. c \in Nat /\ c < m /\ c \in counts
        BY <1>5, <1>9, <2>4, <2>5, <2>6, <2>7
    <2>9. <<c, m>> \in Less
        BY <2>4, <2>8 DEF Less
    <2>10. QED
        BY <1>8, <2>8, <2>9
<1>11. QED
    BY <1>1, <1>10

\* Before is a strict order of the readings, which relates any two.
LEMMA BeforeOrders ==
    ASSUME Typed, NEW n \in Nat, n <= Len(readings)
    PROVE  /\ \A a, b \in 1..n : a # b => Before(a, b) \/ Before(b, a)
           /\ \A a \in 1..n : ~Before(a, a)
           /\ \A a, b, c \in 1..n : Before(a, b) /\ Before(b, c) => Before(a, c)
<1>1. readings \in Seq(Reading) /\ Times \subseteq Nat
    BY ReadingsAssumption DEF Typed, TypeOK
<1>2. ASSUME NEW a \in 1..n PROVE readings[a].time \in Nat
    <2>1. a \in 1..Len(readings)
        BY <1>1
    <2>2. readings[a] \in Reading
        BY <1>1, <2>1
    <2>3. QED
        BY <1>1, <2>2 DEF Reading
<1>3. QED
    BY <1>2 DEF Before

LEMMA ExtremesExist ==
    ASSUME Typed, NEW n \in Nat, n # 0, n <= Len(readings)
    PROVE  /\ Earliest(n) \in 1..n /\ \A b \in (1..n) \ {Earliest(n)} : Before(Earliest(n), b)
           /\ Newest(n) \in 1..n /\ \A b \in (1..n) \ {Newest(n)} : Before(b, Newest(n))
<1>1. /\ \A a, b \in 1..n : a # b => Before(a, b) \/ Before(b, a)
      /\ \A a \in 1..n : ~Before(a, a)
      /\ \A a, b, c \in 1..n : Before(a, b) /\ Before(b, c) => Before(a, c)
    BY BeforeOrders
<1>2. PICK R : R = {p \in (1..n) \X (1..n) : Before(p[1], p[2])}
    OBVIOUS
<1>3. \A a, b \in 1..n : <<a, b>> \in R <=> Before(a, b)
    BY <1>2
<1>4. \E a \in 1..n : \A b \in (1..n) \ {a} : <<a, b>> \in R
    <2>1. \A a, b \in 1..n : a # b => <<a, b>> \in R \/ <<b, a>> \in R
        BY <1>1, <1>3
    <2>2. \A a \in 1..n : <<a, a>> \notin R
        BY <1>1, <1>3
    <2>3. \A a, b, c \in 1..n : <<a, b>> \in R /\ <<b, c>> \in R => <<a, c>> \in R
        BY <1>1, <1>3
    <2>4. QED
        BY <2>1, <2>2, <2>3, FirstExists
<1>5. \E a \in 1..n : \A b \in (1..n) \ {a} : Before(a, b)
    BY <1>3, <1>4
<1>6. PICK Q : Q = {p \in (1..n) \X (1..n) : Before(p[2], p[1])}
    OBVIOUS
<1>7. \A a, b \in 1..n : <<a, b>> \in Q <=> Before(b, a)
    BY <1>6
<1>8. \E a \in 1..n : \A b \in (1..n) \ {a} : <<a, b>> \in Q
    <2>1. \A a, b \in 1..n : a # b => <<a, b>> \in Q \/ <<b, a>> \in Q
        BY <1>1, <1>7
    <2>2. \A a \in 1..n : <<a, a>> \notin Q
        BY <1>1, <1>7
    <2>3. \A a, b, c \in 1..n : <<a, b>> \in Q /\ <<b, c>> \in Q => <<a, c>> \in Q
        BY <1>1, <1>7
    <2>4. QED
        BY <2>1, <2>2, <2>3, FirstExists
<1>9. \E a \in 1..n : \A b \in (1..n) \ {a} : Before(b, a)
    BY <1>7, <1>8
<1>10. QED
    BY <1>5, <1>9 DEF Earliest, Newest

\* The default interval of any number of readings.
LEMMA DefaultsRunForward ==
    ASSUME Typed, NEW n \in Nat, n <= Len(readings),
           NEW from, from = DefaultStart(n), NEW to, to = DefaultEnd(n)
    PROVE  /\ from \in Ids /\ to \in Ids
           /\ from # to => from \in 1..n /\ to \in 1..n /\ Before(from, to)
<1>1. Len(readings) \in Nat /\ MaxReadings \in Nat /\ Len(readings) <= MaxReadings
    BY ReadingsAssumption DEF Typed, TypeOK
<1>2. CASE n = 0
    BY <1>1, <1>2 DEF DefaultStart, DefaultEnd, Ids
<1>3. CASE n # 0
    <2>1. /\ Earliest(n) \in 1..n /\ Newest(n) \in 1..n
          /\ \A b \in (1..n) \ {Newest(n)} : Before(b, Newest(n))
        BY <1>3, ExtremesExist
    <2>2. from \in 1..n /\ to = Newest(n)
        BY <1>3, <2>1 DEF DefaultStart, DefaultEnd
    <2>3. QED
        BY <1>1, <2>1, <2>2 DEF Ids
<1>4. QED
    BY <1>2, <1>3

-----------------------------------------------------------------------------
(* Steps of one dialog, which leave the database *)

LEMMA SameDatabase ==
    ASSUME UNCHANGED database, NEW d, NEW j, DialogInv(d), JobInv(d, j),
           NEW e, e = d, NEW k, k = j
    PROVE  DialogInv(e)' /\ JobInv(e, k)'
<1>1. /\ readings' = readings /\ calculations' = calculations
      /\ preference' = preference /\ currency' = currency
    BY DEF database
<1>2. DialogInv(e)'
    BY <1>1 DEF DialogInv, Before, Remembered, Fresh
<1>3. JobInv(e, k)'
    BY <1>1 DEF JobInv, ShownInv, Fresh, Bill, Billable, Before, Consumption, Preview, UnitPrice,
             Entered
<1>4. QED
    BY <1>2, <1>3

LEMMA SameCalculations ==
    ASSUME IInv, readings' = readings, calculations' = calculations, preference' = preference
    PROVE  /\ \A n \in 1..Len(calculations') : CalculationInv(calculations[n])'
           /\ PriceOfCurrency' /\ PreferenceInv'
<1>1. ASSUME NEW n \in 1..Len(calculations') PROVE CalculationInv(calculations[n])'
    <2>1. CalculationInv(calculations[n])
        BY <1>1 DEF IInv
    <2>2. QED
        BY <2>1 DEF CalculationInv, Fresh, Billable, Before, Consumption
<1>2. PriceOfCurrency' /\ PreferenceInv'
    BY DEF IInv, PriceOfCurrency, PreferenceInv
<1>3. QED
    BY <1>1, <1>2

LEMMA Lift ==
    ASSUME NEW i \in Instances, IInv, UNCHANGED database, NEW d \in Dialogs, NEW j \in Jobs,
           dialog' = [dialog EXCEPT ![i] = d], job' = [job EXCEPT ![i] = j],
           DialogInv(d), JobInv(d, j)
    PROVE  IInv'
<1>1. /\ readings' = readings /\ calculations' = calculations
      /\ preference' = preference /\ currency' = currency
    BY DEF database
<1>2. dialog \in [Instances -> Dialogs] /\ job \in [Instances -> Jobs]
    BY DEF IInv, Typed, TypeOK
<1>3. dialog' \in [Instances -> Dialogs] /\ job' \in [Instances -> Jobs]
    BY <1>2
<1>4. Typed'
    BY <1>1, <1>3 DEF IInv, Typed, TypeOK
<1>5. ASSUME NEW k \in Instances
      PROVE  DialogInv(dialog[k])' /\ JobInv(dialog[k], job[k])'
    <2>1. PICK e, h : e = dialog'[k] /\ h = job'[k]
        OBVIOUS
    <2>2. DialogInv(e) /\ JobInv(e, h)
        <3>1. CASE k = i
            BY <1>2, <2>1, <3>1
        <3>2. CASE k # i
            <4>1. e = dialog[k] /\ h = job[k]
                BY <1>2, <2>1, <3>2
            <4>2. DialogInv(dialog[k]) /\ JobInv(dialog[k], job[k])
                BY DEF IInv
            <4>3. QED
                BY <4>1, <4>2
        <3>3. QED
            BY <3>1, <3>2
    <2>3. DialogInv(e)' /\ JobInv(e, h)'
        BY <2>2, SameDatabase
    <2>4. QED
        BY <2>1, <2>3 DEF DialogInv, JobInv, ShownInv, Fresh, Bill, Billable, Before,
                          Consumption, Preview, UnitPrice, Entered, Remembered
<1>6. QED
    BY <1>1, <1>4, <1>5, SameCalculations DEF IInv

LEMMA Empty == Closed \in Dialogs /\ NoJob \in Jobs
<1>1. PICK n : n = NoPreview
    OBVIOUS
<1>2. n \in Bills
    BY <1>1 DEF NoPreview, Bills, MaybePrices, MaybeCurrencies
<1>3. NoJob = [step |-> "idle", count |-> 0, start |-> 0, end |-> 0, price |-> Blank,
               currency |-> Blank, consumption |-> 0, created |-> 0, typed |-> FALSE,
               shown |-> n]
    BY <1>1 DEF NoJob
<1>4. 0 \in Ids /\ 0 \in Stamps /\ Blank \in MaybePrices /\ Blank \in MaybeCurrencies
    BY ReadingsAssumption DEF Ids, Stamps, MaybePrices, MaybeCurrencies
<1>5. NoJob \in Jobs
    BY <1>2, <1>3, <1>4 DEF Jobs
<1>6. Closed \in Dialogs
    BY <1>4 DEF Closed, Dialogs
<1>7. QED
    BY <1>5, <1>6

LEMMA EmptyIsGood ==
    ASSUME NEW d, Typed
    PROVE  DialogInv(Closed) /\ JobInv(d, NoJob)
<1>1. Len(readings) \in Nat
    BY DEF Typed, TypeOK
<1>2. DialogInv(Closed)
    BY <1>1 DEF DialogInv, Closed
<1>3. JobInv(d, NoJob)
    BY <1>1 DEF JobInv, NoJob, Preparing, Saving
<1>4. QED
    BY <1>2, <1>3

\* A worker that starts, or ends, and leaves the dialog.
LEMMA LiftJob ==
    ASSUME NEW i \in Instances, IInv, UNCHANGED <<database, dialog>>, NEW j \in Jobs,
           Become(i, j), JobInv(dialog[i], j)
    PROVE  IInv'
<1>1. dialog \in [Instances -> Dialogs]
    BY DEF IInv, Typed, TypeOK
<1>2. dialog' = [dialog EXCEPT ![i] = dialog[i]] /\ dialog[i] \in Dialogs
    BY <1>1
<1>3. DialogInv(dialog[i])
    BY DEF IInv
<1>4. QED
    BY <1>2, <1>3, Lift DEF Become

LEMMA Own ==
    ASSUME IInv, NEW i \in Instances
    PROVE  /\ Typed /\ dialog[i] \in Dialogs /\ job[i] \in Jobs
           /\ DialogInv(dialog[i]) /\ JobInv(dialog[i], job[i])
           /\ Len(readings) \in Ids /\ currency \in MaybeCurrencies
BY ReadingsAssumption DEF IInv, Typed, TypeOK, Ids, MaybeCurrencies

LEMMA CalculateStep == ASSUME IInv, NEW i \in Instances, Calculate(i) PROVE IInv'
<1>1. PICK j : j = [NoJob EXCEPT !.step = "prepare", !.currency = currency]
    OBVIOUS
<1>2. Typed /\ currency \in MaybeCurrencies
    BY Own
<1>3. j \in Jobs
    BY <1>1, <1>2, Empty DEF Jobs
<1>4. JobInv(Closed, j)
    <2>1. j.count = 0 /\ j.step = "prepare" /\ j.currency = currency
        BY <1>1 DEF NoJob
    <2>2. Len(readings) \in Nat
        BY <1>2 DEF Typed, TypeOK
    <2>3. QED
        BY <2>1, <2>2 DEF JobInv, Preparing, Saving
<1>5. dialog' = [dialog EXCEPT ![i] = Closed] /\ job' = [job EXCEPT ![i] = j]
    BY <1>1 DEF Calculate, Become, Show
<1>6. UNCHANGED database
    BY DEF Calculate
<1>7. QED
    BY <1>2, <1>3, <1>4, <1>5, <1>6, Lift, Empty, EmptyIsGood

LEMMA ImportCloudStep == ASSUME IInv, NEW i \in Instances, ImportCloud(i) PROVE IInv'
<1>1. PICK j : j = [NoJob EXCEPT !.step = "reload", !.currency = currency]
    OBVIOUS
<1>2. Typed /\ currency \in MaybeCurrencies
    BY Own
<1>3. j \in Jobs
    BY <1>1, <1>2, Empty DEF Jobs
<1>4. JobInv(dialog[i], j)
    <2>1. j.count = 0 /\ j.step = "reload" /\ j.currency = currency
        BY <1>1 DEF NoJob
    <2>2. Len(readings) \in Nat
        BY <1>2 DEF Typed, TypeOK
    <2>3. dialog[i].open
        BY DEF ImportCloud
    <2>4. QED
        BY <2>1, <2>2, <2>3 DEF JobInv, Preparing, Saving
<1>5. Become(i, j) /\ UNCHANGED <<database, dialog>>
    BY <1>1 DEF ImportCloud
<1>6. QED
    BY <1>3, <1>4, <1>5, LiftJob

LEMMA ReadingsReadStep == ASSUME IInv, NEW i \in Instances, ReadingsRead(i) PROVE IInv'
<1>1. PICK step \in {"context", "recontext"} :
          /\ Become(i, [job[i] EXCEPT !.step = step, !.count = Len(readings)])
          /\ IF step = "context" THEN At(i, "prepare") ELSE At(i, "reload")
    BY DEF ReadingsRead
<1>2. PICK j : j = [job[i] EXCEPT !.step = step, !.count = Len(readings)]
    OBVIOUS
<1>3. /\ Typed /\ job[i] \in Jobs /\ Len(readings) \in Ids
      /\ JobInv(dialog[i], job[i])
    BY Own
<1>4. j \in Jobs
    BY <1>1, <1>2, <1>3 DEF Jobs
<1>5. JobInv(dialog[i], j)
    <2>1. Len(readings) \in Nat
        BY <1>3 DEF Typed, TypeOK
    <2>2. j.step = step /\ j.count = Len(readings) /\ j.currency = job[i].currency
        BY <1>2, <1>3 DEF Jobs
    <2>3. QED
        BY <1>1, <1>3, <2>1, <2>2 DEF JobInv, At, Preparing, Saving
<1>6. Become(i, j) /\ UNCHANGED <<database, dialog>>
    BY <1>1, <1>2 DEF ReadingsRead
<1>7. QED
    BY <1>4, <1>5, <1>6, LiftJob

\* A context is a dialog whose interval runs forward.
LEMMA ContextIsGood ==
    ASSUME IInv, NEW i \in Instances, At(i, "context") \/ At(i, "recontext"),
           NEW c, c = Context(i, dialog[i])
    PROVE  /\ c \in Dialogs /\ c.count <= Len(readings)
           /\ c.from # c.to => /\ c.from \in 1..Len(readings) /\ c.to \in 1..Len(readings)
                               /\ Before(c.from, c.to)
           /\ c.saveCurrency = dialog[i].saveCurrency
           /\ c.currency = job[i].currency
           /\ c.unsaved = dialog[i].unsaved /\ c.settled = dialog[i].settled
           /\ c.settled => c.currency = currency /\ c.remembered = Remembered(currency)
<1>1. /\ Typed /\ dialog[i] \in Dialogs /\ job[i] \in Jobs
      /\ JobInv(dialog[i], job[i])
    BY Own
<1>2. PICK from, to : from = DefaultStart(job[i].count) /\ to = DefaultEnd(job[i].count)
    OBVIOUS
<1>3. PICK n : n = job[i].count
    OBVIOUS
<1>4. n \in Ids /\ n \in Nat /\ n <= Len(readings) /\ Len(readings) \in Nat
    BY <1>1, <1>3, ReadingsAssumption DEF JobInv, Jobs, Ids, Typed, TypeOK
<1>5. /\ from \in Ids /\ to \in Ids
      /\ from # to => from \in 1..n /\ to \in 1..n /\ Before(from, to)
    BY <1>1, <1>2, <1>3, <1>4, DefaultsRunForward
<1>6. PICK remembered : remembered = Remembered(job[i].currency)
    OBVIOUS
<1>7. remembered \in MaybePrices
    BY <1>1, <1>6 DEF Typed, TypeOK, Remembered, MaybePrices
<1>8. c = [dialog[i] EXCEPT !.open = TRUE, !.count = n, !.from = from, !.to = to,
                            !.remembered = remembered, !.currency = job[i].currency]
    BY <1>2, <1>3, <1>6 DEF Context
<1>9. c \in Dialogs
    BY <1>1, <1>4, <1>5, <1>7, <1>8 DEF Dialogs, Jobs
<1>10. /\ c.count = n /\ c.from = from /\ c.to = to /\ c.remembered = remembered
       /\ c.currency = job[i].currency
       /\ c.unsaved = dialog[i].unsaved /\ c.settled = dialog[i].settled
       /\ c.saveCurrency = dialog[i].saveCurrency
    BY <1>1, <1>8 DEF Dialogs
<1>11. dialog[i].settled => job[i].currency = currency
    BY <1>1 DEF JobInv, At, Preparing
<1>12. QED
    BY <1>4, <1>5, <1>6, <1>9, <1>10, <1>11

LEMMA PreparedStep == ASSUME IInv, NEW i \in Instances, Prepared(i) PROVE IInv'
<1>1. PICK c : c = Context(i, dialog[i])
    OBVIOUS
<1>2. At(i, "context")
    BY DEF Prepared
<1>3. /\ c \in Dialogs /\ c.count <= Len(readings)
      /\ c.from # c.to => /\ c.from \in 1..Len(readings) /\ c.to \in 1..Len(readings)
                          /\ Before(c.from, c.to)
      /\ c.currency = job[i].currency
      /\ c.settled => c.currency = currency /\ c.remembered = Remembered(currency)
    BY <1>1, <1>2, ContextIsGood
<1>4. PICK d : d = [c EXCEPT !.saveCurrency = job[i].currency]
    OBVIOUS
<1>5. d \in Dialogs
    BY <1>3, <1>4, Own DEF Dialogs, Jobs
<1>6. /\ d.count = c.count /\ d.from = c.from /\ d.to = c.to
      /\ d.unsaved = c.unsaved /\ d.settled = c.settled
      /\ d.currency = c.currency /\ d.remembered = c.remembered
      /\ d.saveCurrency = job[i].currency
    BY <1>3, <1>4 DEF Dialogs
<1>7. DialogInv(d)
    BY <1>3, <1>6 DEF DialogInv, Fresh
<1>8. /\ dialog' = [dialog EXCEPT ![i] = d] /\ job' = [job EXCEPT ![i] = NoJob]
      /\ UNCHANGED database
    BY <1>1, <1>4 DEF Prepared, Show, Become
<1>9. QED
    BY <1>5, <1>7, <1>8, Lift, Own, Empty, EmptyIsGood

LEMMA ReloadedStep == ASSUME IInv, NEW i \in Instances, Reloaded(i) PROVE IInv'
<1>1. PICK d : d = Context(i, dialog[i])
    OBVIOUS
<1>2. At(i, "recontext")
    BY DEF Reloaded
<1>3. /\ d \in Dialogs /\ d.count <= Len(readings)
      /\ d.from # d.to => /\ d.from \in 1..Len(readings) /\ d.to \in 1..Len(readings)
                          /\ Before(d.from, d.to)
      /\ d.saveCurrency = dialog[i].saveCurrency /\ d.settled = dialog[i].settled
      /\ d.settled => d.currency = currency /\ d.remembered = Remembered(currency)
    BY <1>1, <1>2, ContextIsGood
<1>4. dialog[i].open /\ (dialog[i].settled => dialog[i].saveCurrency = currency)
    BY <1>2, Own DEF JobInv, DialogInv, At
<1>5. DialogInv(d)
    BY <1>3, <1>4 DEF DialogInv, Fresh
<1>6. /\ dialog' = [dialog EXCEPT ![i] = d] /\ job' = [job EXCEPT ![i] = NoJob]
      /\ UNCHANGED database
    BY <1>1 DEF Reloaded, Show, Become
<1>7. QED
    BY <1>3, <1>5, <1>6, Lift, Own, Empty, EmptyIsGood

LEMMA CloseStep == ASSUME IInv, NEW i \in Instances, Close(i) PROVE IInv'
<1>1. /\ dialog' = [dialog EXCEPT ![i] = Closed] /\ job' = [job EXCEPT ![i] = NoJob]
      /\ UNCHANGED database
    BY DEF Close, Show, Become
<1>2. QED
    BY <1>1, Lift, Own, Empty, EmptyIsGood

LEMMA BreakStep == ASSUME IInv, NEW i \in Instances, Break(i) PROVE IInv'
<1>1. Become(i, NoJob) /\ UNCHANGED <<database, dialog>>
    BY DEF Break
<1>2. QED
    BY <1>1, LiftJob, Own, Empty, EmptyIsGood

-----------------------------------------------------------------------------
(* Saving *)

LEMMA BilledIsNatural ==
    ASSUME Typed, NEW a \in 1..Len(readings), NEW b \in 1..Len(readings), Billable(a, b)
    PROVE  /\ Consumption(a, b) \in Nat /\ readings[a].time <= readings[b].time
           /\ a \in Ids /\ b \in Ids
<1>1. /\ readings \in Seq(Reading) /\ Times \subseteq Nat /\ Values \subseteq Nat
      /\ Len(readings) <= MaxReadings /\ MaxReadings \in Nat
    BY ReadingsAssumption DEF Typed, TypeOK
<1>2. readings[a] \in Reading /\ readings[b] \in Reading
    BY <1>1
<1>3. /\ readings[a].time \in Nat /\ readings[b].time \in Nat
      /\ readings[a].value \in Nat /\ readings[b].value \in Nat
    BY <1>1, <1>2 DEF Reading
<1>4. QED
    BY <1>1, <1>3 DEF Billable, Consumption, Before, Ids

LEMMA SaveStep == ASSUME IInv, NEW i \in Instances, Save(i) PROVE IInv'
<1>1. PICK start \in 1..dialog[i].count, end \in 1..dialog[i].count, typed \in MaybePrices :
          /\ Billable(start, end)
          /\ Become(i, [NoJob EXCEPT
                !.step = "read", !.start = start, !.end = end, !.price = typed,
                !.currency = dialog[i].saveCurrency, !.typed = typed # Blank,
                !.shown = Preview(dialog[i], start, end, typed)])
    BY DEF Save
<1>2. PICK shown : shown = Preview(dialog[i], start, end, typed)
    OBVIOUS
<1>3. PICK j : j = [NoJob EXCEPT
                !.step = "read", !.start = start, !.end = end, !.price = typed,
                !.currency = dialog[i].saveCurrency, !.typed = typed # Blank,
                !.shown = shown]
    OBVIOUS
<1>4. /\ Typed /\ dialog[i] \in Dialogs /\ DialogInv(dialog[i])
      /\ Len(readings) \in Nat /\ dialog[i].open
    BY Own DEF Save, Typed, TypeOK
<1>5. start \in 1..Len(readings) /\ end \in 1..Len(readings)
    <2>1. dialog[i].count \in Nat /\ dialog[i].count <= Len(readings)
        BY <1>4, ReadingsAssumption DEF DialogInv, Dialogs, Ids
    <2>2. QED
        BY <1>4, <2>1
<1>6. Consumption(start, end) \in Nat /\ start \in Ids /\ end \in Ids
    BY <1>1, <1>4, <1>5, BilledIsNatural
<1>7. shown \in Bills
    <2>1. PICK price, consumption : /\ price = UnitPrice(typed, dialog[i].remembered)
                                    /\ consumption = Consumption(start, end)
        OBVIOUS
    <2>2. /\ price \in MaybePrices /\ consumption \in Nat /\ Blank \in MaybePrices
          /\ Blank \in MaybeCurrencies /\ dialog[i].currency \in MaybeCurrencies
        BY <1>4, <1>6, <2>1 DEF UnitPrice, Dialogs, MaybePrices, MaybeCurrencies
    <2>3. shown = IF price = Blank THEN NoPreview
                  ELSE [consumption |-> consumption, price |-> price,
                        currency |-> dialog[i].currency]
        BY <1>2, <2>1 DEF Preview
    <2>4. QED
        BY <2>2, <2>3 DEF NoPreview, Bills
<1>8. j \in Jobs
    BY <1>3, <1>4, <1>6, <1>7, Empty DEF Jobs, Dialogs
<1>9. /\ j.step = "read" /\ j.count = 0 /\ j.start = start /\ j.end = end
      /\ j.price = typed /\ j.currency = dialog[i].saveCurrency
      /\ j.typed = (typed # Blank) /\ j.shown = shown
    BY <1>3 DEF NoJob
<1>10. JobInv(dialog[i], j)
    <2>1. dialog[i].settled => j.currency = currency
        BY <1>4, <1>9 DEF DialogInv
    <2>2. j.typed = (j.price # Blank)
        BY <1>9
    <2>3. j.shown = Preview(dialog[i], j.start, j.end, j.price)
        BY <1>2, <1>9
    <2>4. Billable(j.start, j.end) /\ j.start \in 1..Len(readings) /\ j.end \in 1..Len(readings)
        BY <1>1, <1>5, <1>9
    <2>5. j.count <= Len(readings)
        BY <1>4, <1>9
    <2>6. ShownInv(dialog[i], j)
        <3>1. PICK price, consumption : /\ price = UnitPrice(typed, dialog[i].remembered)
                                        /\ consumption = Consumption(start, end)
            OBVIOUS
        <3>2. shown = IF price = Blank THEN NoPreview
                      ELSE [consumption |-> consumption, price |-> price,
                            currency |-> dialog[i].currency]
            BY <1>2, <3>1 DEF Preview
        <3>3. Previewed(shown) => /\ price # Blank /\ shown.consumption = consumption
                                  /\ shown.price = price /\ shown.currency = dialog[i].currency
            BY <3>2 DEF Previewed, NoPreview
        <3>4. typed # Blank => price = typed /\ Previewed(shown)
            BY <3>1, <3>2 DEF Previewed, UnitPrice
        <3>5. dialog[i].settled => dialog[i].currency = dialog[i].saveCurrency
            BY <1>4 DEF DialogInv
        <3>6. QED
            BY <1>9, <3>1, <3>3, <3>4, <3>5 DEF ShownInv
    <2>7. QED
        BY <1>4, <1>9, <2>1, <2>2, <2>3, <2>4, <2>5, <2>6 DEF JobInv, Preparing, Saving
<1>11. Become(i, j) /\ UNCHANGED <<database, dialog>>
    BY <1>1, <1>2, <1>3 DEF Save
<1>12. QED
    BY <1>8, <1>10, <1>11, LiftJob

\* What is remembered was entered.
LEMMA RememberedWasEntered ==
    ASSUME IInv, NEW c, Remembered(c) # Blank
    PROVE  Entered(Remembered(c), c)
<1>1. /\ preference.currency = c /\ Remembered(c) = preference.price
      /\ preference.price # Blank
    BY DEF Remembered
<1>2. /\ calculations # <<>> /\ calculations \in Seq(Saved)
      /\ preference.price = calculations[Len(calculations)].price
      /\ preference.currency = calculations[Len(calculations)].currency
    BY <1>1 DEF IInv, PreferenceInv, Typed
<1>3. Len(calculations) \in DOMAIN calculations /\ Len(calculations) \in Nat
    BY <1>2
<1>4. PICK m \in 1..Len(calculations) :
          /\ calculations[m].typed
          /\ calculations[m].price = calculations[Len(calculations)].price
          /\ calculations[m].currency = calculations[Len(calculations)].currency
    BY <1>3 DEF IInv, PriceOfCurrency
<1>5. QED
    BY <1>1, <1>2, <1>4 DEF Entered

LEMMA ReadStep == ASSUME IInv, NEW i \in Instances, Read(i) PROVE IInv'
<1>1. PICK price : price = PriceToSave(i)
    OBVIOUS
<1>2. UNCHANGED <<database, dialog>>
    BY DEF Read
<1>3. CASE Become(i, NoJob)
    BY <1>2, <1>3, LiftJob, Own, Empty, EmptyIsGood
<1>4. CASE ~Become(i, NoJob)
    <2>1. PICK created, consumption :
              /\ created \in Now /\ price # Blank
              /\ consumption = Consumption(job[i].start, job[i].end)
              /\ Become(i, [job[i] EXCEPT !.step = "commit", !.price = price,
                                          !.created = created, !.consumption = consumption])
        BY <1>1, <1>4 DEF Read
    <2>2. PICK j : j = [job[i] EXCEPT !.step = "commit", !.price = price,
                                      !.created = created, !.consumption = consumption]
        OBVIOUS
    <2>3. Become(i, j) /\ created \in Stamps /\ job[i].step = "read"
        BY <2>1, <2>2 DEF Read, At, Now
    <2>4. /\ Typed /\ job[i] \in Jobs /\ dialog[i] \in Dialogs
          /\ DialogInv(dialog[i]) /\ JobInv(dialog[i], job[i])
        BY Own
    <2>5. /\ job[i].start \in 1..Len(readings) /\ job[i].end \in 1..Len(readings)
          /\ Billable(job[i].start, job[i].end) /\ dialog[i].open
          /\ job[i].typed = (job[i].price # Blank)
          /\ dialog[i].settled => job[i].currency = currency
          /\ ShownInv(dialog[i], job[i])
          /\ Fresh(dialog[i]) => job[i].shown = Preview(dialog[i], job[i].start, job[i].end,
                                                        job[i].price)
        BY <2>3, <2>4 DEF JobInv, Saving
    <2>6. consumption \in Nat
        BY <2>1, <2>4, <2>5, BilledIsNatural
    <2>7. price \in MaybePrices
        BY <1>1, <2>4 DEF PriceToSave, UnitPrice, Remembered, Typed, TypeOK, Jobs, MaybePrices
    <2>8. j \in Jobs
        BY <2>2, <2>3, <2>4, <2>6, <2>7 DEF Jobs
    <2>9. /\ j.step = "commit" /\ j.price = price /\ j.consumption = consumption
          /\ j.start = job[i].start /\ j.end = job[i].end /\ j.count = job[i].count
          /\ j.currency = job[i].currency /\ j.typed = job[i].typed /\ j.shown = job[i].shown
        BY <2>2, <2>4 DEF Jobs
    <2>10. j.typed \/ Entered(j.price, j.currency)
        <3>1. CASE job[i].price # Blank
            BY <2>5, <2>9, <3>1
        <3>2. CASE job[i].price = Blank
            <4>1. price = Remembered(job[i].currency)
                BY <1>1, <3>2 DEF PriceToSave, UnitPrice
            <4>2. QED
                BY <2>1, <2>9, <4>1, RememberedWasEntered
        <3>3. QED
            BY <3>1, <3>2
    <2>11. Fresh(dialog[i]) => j.shown = Bill(j)
        <3>1. SUFFICES ASSUME Fresh(dialog[i]) PROVE j.shown = Bill(j)
            OBVIOUS
        <3>2. /\ dialog[i].currency = currency /\ job[i].currency = currency
              /\ dialog[i].remembered = Remembered(job[i].currency)
            BY <2>4, <2>5, <3>1 DEF DialogInv, Fresh
        <3>3. price = UnitPrice(job[i].price, dialog[i].remembered)
            BY <1>1, <3>2 DEF PriceToSave
        <3>4. job[i].shown = [consumption |-> consumption, price |-> price,
                              currency |-> dialog[i].currency]
            BY <2>1, <2>5, <3>1, <3>3 DEF Preview
        <3>5. QED
            BY <2>9, <3>2, <3>4 DEF Bill
    <2>12. JobInv(dialog[i], j)
        <3>1. j.count <= Len(readings) /\ j.consumption = Consumption(j.start, j.end)
            BY <2>1, <2>4, <2>9 DEF JobInv
        <3>2. job[i].typed => j.price = job[i].price
            BY <1>1, <2>5, <2>9 DEF PriceToSave, UnitPrice
        <3>3. ShownInv(dialog[i], j)
            BY <2>5, <2>9, <3>2 DEF ShownInv
        <3>4. QED
            BY <2>5, <2>9, <2>10, <2>11, <3>1, <3>3 DEF JobInv, Preparing, Saving
    <2>13. QED
        BY <1>2, <2>3, <2>8, <2>12, LiftJob
<1>5. QED
    BY <1>3, <1>4

\* What the other dialogs show is out of date, which is all that happens to them.
LEMMA Stale ==
    ASSUME NEW d \in Dialogs, DialogInv(d), NEW j, JobInv(d, j), NEW e,
           \/ e = [d EXCEPT !.unsaved = FALSE] /\ currency' = currency
           \/ e = [d EXCEPT !.settled = FALSE],
           readings' = readings,
           j.typed \/ Entered(j.price, j.currency) =>
               j.typed \/ Entered(j.price, j.currency)'
    PROVE  e \in Dialogs /\ DialogInv(e)' /\ JobInv(e, j)'
<1>1. e \in Dialogs
    BY DEF Dialogs
<1>2. /\ ~Fresh(e) /\ e.open = d.open /\ e.count = d.count /\ e.from = d.from /\ e.to = d.to
      /\ e.currency = d.currency /\ e.saveCurrency = d.saveCurrency
      /\ e.settled => d.settled /\ currency' = currency
    BY DEF Dialogs, Fresh
<1>3. DialogInv(e)'
    BY <1>2 DEF DialogInv, Before, Fresh
<1>4. JobInv(e, j)'
    BY <1>2 DEF JobInv, ShownInv, Billable, Before, Consumption, Fresh
<1>5. QED
    BY <1>1, <1>3, <1>4

LEMMA OvertakenAt ==
    ASSUME Typed, NEW k \in Instances
    PROVE  /\ Overtaken \in [Instances -> Dialogs] /\ Unsettled \in [Instances -> Dialogs]
           /\ Overtaken[k] = [dialog[k] EXCEPT !.unsaved = FALSE]
           /\ Unsettled[k] = [dialog[k] EXCEPT !.settled = FALSE]
<1>1. dialog \in [Instances -> Dialogs]
    BY DEF Typed, TypeOK
<1>2. ASSUME NEW h \in Instances
      PROVE  /\ [dialog[h] EXCEPT !.unsaved = FALSE] \in Dialogs
             /\ [dialog[h] EXCEPT !.settled = FALSE] \in Dialogs
    BY <1>1 DEF Dialogs
<1>3. QED
    BY <1>2 DEF Overtaken, Unsettled

LEMMA ChangeCurrencyStep == ASSUME IInv, NEW i \in Instances, ChangeCurrency(i) PROVE IInv'
<1>1. /\ readings' = readings /\ calculations' = calculations
      /\ preference' = preference /\ job' = job
      /\ currency' \in Currencies /\ dialog' = [Unsettled EXCEPT ![i] = Closed]
      /\ job[i].step = "idle"
    BY DEF ChangeCurrency, Idle
<1>2. Typed /\ dialog \in [Instances -> Dialogs] /\ job \in [Instances -> Jobs]
    BY DEF IInv, Typed, TypeOK
<1>3. dialog' \in [Instances -> Dialogs]
    BY <1>1, <1>2, OvertakenAt, Empty
<1>4. Typed'
    BY <1>1, <1>2, <1>3 DEF Typed, TypeOK
<1>5. ASSUME NEW k \in Instances
      PROVE  DialogInv(dialog[k])' /\ JobInv(dialog[k], job[k])'
    <2>1. PICK e, j, d : e = dialog'[k] /\ j = job[k] /\ d = dialog[k]
        OBVIOUS
    <2>2. d \in Dialogs /\ DialogInv(d) /\ JobInv(d, j)
        BY <2>1, Own
    <2>3. CASE k = i
        <3>1. e = Closed /\ j.step = "idle"
            BY <1>1, <1>2, <2>1, <2>3, OvertakenAt
        <3>2. DialogInv(e)'
            <4>1. Typed'
                BY <1>4
            <4>2. Len(readings') \in Nat
                BY <4>1 DEF Typed, TypeOK
            <4>3. QED
                BY <3>1, <4>2 DEF DialogInv, Closed
        <3>3. JobInv(e, j)'
            BY <1>1, <2>2, <3>1 DEF JobInv, Preparing, Saving
        <3>4. QED
            BY <1>1, <2>1, <3>2, <3>3 DEF DialogInv, JobInv, ShownInv, Fresh, Bill, Billable, Before, Consumption,
                                          Preview, UnitPrice, Entered, Remembered
    <2>4. CASE k # i
        <3>1. e = [d EXCEPT !.settled = FALSE]
            BY <1>1, <1>2, <2>1, <2>4, OvertakenAt
        <3>2. Entered(j.price, j.currency)' = Entered(j.price, j.currency)
            BY <1>1 DEF Entered
        <3>3. DialogInv(e)' /\ JobInv(e, j)'
            BY <1>1, <2>2, <3>1, <3>2, Stale
        <3>4. QED
            BY <1>1, <2>1, <3>3 DEF DialogInv, JobInv, ShownInv, Fresh, Bill, Billable, Before, Consumption,
                                    Preview, UnitPrice, Entered, Remembered
    <2>5. QED
        BY <2>3, <2>4
<1>6. QED
    BY <1>1, <1>4, <1>5, SameCalculations DEF IInv

\* A new reading leaves the others, and what is said of them.
LEMMA AddReadingStep == ASSUME IInv, AddReading PROVE IInv'
<1>1. PICK r \in LaterReadings : readings' = Append(readings, r)
    BY DEF AddReading
<1>2. /\ calculations' = calculations /\ preference' = preference /\ currency' = currency
      /\ dialog' = dialog /\ job' = job /\ Len(readings) < MaxReadings
    BY DEF AddReading
<1>3. /\ readings \in Seq(Reading) /\ r \in Reading /\ MaxReadings \in Nat
      /\ Typed
    BY ReadingsAssumption DEF IInv, Typed, TypeOK
<1>4. readings' \in Seq(Reading) /\ Len(readings') = Len(readings) + 1
    BY <1>1, <1>3
<1>5. \A a \in 1..Len(readings) : readings'[a] = readings[a]
    BY <1>1, <1>3
<1>6. Typed'
    BY <1>2, <1>3, <1>4 DEF Typed, TypeOK
<1>7. ASSUME NEW a \in 1..Len(readings), NEW b \in 1..Len(readings)
      PROVE  /\ a \in 1..Len(readings') /\ b \in 1..Len(readings')
             /\ Before(a, b)' = Before(a, b) /\ Consumption(a, b)' = Consumption(a, b)
             /\ Billable(a, b)' = Billable(a, b)
    <2>1. a \in 1..Len(readings') /\ b \in 1..Len(readings')
        BY <1>3, <1>4
    <2>2. readings'[a] = readings[a] /\ readings'[b] = readings[b]
        BY <1>5
    <2>3. QED
        BY <2>1, <2>2 DEF Before, Consumption, Billable
<1>8. ASSUME NEW k \in Instances
      PROVE  DialogInv(dialog[k])' /\ JobInv(dialog[k], job[k])'
    <2>1. PICK d, j : d = dialog[k] /\ j = job[k]
        OBVIOUS
    <2>2. d \in Dialogs /\ j \in Jobs /\ DialogInv(d) /\ JobInv(d, j)
        BY <2>1, Own
    <2>3. d.count \in Nat /\ j.count \in Nat /\ Len(readings) \in Nat
        BY <1>3, <2>2 DEF Dialogs, Jobs, Ids
    <2>4. d.count <= Len(readings') /\ j.count <= Len(readings')
        BY <1>4, <2>2, <2>3 DEF DialogInv, JobInv
    <2>5. DialogInv(d)'
        BY <1>2, <1>7, <2>2, <2>4 DEF DialogInv, Remembered, Fresh
    <2>6. JobInv(d, j)'
        <3>1. Entered(j.price, j.currency)' = Entered(j.price, j.currency)
            BY <1>2 DEF Entered
        <3>2. j.step \in Saving => /\ j.start \in 1..Len(readings) /\ j.end \in 1..Len(readings)
                                   /\ Billable(j.start, j.end)
            BY <2>2 DEF JobInv
        <3>3. j.step \in Saving => /\ j.start \in 1..Len(readings')
                                   /\ j.end \in 1..Len(readings')
                                   /\ Billable(j.start, j.end)'
                                   /\ Consumption(j.start, j.end)' = Consumption(j.start, j.end)
            BY <1>7, <3>2
        <3>4. j.step \in Saving =>
                  Preview(d, j.start, j.end, j.price)' = Preview(d, j.start, j.end, j.price)
            BY <3>3 DEF Preview
        <3>5. QED
            BY <1>2, <2>2, <2>4, <3>1, <3>3, <3>4 DEF JobInv, ShownInv, Fresh, Bill, Saving
    <2>7. QED
        BY <1>2, <2>1, <2>5, <2>6
<1>9. ASSUME NEW n \in 1..Len(calculations') PROVE CalculationInv(calculations[n])'
    <2>1. PICK c : c = calculations[n]
        OBVIOUS
    <2>2. CalculationInv(c)
        BY <1>2, <1>9, <2>1 DEF IInv
    <2>3. CalculationInv(c)'
        BY <1>7, <2>2 DEF CalculationInv, Fresh
    <2>4. QED
        BY <1>2, <2>1, <2>3
<1>10. PriceOfCurrency' /\ PreferenceInv'
    BY <1>2 DEF IInv, PriceOfCurrency, PreferenceInv
<1>11. QED
    BY <1>6, <1>8, <1>9, <1>10 DEF IInv

\* The calculation that is saved: as it was shown, if nothing was saved
\* meanwhile, and at a price that was entered.
LEMMA CommitStep == ASSUME IInv, NEW i \in Instances, Commit(i) PROVE IInv'
<1>1. PICK c : c = [start |-> job[i].start, end |-> job[i].end,
             consumption |-> job[i].consumption,
             price |-> job[i].price, currency |-> job[i].currency, created |-> job[i].created,
             typed |-> job[i].typed, previewed |-> Previewed(job[i].shown),
             asShown |-> Compared(job[i].shown, Bill(job[i])),
             unsaved |-> dialog[i].unsaved, settled |-> dialog[i].settled]
    OBVIOUS
<1>2. /\ calculations' = Append(calculations, c) /\ Len(calculations) < MaxCalculations
      /\ preference' = [price |-> job[i].price, currency |-> job[i].currency]
      /\ job' = [job EXCEPT ![i] = NoJob]
      /\ dialog' \in {Overtaken, [Overtaken EXCEPT ![i] = Closed]}
      /\ readings' = readings /\ currency' = currency /\ job[i].step = "commit"
    BY <1>1 DEF Commit, SavedPreference, Become, At
<1>3. /\ Typed /\ job[i] \in Jobs /\ dialog[i] \in Dialogs /\ JobInv(dialog[i], job[i])
    BY Own
<1>4. /\ calculations \in Seq(Saved) /\ MaxCalculations \in Nat
      /\ dialog \in [Instances -> Dialogs] /\ job \in [Instances -> Jobs]
    BY <1>3, ReadingsAssumption DEF Typed, TypeOK
<1>5. /\ job[i].start \in 1..Len(readings) /\ job[i].end \in 1..Len(readings)
      /\ Billable(job[i].start, job[i].end)
      /\ job[i].consumption = Consumption(job[i].start, job[i].end)
      /\ job[i].typed \/ Entered(job[i].price, job[i].currency)
      /\ Fresh(dialog[i]) => job[i].shown = Bill(job[i])
      /\ ShownInv(dialog[i], job[i])
    BY <1>2, <1>3 DEF JobInv, Saving
<1>6. c \in Saved
    BY <1>1, <1>3, Zenon DEF Saved, Jobs, Dialogs, Previewed, Compared
<1>7. /\ c.start = job[i].start /\ c.end = job[i].end /\ c.consumption = job[i].consumption
      /\ c.price = job[i].price /\ c.currency = job[i].currency /\ c.typed = job[i].typed
      /\ c.previewed => c.asShown.consumption
      /\ c.previewed /\ c.settled => c.asShown.currency
      /\ c.typed => c.previewed /\ c.asShown.price
      /\ Fresh(c) => c.asShown.consumption /\ c.asShown.price /\ c.asShown.currency
    BY <1>1, <1>5 DEF ShownInv, Compared, Bill, Fresh
<1>8. PICK last : last = Len(calculations) + 1
    OBVIOUS
<1>9. /\ calculations' \in Seq(Saved) /\ Len(calculations') = last /\ calculations'[last] = c
      /\ \A n \in 1..Len(calculations) : calculations'[n] = calculations[n]
      /\ Len(calculations) \in Nat /\ last \in 1..last
    BY <1>2, <1>4, <1>6, <1>8
<1>10. Typed'
    <2>1. dialog' \in [Instances -> Dialogs] /\ job' \in [Instances -> Jobs]
        BY <1>2, <1>3, <1>4, OvertakenAt, Empty
    <2>2. preference' \in [price : MaybePrices, currency : MaybeCurrencies]
        BY <1>2, <1>3 DEF Jobs
    <2>3. Len(calculations') <= MaxCalculations
        BY <1>2, <1>4, <1>8, <1>9
    <2>4. QED
        BY <1>2, <1>3, <1>9, <2>1, <2>2, <2>3 DEF Typed, TypeOK
<1>11. ASSUME NEW price, NEW cur, Entered(price, cur) PROVE Entered(price, cur)'
    <2>1. PICK m \in 1..Len(calculations) : /\ calculations[m].typed
                                           /\ calculations[m].price = price
                                           /\ calculations[m].currency = cur
        BY <1>11 DEF Entered
    <2>2. m \in 1..Len(calculations') /\ calculations'[m] = calculations[m]
        BY <1>8, <1>9
    <2>3. QED
        BY <2>1, <2>2 DEF Entered
<1>12. ASSUME NEW k \in Instances
       PROVE  DialogInv(dialog[k])' /\ JobInv(dialog[k], job[k])'
    <2>1. PICK e, j, d, h : e = dialog'[k] /\ j = job'[k] /\ d = dialog[k] /\ h = job[k]
        OBVIOUS
    <2>2. d \in Dialogs /\ DialogInv(d) /\ JobInv(d, h)
        BY <2>1, Own
    <2>3. h.typed \/ Entered(h.price, h.currency) => h.typed \/ Entered(h.price, h.currency)'
        BY <1>11
    <2>4. PICK o : o = [d EXCEPT !.unsaved = FALSE]
        OBVIOUS
    <2>5. DialogInv(o)' /\ JobInv(o, h)'
        BY <1>2, <2>2, <2>3, <2>4, Stale
    <2>6. DialogInv(Closed)' /\ JobInv(o, NoJob)' /\ JobInv(Closed, NoJob)'
        <3>1. Len(readings') \in Nat
            BY <1>10 DEF Typed, TypeOK
        <3>2. QED
            BY <3>1 DEF DialogInv, JobInv, Closed, NoJob, Preparing, Saving
    <2>7. \/ k = i /\ j = NoJob /\ (e = o \/ e = Closed)
          \/ k # i /\ j = h /\ e = o
        BY <1>2, <1>3, <1>4, <2>1, <2>4, OvertakenAt
    <2>8. DialogInv(e)' /\ JobInv(e, j)'
        BY <2>5, <2>6, <2>7
    <2>9. QED
        BY <2>1, <2>8 DEF DialogInv, JobInv, ShownInv, Fresh, Bill, Billable, Before,
                          Consumption, Preview, UnitPrice, Entered, Remembered
<1>13. ASSUME NEW n \in 1..Len(calculations') PROVE CalculationInv(calculations[n])'
    <2>1. PICK a : a = calculations'[n]
        OBVIOUS
    <2>2. CalculationInv(a)
        <3>1. CASE n = last
            BY <1>5, <1>7, <1>9, <2>1, <3>1 DEF CalculationInv
        <3>2. CASE n # last
            <4>1. n \in 1..Len(calculations)
                BY <1>8, <1>9, <1>13, <3>2
            <4>2. QED
                BY <1>9, <2>1, <4>1 DEF IInv
        <3>3. QED
            BY <3>1, <3>2
    <2>3. CalculationInv(a)'
        BY <1>2, <2>2 DEF CalculationInv, Fresh, Billable, Before, Consumption
    <2>4. QED
        BY <2>1, <2>3 DEF CalculationInv, Fresh, Billable, Before, Consumption
<1>14. PriceOfCurrency'
    <2>1. ASSUME NEW n \in 1..last
          PROVE  \E m \in 1..n : /\ calculations'[m].typed
                                 /\ calculations'[m].price = calculations'[n].price
                                 /\ calculations'[m].currency = calculations'[n].currency
        <3>1. CASE n # last
            <4>1. n \in 1..Len(calculations) /\ n \in DOMAIN calculations
                BY <1>4, <1>8, <1>9, <3>1
            <4>2. PICK m \in 1..n : /\ calculations[m].typed
                                    /\ calculations[m].price = calculations[n].price
                                    /\ calculations[m].currency = calculations[n].currency
                BY <4>1 DEF IInv, PriceOfCurrency
            <4>3. m \in 1..Len(calculations)
                BY <1>9, <4>1
            <4>4. QED
                BY <1>9, <4>1, <4>2, <4>3
        <3>2. CASE n = last /\ job[i].typed
            BY <1>7, <1>9, <3>2
        <3>3. CASE n = last /\ ~job[i].typed
            <4>1. PICK m \in 1..Len(calculations) :
                      /\ calculations[m].typed /\ calculations[m].price = c.price
                      /\ calculations[m].currency = c.currency
                BY <1>5, <1>7, <3>3 DEF Entered
            <4>2. m \in 1..n
                BY <1>8, <1>9, <3>3
            <4>3. QED
                BY <1>9, <3>3, <4>1, <4>2
        <3>4. QED
            BY <3>1, <3>2, <3>3
    <2>2. DOMAIN calculations' = 1..last
        BY <1>9
    <2>3. QED
        BY <2>1, <2>2 DEF PriceOfCurrency
<1>15. PreferenceInv'
    BY <1>2, <1>7, <1>8, <1>9 DEF PreferenceInv
<1>16. QED
    BY <1>10, <1>12, <1>13, <1>14, <1>15 DEF IInv

-----------------------------------------------------------------------------
(* The theorems *)

LEMMA Initial == Init => IInv
<1>1. SUFFICES ASSUME Init PROVE IInv
    OBVIOUS
<1>2. /\ readings = FirstReadings /\ calculations = <<>> /\ currency \in Currencies
      /\ preference = [price |-> Blank, currency |-> Blank]
      /\ dialog = [i \in Instances |-> Closed] /\ job = [i \in Instances |-> NoJob]
    BY <1>1 DEF Init
<1>3. Typed
    BY <1>2, Empty, ReadingsAssumption DEF Typed, TypeOK, MaybePrices, MaybeCurrencies
<1>4. ASSUME NEW i \in Instances PROVE DialogInv(dialog[i]) /\ JobInv(dialog[i], job[i])
    BY <1>2, <1>3, EmptyIsGood
<1>5. (\A n \in 1..Len(calculations) : CalculationInv(calculations[n])) /\ PriceOfCurrency
    BY <1>2 DEF PriceOfCurrency
<1>6. PreferenceInv
    BY <1>2 DEF PreferenceInv
<1>7. QED
    BY <1>3, <1>4, <1>5, <1>6 DEF IInv

LEMMA Inductive == IInv /\ [Next]_vars => IInv'
<1>1. SUFFICES ASSUME IInv, [Next]_vars PROVE IInv'
    OBVIOUS
<1>2. CASE AddReading
    BY <1>1, <1>2, AddReadingStep
<1>3. ASSUME NEW i \in Instances, ChangeCurrency(i) PROVE IInv'
    BY <1>1, <1>3, ChangeCurrencyStep
<1>4. ASSUME NEW i \in Instances, User(i) PROVE IInv'
    BY <1>1, <1>4, CalculateStep, ImportCloudStep, SaveStep, CloseStep DEF User
<1>5. ASSUME NEW i \in Instances, Worker(i) PROVE IInv'
    BY <1>1, <1>5, ReadingsReadStep, PreparedStep, ReloadedStep, ReadStep, CommitStep,
       BreakStep DEF Worker
<1>6. CASE UNCHANGED vars
    BY <1>1, <1>6 DEF vars, database, IInv, Typed, TypeOK, DialogInv, JobInv, ShownInv, Fresh, Bill,
       Billable, Before, Consumption, Preview, UnitPrice, Entered, Remembered, CalculationInv,
       PriceOfCurrency, PreferenceInv
<1>7. QED
    BY <1>1, <1>2, <1>3, <1>4, <1>5, <1>6 DEF Next

\* The inductive invariant holds in every reachable state of
\* services/billing_service.py and its dialogs.
THEOREM Invariant == Spec => []IInv
<1>1. QED
    BY Initial, Inductive, PTL DEF Spec

\* A remembered price is only used for the currency it was saved under, a
\* preview is in the currency of the calculation as long as the setting stays,
\* and the remembered price is that of the last calculation
\* (billing_service.py, save_calculation).
THEOREM PricesAreKept == Spec => []PricesKept
<1>1. IInv => PricesKept
    <2>1. SUFFICES ASSUME IInv PROVE PricesKept
        OBVIOUS
    <2>2. TypeOK /\ PriceOfCurrency /\ PreferenceInv /\ calculations \in Seq(Saved)
        BY <2>1 DEF IInv, Typed
    <2>3. PreferenceIsLast
        BY <2>2 DEF PreferenceIsLast, PreferenceInv, Last
    <2>4. CurrencyAsShown
        BY <2>1, <2>2 DEF IInv, CalculationInv, CurrencyAsShown
    <2>5. QED
        BY <2>2, <2>3, <2>4 DEF PricesKept
<1>2. QED
    BY Invariant, <1>1, PTL

\* Neither a default interval nor a saved one runs backwards, whatever order
\* imports and other instances give to ids and times (domain/billing.py,
\* calculate_consumption, and billing_service.py, _default_start).
THEOREM NothingRunsBackwards == Spec => []ForwardOnly
<1>1. IInv => ForwardOnly
    <2>1. SUFFICES ASSUME IInv PROVE ForwardOnly
        OBVIOUS
    <2>2. ASSUME NEW n \in DOMAIN calculations
          PROVE  LET c == calculations[n] IN
                 /\ readings[c.start].time <= readings[c.end].time
                 /\ c.consumption = readings[c.end].value - readings[c.start].value
                 /\ c.consumption >= 0
        <3>1. PICK c : c = calculations[n]
            OBVIOUS
        <3>2. Typed /\ n \in 1..Len(calculations) /\ CalculationInv(c)
            BY <2>1, <2>2, <3>1 DEF IInv, Typed
        <3>3. readings[c.start].time <= readings[c.end].time
            BY <3>2, BilledIsNatural DEF CalculationInv
        <3>4. QED
            BY <3>1, <3>2, <3>3 DEF CalculationInv, Billable, Consumption
    <2>3. IntervalsForward
        BY <2>2 DEF IntervalsForward
    <2>4. DefaultsForward
        <3>1. ASSUME NEW i \in Instances, dialog[i].from # dialog[i].to
              PROVE  readings[dialog[i].from].time <= readings[dialog[i].to].time
            <4>1. PICK from, to : from = dialog[i].from /\ to = dialog[i].to
                OBVIOUS
            <4>2. from \in 1..Len(readings) /\ to \in 1..Len(readings) /\ Before(from, to)
                BY <2>1, <3>1, <4>1 DEF IInv, DialogInv
            <4>3. readings \in Seq(Reading) /\ Times \subseteq Nat
                BY <2>1, ReadingsAssumption DEF IInv, Typed, TypeOK
            <4>4. readings[from] \in Reading /\ readings[to] \in Reading
                BY <4>2, <4>3
            <4>5. readings[from].time \in Nat /\ readings[to].time \in Nat
                BY <4>3, <4>4 DEF Reading
            <4>6. readings[from].time <= readings[to].time
                BY <4>2, <4>5 DEF Before
            <4>7. QED
                BY <4>1, <4>6
        <3>2. QED
            BY <3>1 DEF DefaultsForward
    <2>5. QED
        BY <2>3, <2>4 DEF ForwardOnly
<1>2. QED
    BY Invariant, <1>1, PTL

\* A calculation is saved with the consumption that the preview showed and the
\* price that was entered, and all as shown unless a calculation or a currency
\* was saved since its dialog was prepared (billing_service.py,
\* save_calculation).
THEOREM SavedIsShown == Spec => []SavedAsShown
<1>1. IInv => SavedAsShown
    <2>1. SUFFICES ASSUME IInv PROVE SavedAsShown
        OBVIOUS
    <2>2. calculations \in Seq(Saved)
        BY <2>1 DEF IInv, Typed
    <2>3. QED
        BY <2>1, <2>2 DEF IInv, CalculationInv, SavedAsShown
<1>2. QED
    BY Invariant, <1>1, PTL
-----------------------------------------------------------------------------
(* Consecutive calculations *)

\* The default start of a dialog since whose preparation no calculation was
\* saved is the end of the latest one: its readings were counted after that one
\* was saved.  What such a dialog is about to save is created after all others.
Connecting(d, j) ==
    /\ d.open /\ d.unsaved /\ calculations # <<>> => d.from = LatestEnd
    /\ j.step \in {"context", "recontext"} /\ d.unsaved =>
          \A n \in 1..Len(calculations) : calculations[n].end <= j.count
    /\ j.step = "commit" /\ d.unsaved =>
          \A n \in 1..Len(calculations) : calculations[n].created <= j.created

\* If the last calculation that was committed came from such a dialog, it is
\* the latest by its creation too.
LastIsLatest == calculations # <<>> /\ calculations[Len(calculations)].unsaved =>
    \A n \in 1..Len(calculations) :
        calculations[n].created <= calculations[Len(calculations)].created

Connected == /\ \A i \in Instances : Connecting(dialog[i], job[i])
             /\ LastIsLatest

\* There is a latest one among the first calculations.
LEMMA LatestExists ==
    ASSUME calculations \in Seq(Saved), NEW n \in 1..Len(calculations)
    PROVE  /\ Latest(n) \in 1..n
           /\ \A b \in (1..n) \ {Latest(n)} :
                 \/ calculations[b].created < calculations[Latest(n)].created
                 \/ calculations[b].created = calculations[Latest(n)].created /\ b < Latest(n)
<1>1. PICK created : created = [a \in 1..n |-> calculations[a].created]
    OBVIOUS
<1>2. ASSUME NEW a \in 1..n
      PROVE  created[a] = calculations[a].created /\ created[a] \in Nat
    <2>1. a \in 1..Len(calculations)
        OBVIOUS
    <2>2. calculations[a] \in Saved
        BY <2>1
    <2>3. calculations[a].created \in Stamps
        BY <2>2 DEF Saved
    <2>4. QED
        BY <1>1, <2>3, ReadingsAssumption DEF Stamps
<1> DEFINE Later(a, b) == created[a] > created[b] \/ (created[a] = created[b] /\ b < a)
<1>3. /\ \A a, b \in 1..n : a # b => Later(a, b) \/ Later(b, a)
      /\ \A a \in 1..n : ~Later(a, a)
      /\ \A a, b, c \in 1..n : Later(a, b) /\ Later(b, c) => Later(a, c)
      /\ \A a, b \in 1..n : Later(a, b) =>
            (created[b] < created[a] \/ (created[b] = created[a] /\ b < a))
    BY <1>2
<1> HIDE DEF Later
<1>4. PICK R : R = {p \in (1..n) \X (1..n) : Later(p[1], p[2])}
    OBVIOUS
<1>5. \A a, b \in 1..n : <<a, b>> \in R <=> Later(a, b)
    BY <1>4
<1>6. \E a \in 1..n : \A b \in (1..n) \ {a} : <<a, b>> \in R
    <2>1. n \in Nat /\ n # 0
        OBVIOUS
    <2>2. \A a, b \in 1..n : a # b => <<a, b>> \in R \/ <<b, a>> \in R
        BY <1>3, <1>5
    <2>3. \A a \in 1..n : <<a, a>> \notin R
        BY <1>3, <1>5
    <2>4. \A a, b, c \in 1..n : <<a, b>> \in R /\ <<b, c>> \in R => <<a, c>> \in R
        BY <1>3, <1>5
    <2>5. QED
        BY <2>1, <2>2, <2>3, <2>4, FirstExists
<1>7. PICK a \in 1..n : \A b \in (1..n) \ {a} : <<a, b>> \in R
    BY <1>6
<1>8. ASSUME NEW b \in (1..n) \ {a}
      PROVE  \/ calculations[b].created < calculations[a].created
             \/ calculations[b].created = calculations[a].created /\ b < a
    <2>1. created[b] < created[a] \/ (created[b] = created[a] /\ b < a)
        BY <1>3, <1>5, <1>7
    <2>2. QED
        BY <1>2, <2>1
<1>9. QED
    BY <1>8 DEF Latest

\* The end of the latest calculation is a reading, and one of those that a
\* dialog counted after it was saved.
LEMMA LatestEndIsReading ==
    ASSUME IInv, calculations # <<>>
    PROVE  /\ LatestEnd = calculations[Latest(Len(calculations))].end
           /\ Latest(Len(calculations)) \in 1..Len(calculations)
           /\ LatestEnd \in 1..Len(readings)
<1>1. calculations \in Seq(Saved)
    BY DEF IInv, Typed
<1>2. Len(calculations) \in 1..Len(calculations)
    BY <1>1
<1>3. Latest(Len(calculations)) \in 1..Len(calculations)
    BY <1>1, <1>2, LatestExists
<1>4. LatestEnd = calculations[Latest(Len(calculations))].end
    BY DEF LatestEnd
<1>5. QED
    BY <1>3, <1>4 DEF IInv, CalculationInv

\* A step of one dialog that leaves the database leaves the others connected.
LEMMA ConnectOne ==
    ASSUME IInv, Connected, calculations' = calculations, NEW i \in Instances,
           \A k \in Instances \ {i} :
               /\ dialog'[k].open = dialog[k].open /\ dialog'[k].unsaved = dialog[k].unsaved
               /\ dialog'[k].from = dialog[k].from /\ job'[k] = job[k],
           Connecting(dialog'[i], job'[i])
    PROVE  Connected'
<1>1. ASSUME NEW n PROVE Latest(n)' = Latest(n)
    BY Zenon DEF Latest
<1>2. LatestEnd' = LatestEnd
    BY <1>1 DEF LatestEnd
<1>3. ASSUME NEW k \in Instances PROVE Connecting(dialog[k], job[k])'
    <2>1. PICK d, j : d = dialog'[k] /\ j = job'[k]
        OBVIOUS
    <2>2. Connecting(d, j)
        <3>1. CASE k = i
            BY <2>1, <3>1
        <3>2. CASE k # i
            <4>1. /\ d.open = dialog[k].open /\ d.unsaved = dialog[k].unsaved
                  /\ d.from = dialog[k].from /\ j = job[k]
                BY <2>1, <3>2
            <4>2. QED
                BY <4>1 DEF Connected, Connecting
        <3>3. QED
            BY <3>1, <3>2
    <2>3. QED
        BY <1>2, <2>1, <2>2 DEF Connecting
<1>4. LastIsLatest'
    BY DEF Connected, LastIsLatest
<1>5. QED
    BY <1>3, <1>4 DEF Connected

LEMMA SameConnected ==
    ASSUME Connected, UNCHANGED vars \/ AddReading PROVE Connected'
<1>1. calculations' = calculations /\ dialog' = dialog /\ job' = job
    BY DEF vars, AddReading
<1>2. ASSUME NEW n PROVE Latest(n)' = Latest(n)
    BY <1>1, Zenon DEF Latest
<1>3. LatestEnd' = LatestEnd
    BY <1>1, <1>2 DEF LatestEnd
<1>4. ASSUME NEW i \in Instances PROVE Connecting(dialog[i], job[i])'
    BY <1>1, <1>3 DEF Connected, Connecting
<1>5. LastIsLatest'
    BY <1>1 DEF Connected, LastIsLatest
<1>6. QED
    BY <1>4, <1>5 DEF Connected

\* A step that saves nothing.
LEMMA ConnectUnsaved ==
    ASSUME IInv, Connected, NEW i \in Instances,
           \/ ChangeCurrency(i) \/ User(i) \/ ReadingsRead(i) \/ Prepared(i)
           \/ Reloaded(i) \/ Read(i) \/ Break(i)
    PROVE  Connected'
<1>1. /\ dialog \in [Instances -> Dialogs] /\ job \in [Instances -> Jobs]
      /\ calculations \in Seq(Saved) /\ Connecting(dialog[i], job[i])
    BY DEF IInv, Typed, TypeOK, Connected
<1>2. calculations' = calculations
    BY DEF ChangeCurrency, User, Calculate, ImportCloud, Save, Close, ReadingsRead,
           Prepared, Reloaded, Read, Break, database
<1>3. ASSUME NEW k \in Instances \ {i}
      PROVE  /\ dialog'[k].open = dialog[k].open /\ dialog'[k].unsaved = dialog[k].unsaved
             /\ dialog'[k].from = dialog[k].from /\ job'[k] = job[k]
    <2>1. CASE ChangeCurrency(i)
        <3>1. dialog'[k] = [dialog[k] EXCEPT !.settled = FALSE]
            BY <1>1, <2>1, OvertakenAt DEF ChangeCurrency, IInv
        <3>2. dialog[k] \in Dialogs
            BY <1>1
        <3>3. QED
            BY <2>1, <3>1, <3>2 DEF ChangeCurrency, Dialogs
    <2>2. CASE User(i) \/ ReadingsRead(i) \/ Prepared(i) \/ Reloaded(i) \/ Read(i) \/ Break(i)
        <3>1. CASE Calculate(i)
            BY <1>1, <3>1 DEF Calculate, Show, Become
        <3>2. CASE ImportCloud(i)
            BY <1>1, <3>2 DEF ImportCloud, Become
        <3>3. CASE Save(i)
            BY <1>1, <3>3 DEF Save, Become
        <3>4. CASE Close(i)
            BY <1>1, <3>4 DEF Close, Show, Become
        <3>5. CASE ReadingsRead(i)
            BY <1>1, <3>5 DEF ReadingsRead, Become
        <3>6. CASE Prepared(i)
            BY <1>1, <3>6 DEF Prepared, Show, Become
        <3>7. CASE Reloaded(i)
            BY <1>1, <3>7 DEF Reloaded, Show, Become
        <3>8. CASE Read(i)
            BY <1>1, <3>8 DEF Read, Become
        <3>9. CASE Break(i)
            BY <1>1, <3>9 DEF Break, Become
        <3>10. QED
            BY <2>2, <3>1, <3>2, <3>3, <3>4, <3>5, <3>6, <3>7, <3>8, <3>9 DEF User
    <2>3. QED
        BY <2>1, <2>2
<1>4. Connecting(dialog'[i], job'[i])
    <2>1. CASE ChangeCurrency(i)
        <3>1. dialog'[i] = Closed /\ job'[i] = job[i] /\ job[i].step = "idle"
            BY <1>1, <2>1, OvertakenAt DEF ChangeCurrency, IInv, Idle
        <3>2. QED
            BY <3>1 DEF Connecting, Closed
    <2>2. CASE Calculate(i)
        <3>1. dialog'[i] = Closed /\ job'[i].step = "prepare"
            BY <1>1, <2>2 DEF Calculate, Show, Become, NoJob
        <3>2. QED
            BY <3>1 DEF Connecting, Closed
    <2>3. CASE ImportCloud(i)
        <3>1. dialog'[i] = dialog[i] /\ job'[i].step = "reload"
            BY <1>1, <2>3 DEF ImportCloud, Become, NoJob
        <3>2. QED
            BY <1>1, <3>1 DEF Connecting
    <2>4. CASE Save(i)
        <3>1. dialog'[i] = dialog[i] /\ job'[i].step = "read"
            BY <1>1, <2>4 DEF Save, Become, NoJob
        <3>2. QED
            BY <1>1, <3>1 DEF Connecting
    <2>5. CASE Close(i)
        <3>1. dialog'[i] = Closed /\ job'[i] = NoJob
            BY <1>1, <2>5 DEF Close, Show, Become
        <3>2. QED
            BY <3>1 DEF Connecting, Closed, NoJob
    <2>6. CASE ReadingsRead(i)
        <3>1. dialog'[i] = dialog[i] /\ job'[i].count = Len(readings)
            BY <1>1, <2>6 DEF ReadingsRead, Become, database, Jobs
        <3>2. Len(readings) \in Nat
            BY DEF IInv, Typed, TypeOK
        <3>3. \A n \in 1..Len(calculations) : calculations[n].end <= Len(readings)
            BY <3>2 DEF IInv, CalculationInv
        <3>4. job'[i].step # "commit"
            BY <1>1, <2>6 DEF ReadingsRead, Become, Jobs
        <3>5. QED
            BY <1>1, <3>1, <3>3, <3>4 DEF Connecting
    <2>7. CASE Prepared(i) \/ Reloaded(i)
        <3>1. PICK from, n : from = DefaultStart(job[i].count) /\ n = job[i].count
            OBVIOUS
        <3>2. /\ dialog'[i].from = from /\ dialog'[i].unsaved = dialog[i].unsaved
              /\ job'[i].step = "idle"
            <4>1. PICK to, remembered : /\ to = DefaultEnd(n)
                                        /\ remembered = Remembered(job[i].currency)
                OBVIOUS
            <4>2. Context(i, dialog[i]) = [dialog[i] EXCEPT !.open = TRUE, !.count = n,
                      !.from = from, !.to = to, !.remembered = remembered,
                      !.currency = job[i].currency]
                BY <3>1, <4>1 DEF Context
            <4>3. dialog'[i] \in {Context(i, dialog[i]),
                      [Context(i, dialog[i]) EXCEPT !.saveCurrency = job[i].currency]}
                BY <1>1, <2>7 DEF Prepared, Reloaded, Show
            <4>4. job'[i] = NoJob
                BY <1>1, <2>7 DEF Prepared, Reloaded, Become
            <4>5. dialog[i] \in Dialogs
                BY <1>1
            <4>6. PICK c : c = Context(i, dialog[i])
                OBVIOUS
            <4>7. c.from = from /\ c.unsaved = dialog[i].unsaved /\ c \in Dialogs
                <5>1. At(i, "context") \/ At(i, "recontext")
                    BY <2>7 DEF Prepared, Reloaded
                <5>2. c \in Dialogs /\ c.unsaved = dialog[i].unsaved
                    BY <4>6, <5>1, ContextIsGood
                <5>3. c.from = from
                    BY <4>2, <4>5, <4>6 DEF Dialogs
                <5>4. QED
                    BY <5>2, <5>3
            <4>8. /\ dialog'[i] \in {c, [c EXCEPT !.saveCurrency = job[i].currency]}
                  /\ job'[i].step = "idle"
                BY <4>3, <4>4, <4>6 DEF NoJob
            <4>9. QED
                BY <4>7, <4>8 DEF Dialogs
        <3>3. ASSUME dialog[i].unsaved, calculations # <<>> PROVE from = LatestEnd
            <4>1. /\ LatestEnd = calculations[Latest(Len(calculations))].end
                  /\ Latest(Len(calculations)) \in 1..Len(calculations)
                  /\ LatestEnd \in 1..Len(readings)
                BY <3>3, LatestEndIsReading
            <4>2. job[i].step \in {"context", "recontext"}
                BY <2>7 DEF Prepared, Reloaded, At
            <4>3. LatestEnd <= n
                BY <1>1, <3>1, <3>3, <4>1, <4>2 DEF Connecting
            <4>4. n \in Nat /\ Len(readings) \in Nat
                BY <1>1, <3>1, ReadingsAssumption DEF Jobs, Ids, IInv, Typed, TypeOK
            <4>5. LatestEnd \in 1..n /\ n # 0
                BY <4>1, <4>3, <4>4
            <4>6. QED
                BY <3>1, <4>5 DEF DefaultStart
        <3>4. QED
            BY <3>2, <3>3 DEF Connecting
    <2>8. CASE Read(i)
        <3>1. dialog' = dialog
            BY <2>8 DEF Read
        <3>2. CASE job'[i] = NoJob
            BY <1>1, <3>1, <3>2 DEF Connecting, NoJob
        <3>3. CASE job'[i] # NoJob
            <4>1. ~Become(i, NoJob)
                BY <1>1, <3>3 DEF Become
            <4>2. PICK created, price, consumption :
                      created \in Now /\ Become(i, [job[i] EXCEPT !.step = "commit", !.price = price,
                                     !.created = created, !.consumption = consumption])
                BY <2>8, <4>1 DEF Read
            <4>3. job'[i].step = "commit" /\ job'[i].created = created
                BY <1>1, <4>2 DEF Become, Jobs
            <4>4. \A n \in 1..Len(calculations) : calculations[n].created <= created
                BY <1>1, <4>2 DEF Now, Stamped
            <4>5. QED
                BY <1>1, <3>1, <4>3, <4>4 DEF Connecting
        <3>4. QED
            BY <3>2, <3>3
    <2>9. CASE Break(i)
        <3>1. dialog'[i] = dialog[i] /\ job'[i].step = "idle"
            BY <1>1, <2>9 DEF Break, Become, NoJob
        <3>2. QED
            BY <1>1, <3>1 DEF Connecting
    <2>10. QED
        BY <2>1, <2>2, <2>3, <2>4, <2>5, <2>6, <2>7, <2>8, <2>9 DEF User
<1>5. QED
    BY <1>2, <1>3, <1>4, ConnectOne

\* A calculation that is saved overtakes every dialog; it is the latest if its
\* own had not been overtaken.
LEMMA ConnectSaved ==
    ASSUME IInv, Connected, NEW i \in Instances, Commit(i) PROVE Connected'
<1>1. PICK c : /\ calculations' = Append(calculations, c)
               /\ c.created = job[i].created /\ c.unsaved = dialog[i].unsaved
    BY DEF Commit
<1>2. /\ dialog \in [Instances -> Dialogs] /\ job \in [Instances -> Jobs]
      /\ calculations \in Seq(Saved) /\ Typed
    BY DEF IInv, Typed, TypeOK
<1>3. /\ \A a \in 1..Len(calculations) : calculations'[a] = calculations[a]
      /\ Len(calculations) \in Nat /\ calculations'[Len(calculations) + 1] = c
      /\ Len(calculations') = Len(calculations) + 1
    BY <1>1, <1>2
<1>4. ASSUME NEW k \in Instances PROVE Connecting(dialog[k], job[k])'
    <2>1. CASE ~dialog'[k].unsaved
        BY <2>1 DEF Connecting
    <2>2. CASE dialog'[k].unsaved
        <3>1. [dialog[k] EXCEPT !.unsaved = FALSE].unsaved = FALSE
            BY <1>2 DEF Dialogs
        <3>2. k = i /\ dialog'[k] = Closed
            BY <1>2, <2>2, <3>1, OvertakenAt DEF Commit
        <3>3. job'[k] = NoJob
            BY <1>2, <3>2 DEF Commit, Become
        <3>4. QED
            BY <3>2, <3>3 DEF Connecting, Closed, NoJob
    <2>3. QED
        BY <2>1, <2>2
<1>5. ASSUME c.unsaved, NEW n \in 1..Len(calculations) + 1
      PROVE  calculations'[n].created <= c.created
    <2>1. c.created \in Nat
        BY <1>1, <1>2, ReadingsAssumption DEF Jobs, Stamps
    <2>2. CASE n \in 1..Len(calculations)
        <3>1. job[i].step = "commit" /\ dialog[i].unsaved
            BY <1>1, <1>5 DEF Commit, At
        <3>2. calculations[n].created <= job[i].created
            BY <2>2, <3>1 DEF Connected, Connecting
        <3>3. QED
            BY <1>1, <1>3, <2>2, <3>2
    <2>3. CASE n = Len(calculations) + 1
        BY <1>3, <2>1, <2>3
    <2>4. QED
        BY <1>3, <2>2, <2>3
<1>6. LastIsLatest'
    BY <1>3, <1>5 DEF LastIsLatest
<1>7. QED
    BY <1>4, <1>6 DEF Connected

\* Consecutive bills leave no gap and no overlap: the default start is the end
\* of the last calculation, unless one was saved since the dialog was prepared
\* or that one came from an overtaken dialog (billing_service.py, prepare, and
\* calculations.py, latest_for_device, with the dialog that is reloaded).
THEOREM ConsecutiveBillsConnect == Spec => []BillsConnect
<1>1. Init => Connected
    <2>1. SUFFICES ASSUME Init PROVE Connected
        OBVIOUS
    <2>2. /\ calculations = <<>> /\ dialog = [i \in Instances |-> Closed]
          /\ job = [i \in Instances |-> NoJob]
        BY <2>1 DEF Init
    <2>3. ASSUME NEW i \in Instances PROVE Connecting(dialog[i], job[i])
        BY <2>2 DEF Connecting, NoJob
    <2>4. QED
        BY <2>2, <2>3 DEF Connected, LastIsLatest
<1>2. IInv /\ Connected /\ [Next]_vars => Connected'
    <2>1. SUFFICES ASSUME IInv, Connected, [Next]_vars PROVE Connected'
        OBVIOUS
    <2>2. CASE AddReading
        BY <2>1, <2>2, SameConnected
    <2>3. ASSUME NEW i \in Instances, ChangeCurrency(i) \/ User(i) \/ Worker(i)
          PROVE  Connected'
        BY <2>1, <2>3, ConnectUnsaved, ConnectSaved DEF Worker
    <2>4. CASE UNCHANGED vars
        BY <2>1, <2>4, SameConnected
    <2>5. QED
        BY <2>1, <2>2, <2>3, <2>4 DEF Next
<1>3. IInv /\ Connected => BillsConnect
    <2>1. SUFFICES ASSUME IInv, Connected, NEW i \in Instances,
                          dialog[i].open, dialog[i].unsaved, calculations # <<>>,
                          Last(calculations).unsaved
                   PROVE  dialog[i].from = Last(calculations).end
        BY DEF BillsConnect
    <2>2. PICK last : last = Len(calculations)
        OBVIOUS
    <2>3. /\ calculations \in Seq(Saved) /\ last \in 1..Len(calculations)
          /\ Last(calculations) = calculations[last]
        <3>1. calculations \in Seq(Saved)
            BY <2>1 DEF IInv, Typed
        <3>2. QED
            BY <2>1, <2>2, <3>1 DEF Last
    <2>4. ASSUME NEW n \in 1..last PROVE calculations[n].created \in Nat
        <3>1. calculations[n] \in Saved
            BY <2>2, <2>3
        <3>2. calculations[n].created \in Stamps
            BY <3>1 DEF Saved
        <3>3. QED
            BY <3>2, ReadingsAssumption DEF Stamps
    <2>5. \A n \in 1..last : calculations[n].created <= calculations[last].created
        BY <2>1, <2>2, <2>3 DEF Connected, LastIsLatest
    <2>6. /\ Latest(last) \in 1..last
          /\ \A b \in (1..last) \ {Latest(last)} :
                \/ calculations[b].created < calculations[Latest(last)].created
                \/ calculations[b].created = calculations[Latest(last)].created /\ b < Latest(last)
        BY <2>3, LatestExists
    <2>7. PICK a : a = Latest(last)
        OBVIOUS
    <2>8. a = last
        BY <2>3, <2>4, <2>5, <2>6, <2>7
    <2>9. LatestEnd = calculations[last].end
        BY <2>1, <2>2, <2>7, <2>8 DEF LatestEnd
    <2>10. QED
        BY <2>1, <2>3, <2>9 DEF Connected, Connecting
<1>4. QED
    BY Invariant, <1>1, <1>2, <1>3, PTL DEF Spec
=============================================================================
