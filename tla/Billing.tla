------------------------------ MODULE Billing ------------------------------
(***************************************************************************)
(* services/billing_service.py and domain/billing.py with the dialog that  *)
(* uses them: a context of readings, default interval and remembered price *)
(* is prepared, shown as a preview while the user selects, perhaps         *)
(* reloaded by a cloud import, and saved as a calculation together with    *)
(* the price preference.  Several instances share the database.            *)
(*                                                                         *)
(* One meter, whose readings all have a known unit.  A reading's position  *)
(* is its id; its time may be earlier than that of readings with smaller   *)
(* ids, since imports add history.                                         *)
(***************************************************************************)
EXTENDS Integers, SequencesExt

CONSTANTS Instances,
          Times, Values,    \* recorded_at_utc and value_kwh of readings
          Prices, Currencies,
          Blank,            \* no price or currency: an empty field, nothing saved
          FirstReadings,    \* the readings there are to begin with
          LaterReadings,    \* readings that may be added
          MaxReadings, MaxCalculations   \* bounds

Reading == [time : Times, value : Values]

ASSUME PricesAssumption == Blank \notin Prices \cup Currencies
ASSUME ReadingsAssumption ==
    /\ Times \subseteq Nat /\ Values \subseteq Nat
    /\ FirstReadings \in Seq(Reading) /\ LaterReadings \subseteq Reading
    /\ MaxReadings \in Nat /\ MaxCalculations \in Nat
    /\ Len(FirstReadings) <= MaxReadings

VARIABLES readings, calculations, preference, currency,  \* the database
          dialog,   \* the calculation dialog of each instance
          job       \* its worker

vars == <<readings, calculations, preference, currency, dialog, job>>
database == <<readings, calculations, preference, currency>>

Ids == 0..MaxReadings      \* 0: none
MaybePrices == Prices \cup {Blank}
MaybeCurrencies == Currencies \cup {Blank}

\* What the dialog shows of a bill before it is saved, if it shows one.
NoPreview == [consumption |-> 0, price |-> Blank, currency |-> Blank]
Bills == [consumption : Nat, price : MaybePrices, currency : MaybeCurrencies]

Dialogs == [open : BOOLEAN,
            count : Ids,                       \* readings of the context
            from : Ids, to : Ids,              \* its default interval
            remembered : MaybePrices,
            currency : MaybeCurrencies,        \* context.currency
            saveCurrency : MaybeCurrencies,    \* payload.currency of save_workflow
            unsaved : BOOLEAN,   \* ghost: no calculation was saved since it was prepared
            settled : BOOLEAN]   \* ghost: the currency was not changed since then

Stamps == 0..(MaxCalculations + 1)   \* created_at_utc by its order, bounded

Jobs == [step : {"idle", "prepare", "context", "reload", "recontext",
                 "read", "commit"},
         count : Ids,      \* readings found
         start : Ids, end : Ids, price : MaybePrices, currency : MaybeCurrencies,
         consumption : Nat, created : Stamps,
         typed : BOOLEAN,  \* ghost: the price was entered
         shown : Bills]    \* ghost: the preview when Save was clicked

Closed == [open |-> FALSE, count |-> 0, from |-> 0, to |-> 0, remembered |-> Blank,
           currency |-> Blank, saveCurrency |-> Blank, unsaved |-> TRUE, settled |-> TRUE]
NoJob == [step |-> "idle", count |-> 0, start |-> 0, end |-> 0, price |-> Blank,
          currency |-> Blank, consumption |-> 0, created |-> 0, typed |-> FALSE, shown |-> NoPreview]

Init == /\ readings = FirstReadings /\ calculations = <<>>
        /\ preference = [price |-> Blank, currency |-> Blank]
        /\ currency \in Currencies
        /\ dialog = [i \in Instances |-> Closed]
        /\ job = [i \in Instances |-> NoJob]

Idle(i) == job[i].step = "idle"
At(i, step) == job[i].step = step
Become(i, j) == job' = [job EXCEPT ![i] = j]
Show(i, d) == dialog' = [dialog EXCEPT ![i] = d]

\* A calculation or a currency was saved: what the dialogs show may be out of
\* date.
Overtaken == [j \in Instances |-> [dialog[j] EXCEPT !.unsaved = FALSE]]
Unsettled == [j \in Instances |-> [dialog[j] EXCEPT !.settled = FALSE]]

\* Nothing was saved since the dialog was prepared, or until the calculation
\* was committed.
Fresh(d) == d.unsaved /\ d.settled

\* The dialog showed a bill.
Previewed(bill) == bill.price # Blank

-----------------------------------------------------------------------------
(* The arithmetic of domain/billing.py *)

\* Mutant: ids instead of times.
BeforeById(a, b) == a < b

\* The order of readings: by recorded_at_utc, then by id.
Before(a, b) == \/ readings[a].time < readings[b].time
                \/ readings[a].time = readings[b].time /\ a < b

Consumption(start, end) == readings[end].value - readings[start].value

\* calculate_consumption raises no error.
Billable(start, end) == start # end /\ Before(start, end) /\ Consumption(start, end) >= 0

\* resolve_unit_price.
UnitPrice(typed, remembered) == IF typed # Blank THEN typed ELSE remembered

\* Mutant: whatever currency the price was saved in.
RememberedAnyway(c) == preference.price

\* The remembered price, unless it was saved in another currency.
Remembered(c) == IF preference.currency = c THEN preference.price ELSE Blank

Preview(d, start, end, typed) ==
    LET price == UnitPrice(typed, d.remembered) IN
    IF price = Blank THEN NoPreview
    ELSE [consumption |-> Consumption(start, end), price |-> price, currency |-> d.currency]

-----------------------------------------------------------------------------
(* What happens around a calculation *)

\* A capture or an import commits a reading.
AddReading == /\ Len(readings) < MaxReadings
              /\ \E r \in LaterReadings : readings' = Append(readings, r)
              /\ UNCHANGED <<calculations, preference, currency, dialog, job>>

\* The Settings dialog of an instance is open only while no other of its is.
ChangeCurrency(i) == /\ ~dialog[i].open /\ Idle(i)
                     /\ Len(calculations) < MaxCalculations
                     /\ currency' \in Currencies \ {currency}
                     /\ dialog' = [Unsettled EXCEPT ![i] = Closed]
                     /\ UNCHANGED <<readings, calculations, preference, job>>

-----------------------------------------------------------------------------
(* Preparing a context *)

\* The currency is read before the rest, for an import long before.
Calculate(i) == /\ ~dialog[i].open /\ Idle(i)
                /\ Become(i, [NoJob EXCEPT !.step = "prepare", !.currency = currency])
                /\ Show(i, Closed)
                /\ UNCHANGED database

ImportCloud(i) == /\ dialog[i].open /\ Idle(i)
                  /\ Len(calculations) < MaxCalculations
                  /\ Become(i, [NoJob EXCEPT !.step = "reload", !.currency = currency])
                  /\ UNCHANGED <<database, dialog>>

\* The readings, the latest calculation and the preference are read one after
\* the other, without a transaction.
ReadingsRead(i) == /\ \/ At(i, "prepare") /\ Become(i, [job[i] EXCEPT
                              !.step = "context", !.count = Len(readings)])
                      \/ At(i, "reload") /\ Become(i, [job[i] EXCEPT
                              !.step = "recontext", !.count = Len(readings)])
                   /\ UNCHANGED <<database, dialog>>

Earliest(n) == CHOOSE a \in 1..n : \A b \in (1..n) \ {a} : Before(a, b)
Newest(n) == CHOOSE a \in 1..n : \A b \in (1..n) \ {a} : Before(b, a)

\* Mutant: the calculation that was created first.
LatestReversed(n) == CHOOSE a \in 1..n : \A b \in 1..n : calculations[a].created <= calculations[b].created

\* latest_for_device, by created_at_utc and then by id, among the first n
\* calculations.
Latest(n) == CHOOSE a \in 1..n : \A b \in (1..n) \ {a} :
    \/ calculations[b].created < calculations[a].created
    \/ calculations[b].created = calculations[a].created /\ b < a
LatestEnd == IF calculations = <<>> THEN 0 ELSE calculations[Latest(Len(calculations))].end

\* The end of the latest calculation if it was found, or else the earliest
\* reading.
DefaultStart(n) == IF n = 0 THEN 0 ELSE IF LatestEnd \in 1..n THEN LatestEnd ELSE Earliest(n)

DefaultEnd(n) == IF n = 0 THEN 0 ELSE Newest(n)

\* BillingService.prepare, shown in the dialog d.  It reads the latest
\* calculation and then the preference; that this is one step hides only a save
\* between the two, after which the dialog is not unsaved any more.
Context(i, d) == [d EXCEPT !.open = TRUE, !.count = job[i].count,
                           !.from = DefaultStart(job[i].count), !.to = DefaultEnd(job[i].count),
                           !.remembered = Remembered(job[i].currency),
                           !.currency = job[i].currency]

Prepared(i) == /\ At(i, "context")
               /\ Show(i, [Context(i, dialog[i]) EXCEPT !.saveCurrency = job[i].currency])
               /\ Become(i, NoJob)
               /\ UNCHANGED database

\* _save_finished after an import: a new context, but save_workflow keeps the
\* currency it was made with.
Reloaded(i) == /\ At(i, "recontext")
               /\ Show(i, Context(i, dialog[i]))
               /\ Become(i, NoJob)
               /\ UNCHANGED database

-----------------------------------------------------------------------------
(* The user *)

\* The user selects an interval, enters a price or none, sees the preview and
\* saves, which is possible without a preview too.  An interval that the
\* worker is going to reject is left out: readings never change, so that the
\* rejection is certain, and it has no effect.
Save(i) == /\ dialog[i].open /\ Idle(i)
           /\ Len(calculations) < MaxCalculations
           /\ \E start, end \in 1..dialog[i].count, typed \in MaybePrices :
                 /\ Billable(start, end)
                 /\ Become(i, [NoJob EXCEPT
                       !.step = "read", !.start = start, !.end = end, !.price = typed,
                       !.currency = dialog[i].saveCurrency, !.typed = typed # Blank,
                       !.shown = Preview(dialog[i], start, end, typed)])
           /\ UNCHANGED <<database, dialog>>

\* A dialog at work goes away: it forgets an import, and waits for a save.
Close(i) == /\ dialog[i].open /\ (Idle(i) \/ At(i, "reload") \/ At(i, "recontext"))
            /\ Show(i, Closed) /\ Become(i, NoJob)
            /\ UNCHANGED database

-----------------------------------------------------------------------------
(* Saving.  The insert of the calculation and that of the preference are one *)
(* transaction, which nobody sees before its end and which excludes others.  *)

\* Mutant: a remembered price goes before the one that was entered.
RememberedFirst(i) == UnitPrice(Remembered(job[i].currency), job[i].price)

PriceToSave(i) == UnitPrice(job[i].price, Remembered(job[i].currency))

Stamped == {0} \cup {calculations[n].created : n \in DOMAIN calculations}
               \cup {job[i].created : i \in Instances}

\* The system clock: the time of the last stamp, or the next one.  It is assumed
\* not to be set back while calculations are saved.
Now == {t \in Stamps \ {0} : (\A u \in Stamped : u <= t) /\ (\E u \in Stamped : t <= u + 1)}

\* The reads and the checks of save_calculation.
Read(i) == /\ At(i, "read")
           /\ \/ /\ PriceToSave(i) = Blank
                 /\ Become(i, NoJob)
              \/ /\ PriceToSave(i) # Blank
                 /\ \E created \in Now : Become(i, [job[i] EXCEPT
                      !.step = "commit", !.price = PriceToSave(i), !.created = created,
                      !.consumption = Consumption(job[i].start, job[i].end)])
           /\ UNCHANGED <<database, dialog>>

SavedPreference(i) == [price |-> job[i].price, currency |-> job[i].currency]

Bill(j) == [consumption |-> j.consumption, price |-> j.price, currency |-> j.currency]

\* What of a bill is as another one shows it.
Compared(shown, bill) == [consumption |-> shown.consumption = bill.consumption,
                          price |-> shown.price = bill.price,
                          currency |-> shown.currency = bill.currency]

\* The two inserts and the commit, after which the dialog closes, or stays when the time limit
\* passed since and the save is called failed.
Commit(i) ==
    /\ At(i, "commit") /\ Len(calculations) < MaxCalculations
    /\ calculations' = Append(calculations,
          [start |-> job[i].start, end |-> job[i].end, consumption |-> job[i].consumption,
           price |-> job[i].price, currency |-> job[i].currency, created |-> job[i].created,
           typed |-> job[i].typed, previewed |-> Previewed(job[i].shown),
           asShown |-> Compared(job[i].shown, Bill(job[i])),
           unsaved |-> dialog[i].unsaved, settled |-> dialog[i].settled])
    /\ preference' = SavedPreference(i)
    /\ Become(i, NoJob)
    /\ dialog' \in {Overtaken, [Overtaken EXCEPT ![i] = Closed]}
    /\ UNCHANGED <<readings, currency>>

\* A cancel, a timeout or the database stops the work, which rolls back.
Break(i) == /\ ~Idle(i)
            /\ Become(i, NoJob)
            /\ UNCHANGED <<database, dialog>>

User(i) == Calculate(i) \/ ImportCloud(i) \/ Save(i) \/ Close(i)
Worker(i) == ReadingsRead(i) \/ Prepared(i) \/ Reloaded(i) \/ Read(i) \/ Commit(i) \/ Break(i)

Next == \/ AddReading
        \/ \E i \in Instances : ChangeCurrency(i) \/ User(i) \/ Worker(i)

Spec == Init /\ [][Next]_vars

-----------------------------------------------------------------------------
(* Properties *)

\* Types of the database, the dialogs and the workers.
TypeOK == /\ readings \in Seq(Reading)
          /\ Len(readings) <= MaxReadings /\ Len(calculations) <= MaxCalculations
          /\ preference \in [price : MaybePrices, currency : MaybeCurrencies]
          /\ currency \in Currencies
          /\ dialog \in [Instances -> Dialogs]
          /\ job \in [Instances -> Jobs]

\* "Saved calculation values match the preview exactly"
\* (docs/IMPLEMENTATION_PLAN.md:159), although saving resolves the price and
\* takes the currency anew: the consumption always, the price whenever it was
\* entered, and all of the bill unless a calculation or a currency was saved
\* since the dialog was prepared.
SavedAsShown == \A n \in DOMAIN calculations :
    LET c == calculations[n] IN
    /\ c.previewed => c.asShown.consumption
    /\ c.typed => c.previewed /\ c.asShown.price
    /\ Fresh(c) => c.asShown.consumption /\ c.asShown.price /\ c.asShown.currency

\* What the same document says of the currency, without a condition: a
\* calculation is saved in the currency that its preview showed.
SavedInPreviewCurrency == \A n \in DOMAIN calculations :
    calculations[n].previewed => calculations[n].asShown.currency

\* A price that is saved without being entered was entered for an earlier
\* calculation of the same currency: a remembered price is never taken for
\* another currency than the one it was saved under.
PriceOfCurrency == \A n \in DOMAIN calculations : \E m \in 1..n :
    /\ calculations[m].typed
    /\ calculations[m].price = calculations[n].price
    /\ calculations[m].currency = calculations[n].currency

\* The preview of a calculation was in the currency it is saved under, unless
\* the setting was changed since the dialog was prepared.
CurrencyAsShown == \A n \in DOMAIN calculations :
    calculations[n].settled /\ calculations[n].previewed => calculations[n].asShown.currency

\* The calculation and the remembered price are saved together: what is
\* remembered is the price of the last calculation, whoever saved it.
PreferenceIsLast == calculations # <<>> =>
    /\ preference.price = Last(calculations).price
    /\ preference.currency = Last(calculations).currency

\* While the currency setting stays, a price is entered, shown, saved and
\* remembered under one currency; when it changes, a price saved under the old
\* one is not taken for the new one, and the price remembered for the next
\* calculation is the last one saved.  That a dialog which is reloaded after
\* a change shows one currency and saves another is left to
\* SavedInPreviewCurrency.
PricesKept == TypeOK /\ PriceOfCurrency /\ CurrencyAsShown /\ PreferenceIsLast

\* Saved intervals run forward in time and never bill a negative
\* consumption, also when an import has added readings of earlier days.
IntervalsForward == \A n \in DOMAIN calculations :
    LET c == calculations[n] IN
    /\ readings[c.start].time <= readings[c.end].time
    /\ c.consumption = readings[c.end].value - readings[c.start].value
    /\ c.consumption >= 0

\* The default interval of a context never runs backwards, whatever was
\* imported or saved by others before it was prepared.
DefaultsForward == \A i \in Instances :
    dialog[i].from # dialog[i].to =>
        readings[dialog[i].from].time <= readings[dialog[i].to].time

\* Whatever order imports and other instances give to ids and times, neither
\* what is proposed nor what is saved runs backwards.
ForwardOnly == IntervalsForward /\ DefaultsForward

\* Consecutive bills leave no gap and no overlap: the next one is proposed to
\* start where the last one committed ended, although it is looked up by the
\* time of creation, which is taken before the commit.  Except when a
\* calculation was saved since the dialog was prepared, or the last one came
\* from a dialog that had been overtaken in this way itself.
BillsConnect == \A i \in Instances :
    /\ dialog[i].open /\ dialog[i].unsaved
    /\ calculations # <<>> /\ Last(calculations).unsaved
    => dialog[i].from = Last(calculations).end
=============================================================================
