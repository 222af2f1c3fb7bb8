------------------------------ MODULE TaxPresets ------------------------------
(***************************************************************************)
(* Tax presets and the products on them (core/src/write/tax-rates.ts, and  *)
(* resolveTaxRate of write/products.ts).  A product keeps a copy of its    *)
(* preset's percent, which every change of the preset rewrites; the form   *)
(* of a product reads the preset before the save that copies it.           *)
(***************************************************************************)
EXTENDS Integers, FiniteSets

CONSTANTS
    Presets,       \* TaxRate rows
    Taxed,         \* products
    Percents,      \* percents in use
    TaxClerks,     \* calls that may be under way together
    MaxTaxCalls    \* bound: calls made

ASSUME TaxAssumption ==
    Percents \subseteq Nat /\ Percents # {} /\ "none" \notin Presets /\ MaxTaxCalls \in Nat

VARIABLES
    preset,      \* TaxRate: whether it is there, its percent, active, the default
    taxed,       \* Product: taxRateId and taxPercent
    clerk,       \* calls under way: what they read, and the presets changed since
    ignorant,    \* products whose save a change of their preset crossed
    unexplained, \* products whose preset was deleted from under them
    taxCalls     \* calls made

taxVars == <<preset, taxed, clerk, ignorant, unexplained, taxCalls>>

NoPreset == "none"
NotThere == [there |-> FALSE, percent |-> 0, active |-> FALSE, default |-> FALSE]
AtRest == [at |-> "idle", of |-> NoPreset, ware |-> NoPreset, row |-> NotThere, percent |-> 0, missed |-> {}]

TaxInit ==
    /\ preset = [r \in Presets |-> NotThere]
    /\ taxed = [i \in Taxed |-> [rate |-> NoPreset, percent |-> CHOOSE percent \in Percents : TRUE]]
    /\ clerk = [c \in TaxClerks |-> AtRest]
    /\ ignorant = {} /\ unexplained = {} /\ taxCalls = 0

There(r) == r \in Presets /\ preset[r].there
OnPreset(r) == {i \in Taxed : taxed[i].rate = r}

Begins(c, call) ==
    /\ clerk[c].at = "idle" /\ taxCalls < MaxTaxCalls
    /\ taxCalls' = taxCalls + 1
    /\ clerk' = [clerk EXCEPT ![c] = call]

\* A call that ends has changed the preset the others read, or what is on it.
Ends(c, changed) ==
    clerk' = [d \in TaxClerks |-> IF d = c THEN AtRest
                                  ELSE IF clerk[d].at = "idle" THEN clerk[d]
                                  ELSE [clerk[d] EXCEPT !.missed = @ \cup changed]]

-----------------------------------------------------------------------------
(* Presets *)

\* saveTaxRate, up to its transaction.
OpenPreset(c, r, row) ==
    /\ Begins(c, [AtRest EXCEPT !.at = IF There(r) THEN "update" ELSE "create", !.of = r, !.row = row])
    /\ UNCHANGED <<preset, taxed, ignorant, unexplained>>

\* At most one default.
StepDown(r, row) ==
    [q \in Presets |-> IF q # r /\ row.default THEN [preset[q] EXCEPT !.default = FALSE] ELSE preset[q]]

\* The cascade: every product on the preset takes its percent.
Repriced(r, percent) == [i \in Taxed |-> IF taxed[i].rate = r THEN [taxed[i] EXCEPT !.percent = percent] ELSE taxed[i]]

\* Its transaction; a preset deleted meanwhile is not brought back.
CommitPreset(c) ==
    LET call == clerk[c]
        fits == call.at = "update" <=> There(call.of)
    IN  /\ call.at \in {"update", "create"}
        /\ preset' = IF fits THEN [StepDown(call.of, call.row) EXCEPT ![call.of] = call.row] ELSE preset
        /\ taxed' = IF fits THEN Repriced(call.of, call.row.percent) ELSE taxed
        /\ ignorant' = IF fits THEN ignorant \ OnPreset(call.of) ELSE ignorant
        /\ Ends(c, {call.of})
        /\ UNCHANGED <<unexplained, taxCalls>>

InUse(r) == OnPreset(r) # {}

\* deleteTaxRate: one that a product is on is kept.
OpenDeletePreset(c, r) ==
    /\ There(r) /\ ~InUse(r)
    /\ Begins(c, [AtRest EXCEPT !.at = "delete", !.of = r])
    /\ UNCHANGED <<preset, taxed, ignorant, unexplained>>

\* The foreign key sets null what is on it by then.
CommitDeletePreset(c) ==
    LET r == clerk[c].of
    IN  /\ clerk[c].at = "delete"
        /\ preset' = [preset EXCEPT ![r] = NotThere]
        /\ taxed' = [i \in Taxed |-> IF taxed[i].rate = r THEN [taxed[i] EXCEPT !.rate = NoPreset] ELSE taxed[i]]
        /\ unexplained' = unexplained \cup (IF r \in clerk[c].missed THEN {} ELSE OnPreset(r))
        /\ ignorant' = ignorant \ OnPreset(r)
        /\ Ends(c, {r})
        /\ UNCHANGED taxCalls

-----------------------------------------------------------------------------
(* Products *)

\* resolveTaxRate: a preset that is named wins over the percent of the form.
ResolvedTax(r, typed) ==
    IF There(r) THEN [rate |-> r, percent |-> preset[r].percent] ELSE [rate |-> NoPreset, percent |-> typed]

OpenTaxed(c, i, r, typed) ==
    LET tax == ResolvedTax(r, typed)
    IN  /\ Begins(c, [AtRest EXCEPT !.at = "save", !.ware = i, !.of = tax.rate, !.percent = tax.percent])
        /\ UNCHANGED <<preset, taxed, ignorant, unexplained>>

\* updateProduct writes what it resolved; a preset deleted meanwhile fails it.
CommitTaxed(c) ==
    LET call == clerk[c]
        fits == call.of = NoPreset \/ There(call.of)
        crossed == call.of \in call.missed
    IN  /\ call.at = "save"
        /\ taxed' = IF fits THEN [taxed EXCEPT ![call.ware] = [rate |-> call.of, percent |-> call.percent]] ELSE taxed
        /\ ignorant' = IF ~fits THEN ignorant
                       ELSE IF crossed THEN ignorant \cup {call.ware} ELSE ignorant \ {call.ware}
        /\ unexplained' = IF fits THEN unexplained \ {call.ware} ELSE unexplained
        /\ Ends(c, IF fits THEN {call.of} ELSE {})
        /\ UNCHANGED <<preset, taxCalls>>

PresetRows == [there : {TRUE}, percent : Percents, active : BOOLEAN, default : BOOLEAN]

TaxNext ==
    \E c \in TaxClerks :
        \/ \E r \in Presets : \E row \in PresetRows : OpenPreset(c, r, row)
        \/ CommitPreset(c)
        \/ \E r \in Presets : OpenDeletePreset(c, r)
        \/ CommitDeletePreset(c)
        \/ \E i \in Taxed, r \in Presets \cup {NoPreset}, typed \in Percents : OpenTaxed(c, i, r, typed)
        \/ CommitTaxed(c)

-----------------------------------------------------------------------------

TaxTypeOK ==
    /\ preset \in [Presets -> PresetRows \cup {NotThere}]
    /\ taxed \in [Taxed -> [rate : Presets \cup {NoPreset}, percent : Percents]]
    /\ ignorant \subseteq Taxed /\ unexplained \subseteq Taxed /\ taxCalls \in 0..MaxTaxCalls

\* A product charges what its preset says, whatever a form sent, unless the
\* preset changed between the form's reading it and its save (products.ts:129-133).
PresetIsThePercent ==
    \A i \in Taxed \ ignorant : taxed[i].rate # NoPreset =>
        There(taxed[i].rate) /\ taxed[i].percent = preset[taxed[i].rate].percent

\* At most one preset is the default (tax-rates.ts:56-57).
OneDefault == Cardinality({r \in Presets : preset[r].default}) <= 1

\* Deleting a preset leaves no product at a percent nothing explains, unless a
\* product was put on it meanwhile (tax-rates.ts:128-134).
OnlyUnusedPresetsGo == unexplained = {}

-----------------------------------------------------------------------------
(* Why it holds.                                                           *)

TaxCall ==
    [at : {"idle", "update", "create", "delete", "save"}, of : Presets \cup {NoPreset}, ware : Taxed \cup {NoPreset},
     row : PresetRows \cup {NotThere}, percent : Percents \cup {0}, missed : SUBSET (Presets \cup {NoPreset})]

\* What a call read is so still, unless a call that ended since changed it.
ClerkHolds(call) ==
    /\ call.at \in {"update", "create"} => call.of \in Presets /\ call.row \in PresetRows
    /\ call.at = "delete" => call.of \in Presets /\ (call.of \notin call.missed => OnPreset(call.of) = {})
    /\ call.at = "save" =>
          /\ call.ware \in Taxed /\ call.percent \in Percents
          /\ call.of \notin call.missed \cup {NoPreset} =>
                There(call.of) /\ call.percent = preset[call.of].percent

TaxInv ==
    /\ TaxTypeOK /\ clerk \in [TaxClerks -> TaxCall]
    /\ \A i \in Taxed : taxed[i].rate # NoPreset => There(taxed[i].rate)
    /\ PresetIsThePercent /\ OnlyUnusedPresetsGo
    /\ \A q, r \in Presets : preset[q].default /\ preset[r].default => q = r
    /\ \A c \in TaxClerks : ClerkHolds(clerk[c])

=============================================================================
