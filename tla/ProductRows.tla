-------------------------------- MODULE ProductRows --------------------------------
(***************************************************************************)
(* A product as rows: in the editor, where options make one row for each   *)
(* combination (shared/src/variants.ts), and in the catalogue's file, which *)
(* an export writes and an import reads back.  The two share no row.       *)
(***************************************************************************)
EXTENDS Integers, Sequences, FiniteSets, FiniteSetsExt, SequencesExt

-----------------------------------------------------------------------------
(* The variant matrix of a product being edited (shared/src/variants.ts):  *)
(* option axes expanded into one row per combination, rows carried across  *)
(* an edit by their key, a value renamed, and what the server refuses.     *)
(*                                                                         *)
(* A row's data is what an admin typed into it: the mark of the typing     *)
(* stands for its prices and texts, and its stock is counted apart.        *)

CONSTANTS
    OptionValues,    \* spellings of option values
    Lower,           \* their lower case
    MaxAxes,         \* MAX_OPTION_AXES
    MaxRows,         \* MAX_VARIANTS
    MaxEdits,        \* bound: edits of one form
    RenameOnto       \* may a value be renamed to one the axis has?

ASSUME VariantMatrixAssumption ==
    /\ Lower \in [OptionValues -> OptionValues]
    /\ MaxAxes \in Nat /\ MaxRows \in Nat /\ MaxEdits \in Nat
    /\ RenameOnto \in BOOLEAN

VARIABLES
    axes,       \* the option axes, each the values listed in it
    drafts,     \* the rows of the form, by matrix key
    orphaned,   \* rows whose combination the last edit removed: the form confirms these
    edits       \* edits so far

matrixVars == <<axes, drafts, orphaned, edits>>

Blank == [typed |-> 0, stock |-> 0]

\* dedupe: of spellings that differ in case, the first.
FirstSpellings(values) == {i \in DOMAIN values : \A j \in 1..(i - 1) : Lower[values[j]] # Lower[values[i]]}

\* usableAxes: blank axes are ignored.
UsableAxes(listed) ==
    LET some == SelectSeq(listed, LAMBDA values : values # <<>>)
    IN  [n \in DOMAIN some |-> {some[n][i] : i \in FirstSpellings(some[n])}]

\* combinations: a matrix key has one value of each axis; a product without axes has one row.
Combinations(listed) ==
    LET usable == UsableAxes(listed)
    IN  {key \in [DOMAIN usable -> OptionValues] : \A n \in DOMAIN usable : key[n] \in usable[n]}

\* Mutant: a new row takes the stock of the row it is copied from as well.
MutantCopiedDown(seed) == seed

\* What a new combination inherits: everything of the template but its stock.
CopiedDown(seed) == [seed EXCEPT !.stock = 0]

\* expandMatrix over rows carried so far: rows found by key are kept as they are.
Expanded(listed, rows, seed) ==
    [key \in Combinations(listed) |-> IF key \in DOMAIN rows THEN rows[key] ELSE CopiedDown(seed)]

\* validateMatrix: what the server refuses.
Refused(listed) ==
    \/ Len(listed) > MaxAxes
    \/ Cardinality(Combinations(listed)) > MaxRows
    \/ \E n \in DOMAIN listed : listed[n] = <<>>

\* renameAxisValue: each row that has the value moves to the key with the new one.
Renamed(n, from, to) ==
    LET moved(key) == IF key[n] = from THEN [key EXCEPT ![n] = to] ELSE key
    IN  [key \in {moved(k) : k \in DOMAIN drafts} |-> drafts[CHOOSE k \in DOMAIN drafts : moved(k) = key]]

\* The rows a rename hands to the expansion.
Carried(n, from, to) == Renamed(n, from, to)

MatrixInit ==
    /\ axes = <<>>
    /\ drafts = [key \in {<<>>} |-> Blank]
    /\ orphaned = {}
    /\ edits = 0

\* An edit of the axes, and the rows the form shows after it.
Reshape(listed, rows) ==
    /\ edits < MaxEdits
    /\ edits' = edits + 1
    /\ axes' = listed
    /\ \E seed \in {rows[key] : key \in DOMAIN rows} :
          drafts' = Expanded(listed, rows, seed)
    /\ orphaned' = {rows[key] : key \in DOMAIN rows \ Combinations(listed)}

AddAxis(value) == Reshape(Append(axes, <<value>>), drafts)

AddValue(n, value) ==
    /\ value \notin ToSet(axes[n])
    /\ Reshape([axes EXCEPT ![n] = Append(@, value)], drafts)

RemoveValue(n, value) ==
    /\ value \in ToSet(axes[n])
    /\ Reshape([axes EXCEPT ![n] = SelectSeq(@, LAMBDA v : v # value)], drafts)

\* No axis before it is blank: keys name only the axes that are not, so behind a blank
\* one the form's index is not the key's, renameAxisValue finds no row to carry, and
\* the next expansion drops what was typed.  Whether a form may call it so is the
\* form's to say, and it is not in this repository.
RenameValue(n, from, to) ==
    /\ from # to
    /\ \A m \in 1..(n - 1) : axes[m] # <<>>
    /\ from \in {axes[n][i] : i \in FirstSpellings(axes[n])}
    /\ RenameOnto \/ \A v \in ToSet(axes[n]) \ {from} : Lower[v] \notin {Lower[to], Lower[from]}
    /\ Reshape([axes EXCEPT ![n] = [i \in DOMAIN @ |-> IF @[i] = from THEN to ELSE @[i]]],
               Carried(n, from, to))

\* An admin types into a row.
TypeRow(key) ==
    /\ edits < MaxEdits
    /\ edits' = edits + 1
    /\ drafts' = [drafts EXCEPT ![key] = [typed |-> edits + 1, stock |-> 1]]
    /\ orphaned' = {}
    /\ UNCHANGED axes

MatrixNext ==
    \/ \E v \in OptionValues : Len(axes) < MaxAxes + 1 /\ AddAxis(v)
    \/ \E n \in DOMAIN axes, v \in OptionValues :
          \/ AddValue(n, v) \/ RemoveValue(n, v)
          \/ \E to \in OptionValues : RenameValue(n, v, to)
    \/ \E key \in DOMAIN drafts : TypeRow(key)

-----------------------------------------------------------------------------

MatrixTypeOK ==
    /\ axes \in Seq(Seq(OptionValues))
    /\ \A key \in DOMAIN drafts : drafts[key].typed \in 0..edits /\ drafts[key].stock \in {0, 1}
    /\ edits \in 0..MaxEdits

\* One row per combination: the count of rows is the product of what each axis
\* offers, spellings that differ in case offering one value between them.
OneRowPerCombination ==
    LET sizes == [n \in DOMAIN axes |-> Cardinality({Lower[v] : v \in ToSet(axes[n])})]
        some  == SelectSeq(sizes, LAMBDA s : s > 0)
    IN  Cardinality(DOMAIN drafts) = FoldLeft(LAMBDA a, b : a * b, 1, some)

\* A count of stock is never copied into a row nobody counted: rows that share
\* a typing share no stock (expandMatrix, "Stock is deliberately not inherited").
StockIsTypedOnce ==
    \A k, l \in DOMAIN drafts :
        k # l /\ drafts[k].stock = 1 /\ drafts[l].stock = 1 => drafts[k].typed # drafts[l].typed

\* What validateMatrix passes the product schema passes too: every row has one
\* value of every option, blank options included, and there are few enough.
AcceptedByBoth ==
    ~Refused(axes) =>
        /\ \A key \in DOMAIN drafts : Len(key) = Len(axes)
        /\ Cardinality(DOMAIN drafts) <= MaxRows

\* What was typed into a row is there after any later edit, under whatever key,
\* until it is typed again, or an edit that adds or removes options or values
\* names it among the rows it takes away: a rename takes none.
NothingVanishes ==
    [][\A key \in DOMAIN drafts :
          \/ \E k \in DOMAIN drafts' : drafts'[k] = drafts[key]
          \/ drafts[key] \in orphaned' /\ [n \in DOMAIN axes |-> Len(axes[n])] # [n \in DOMAIN axes' |-> Len(axes'[n])]
          \/ axes' = axes /\ drafts'[key].typed = edits']_matrixVars

-----------------------------------------------------------------------------
(* The catalogue as a file: a product written as rows                      *)
(* (shared/src/csv/export.ts), the rows read back (csv/rows.ts, parse.ts)  *)
(* and the product committed from them (core/src/csv/import-pipeline.ts),  *)
(* to the shop the file came from or to another one.                       *)
(*                                                                         *)
(* One product, of one option at most.  Its images are on show as soon as  *)
(* the commit has queued them: CatalogueImport tells how they arrive.      *)

CONSTANTS
    OptionNames,    \* values the product's option may have
    Forms,          \* what the product form may be saved with
    MaxCopies,      \* bound: times a picture is fetched again from this shop
    MaxFileSteps    \* bound: saves, sales, exports and imports

ASSUME CatalogueFileAssumption ==
    /\ \A f \in Forms : /\ f.values \in Seq(OptionNames) /\ IsInjective(f.values)
                        /\ {f.price, f.addition, f.ladder} \subseteq Nat
                        /\ f.price > 0
    /\ {MaxCopies, MaxFileSteps} \subseteq Nat

VARIABLES
    original,    \* the product in this shop
    copy,        \* the product in another shop
    file,        \* the file last exported, and the product it was exported from
    behind,      \* has the product changed since?
    ordered,     \* variants on an order
    fileSteps    \* steps so far

fileVars == <<original, copy, file, behind, ordered, fileSteps>>

BlankCell == ""
DefaultTitle == "Default Title"
Nothing == [there |-> FALSE, nameHi |-> BlankCell, faqs |-> BlankCell, kind |-> "FLAT", basis |-> "QUANTITY",
            option |-> BlankCell, values |-> <<>>, variants |-> {}, images |-> {}, fields |-> {}]
NoFile == [rows |-> <<>>, ours |-> FALSE, of |-> Nothing]

FileInit ==
    /\ original = Nothing /\ copy = Nothing /\ file = NoFile
    /\ behind = FALSE /\ ordered = {} /\ fileSteps = 0

Step == fileSteps < MaxFileSteps /\ fileSteps' = fileSteps + 1

\* Rows ordered by their position; what ties comes in any order.
Ordered(records) == {q \in SetToSeqs(records) : \A n \in 1..Len(q) - 1 : q[n].at <= q[n + 1].at}

-----------------------------------------------------------------------------
(* The shop *)

KeysOf(form) == IF form.values = <<>> THEN <<BlankCell>> ELSE form.values

\* The product form: a variant that goes is kept, switched off, when an order has it.
SaveForm(form) ==
    LET keys == KeysOf(form)
        stockOf(k) == IF \E v \in original.variants : v.key = k THEN (CHOOSE v \in original.variants : v.key = k).stock ELSE 2
        kept == {[v EXCEPT !.active = FALSE] : v \in {u \in original.variants : u.key \in ordered \ ToSet(keys)}}
    IN  /\ Step
        /\ original' = [original EXCEPT
              !.there = TRUE, !.nameHi = form.nameHi, !.faqs = form.faqs, !.kind = form.kind,
              !.basis = form.basis, !.option = IF form.values = <<>> THEN BlankCell ELSE "Size", !.values = form.values,
              !.variants = kept \cup
                 {[key |-> keys[n], at |-> n - 1, active |-> TRUE, price |-> form.price, stock |-> stockOf(keys[n]),
                   ladder |-> form.ladder, addition |-> form.addition] : n \in DOMAIN keys},
              !.images = {[picture |-> form.pictures[n], copies |-> 0, at |-> n - 1] : n \in DOMAIN form.pictures}]
        /\ behind' = TRUE
        /\ UNCHANGED <<copy, file, ordered>>

SellOne(v) ==
    /\ Step /\ v.active /\ v.stock > 0
    /\ original' = [original EXCEPT !.variants = (@ \ {v}) \cup {[v EXCEPT !.stock = @ - 1]}]
    /\ ordered' = ordered \cup {v.key}
    /\ behind' = TRUE
    /\ UNCHANGED <<copy, file>>

-----------------------------------------------------------------------------
(* The file *)

NoHead == [option |-> BlankCell, nameHi |-> BlankCell, faqs |-> BlankCell, kind |-> BlankCell]
NoCells == [sku |-> FALSE, value |-> BlankCell, price |-> 0, stock |-> 0, addition |-> -1]
NoImage == [picture |-> BlankCell, copies |-> 0, at |-> 0]

\* What a product's first row says of it.
HeadOf(w) ==
    [option |-> IF w.option = BlankCell THEN "Title" ELSE w.option,
     nameHi |-> w.nameHi, faqs |-> w.faqs, kind |-> w.kind]

\* A variant's cells, its SKU (every save makes up those left out) among them; the first one of a product without options has Shopify's placeholder.
CellsOf(w, v, n) ==
    [sku |-> TRUE, value |-> IF w.option = BlankCell /\ n = 1 THEN DefaultTitle ELSE v.key,
     price |-> v.price, stock |-> v.stock, addition |-> v.addition]

RowCount(variants, images) == Max({Len(variants), Len(images), 1})

\* buildProductRows
RowsOf(w, variants, images) ==
    [n \in 1..RowCount(variants, images) |->
        [head |-> IF n = 1 THEN HeadOf(w) ELSE NoHead,
         cells |-> IF n <= Len(variants) THEN CellsOf(w, variants[n], n) ELSE NoCells,
         image |-> IF n <= Len(images) THEN images[n] ELSE NoImage]]

\* A file of this shop, or one with no columns but Shopify's.
ExportFile(ours) ==
    /\ Step /\ original.there
    /\ \E variants \in Ordered(original.variants), images \in Ordered(original.images) :
          file' = [rows |-> RowsOf(original, variants, images), ours |-> ours, of |-> original]
    /\ behind' = FALSE
    /\ UNCHANGED <<original, copy, ordered>>

-----------------------------------------------------------------------------
(* The rows read back *)

\* A row with a SKU or an option value; of the first, a price is enough.
IsVariantRow(rows, n) ==
    LET cells == rows[n].cells IN cells.sku \/ cells.value # BlankCell \/ (n = 1 /\ cells.price # 0)

\* readOptionAxes: the values of every row, in their order.
ValuesOf(rows) ==
    IF rows[1].head.option \in {BlankCell, "Title"} THEN <<>>
    ELSE LET said == [n \in DOMAIN rows |-> rows[n].cells.value]
             new  == {n \in DOMAIN said : said[n] \notin {BlankCell, DefaultTitle} /\ \A m \in 1..n - 1 : said[m] # said[n]}
         IN  [k \in 1..Cardinality(new) |-> said[SetToSortSeq(new, <)[k]]]

\* readOptionValues and matrixKeyOf
KeyAt(rows, n) == IF ValuesOf(rows) = <<>> \/ rows[n].cells.value = DefaultTitle THEN BlankCell ELSE rows[n].cells.value

VariantRows(rows) == SetToSortSeq({n \in DOMAIN rows : IsVariantRow(rows, n)}, <)

\* DUPLICATE_OPTION_COMBO and NO_VARIANTS: the product is skipped.
HasError(rows) ==
    \/ VariantRows(rows) = <<>>
    \/ \E m, n \in ToSet(VariantRows(rows)) : m # n /\ KeyAt(rows, m) = KeyAt(rows, n)

\* readImage: a position is one from 1 on, or the next in the file.
PositionOf(rows, n) ==
    IF rows[n].image.at > 0 THEN rows[n].image.at
    ELSE 1 + Cardinality({m \in 1..n - 1 : rows[m].image # NoImage})

ParsedImages(rows) ==
    {[rows[n].image EXCEPT !.at = PositionOf(rows, n)] : n \in {m \in DOMAIN rows : rows[m].image # NoImage}}

-----------------------------------------------------------------------------
(* The commit *)

\* A picture is fetched from the address the file gives, so this shop's own are fetched anew.
FetchedFrom(image) == [image EXCEPT !.copies = @ + 1]

WithImages(images, parsed) ==
    {i \in images : \A p \in parsed : <<i.picture, i.copies>> # <<p.picture, p.copies + 1>>}
    \cup {FetchedFrom(p) : p \in parsed}

\* A variant of the file; what is there already keeps what the file does not say.
VariantFrom(w, f, k, n) ==
    LET said == f.rows[VariantRows(f.rows)[n]].cells
        old  == {v \in w.variants : v.key = k}
        base == IF old = {} THEN [active |-> TRUE, ladder |-> 0, addition |-> 0] ELSE CHOOSE v \in old : TRUE
    IN  [key |-> k, at |-> n - 1, active |-> base.active, price |-> said.price, stock |-> said.stock,
         ladder |-> base.ladder, addition |-> IF f.ours THEN said.addition ELSE base.addition]

KindFrom(w, f) == IF f.ours THEN f.rows[1].head.kind ELSE w.kind

\* Custom fields are the file's: the column of the Hindi name is taken for one.
FieldsFrom(f) == IF f.ours /\ f.rows[1].head.nameHi # BlankCell THEN {"name_hi"} ELSE {}

\* commitProduct: ladders, their basis and the Hindi name are left as they are.
Committed(w, f, removeMissing) ==
    LET rows == f.rows
        keys == {KeyAt(rows, n) : n \in ToSet(VariantRows(rows))}
        missing == {v \in w.variants : v.key \notin keys}
    IN  [w EXCEPT
          !.there = TRUE,
          !.faqs = IF f.ours /\ rows[1].head.faqs # BlankCell THEN rows[1].head.faqs ELSE @,
          !.kind = KindFrom(w, f),
          !.option = IF ValuesOf(rows) = <<>> THEN BlankCell ELSE rows[1].head.option,
          !.values = ValuesOf(rows),
          !.variants = {VariantFrom(w, f, KeyAt(rows, VariantRows(rows)[n]), n) : n \in DOMAIN VariantRows(rows)}
             \cup (IF removeMissing THEN {[v EXCEPT !.active = FALSE] : v \in missing} ELSE missing),
          !.images = WithImages(@, ParsedImages(rows)),
          !.fields = FieldsFrom(f)]

\* An import of the file, by the shop it came from.
ImportHere(removeMissing) ==
    /\ Step /\ file # NoFile /\ original.there
    /\ \A i \in file.of.images : i.copies < MaxCopies
    /\ original' = IF HasError(file.rows) THEN original ELSE Committed(original, file, removeMissing)
    /\ behind' = TRUE
    /\ UNCHANGED <<copy, file, ordered>>

\* And by another shop.
ImportThere(removeMissing) ==
    /\ Step /\ file # NoFile
    /\ copy' = IF HasError(file.rows) THEN copy ELSE Committed(copy, file, removeMissing)
    /\ UNCHANGED <<original, file, behind, ordered>>

FileNext ==
    \/ \E form \in Forms : SaveForm(form)
    \/ \E v \in original.variants : SellOne(v)
    \/ \E ours \in BOOLEAN : ExportFile(ours)
    \/ \E removeMissing \in BOOLEAN : ImportHere(removeMissing) \/ ImportThere(removeMissing)

-----------------------------------------------------------------------------

FileTypeOK ==
    /\ \A w \in {original, copy, file.of} :
          /\ w.kind \in {"FLAT", "DISTANCE"} /\ w.values \in Seq(OptionNames) /\ w.fields \subseteq {"name_hi"}
          /\ \A v \in w.variants : v.key \in OptionNames \cup {BlankCell} /\ v.stock \in Nat /\ v.addition \in Nat
          /\ \A i \in w.images : i.copies \in 0..MaxCopies + 1 /\ i.at \in Nat
    /\ ordered \subseteq OptionNames \cup {BlankCell} /\ fileSteps \in 0..MaxFileSteps

\* Has the product a variant of another shape, kept from before its options changed?
Leftover(w) == \E v \in w.variants : (v.key = BlankCell) # (w.option = BlankCell)

SaidOf(f) == {<<KeyAt(f.rows, n), f.rows[n].cells>> : n \in ToSet(VariantRows(f.rows))}

\* A file reads back as the product it was written from: every variant once, with
\* its own figures, every image, and nothing made up of a row that only has the
\* other (rows.ts:4-13).  A product with a leftover variant is refused or regrouped.
RowsRegroup ==
    file # NoFile /\ ~Leftover(file.of) =>
        /\ ~HasError(file.rows)
        /\ {<<s[1], s[2].price, s[2].stock, s[2].addition>> : s \in SaidOf(file)}
             = {<<v.key, v.price, v.stock, v.addition>> : v \in file.of.variants}
        /\ {i.picture : i \in ParsedImages(file.rows)} = {i.picture : i \in file.of.images}

\* Images keep their order on the way, all but the first two, whose positions 0
\* and 1 both read back as 1.
OrderIsKept ==
    \A m, n \in DOMAIN file.rows :
        m < n /\ n > 2 /\ file.rows[n].image # NoImage /\ Cardinality({i.at : i \in file.of.images}) = Cardinality(file.of.images)
            => PositionOf(file.rows, m) < PositionOf(file.rows, n)

VariantFigures(w) == {<<v.key, v.active, v.price, v.stock, v.ladder, v.addition>> : v \in w.variants}

\* Importing a file where nothing changed since it was written changes nothing the
\* shop sells: neither what the file says nor what it has no column for
\* (export.ts:94-96, columns.ts:66-78).
OwnFileChangesNothing ==
    [][~behind /\ (\E r \in BOOLEAN : ImportHere(r)) =>
          /\ VariantFigures(original') = VariantFigures(original)
          /\ original'.kind = original.kind /\ original'.faqs = original.faqs /\ original'.nameHi = original.nameHi /\ original'.basis = original.basis
      ]_fileVars

\* A file of Shopify's columns leaves everything it has none for as it is, however
\* much the product has changed since (parse.ts:49-57, import-pipeline.ts:309-313).
AbsentIsNotBlank ==
    [][~file.ours /\ (\E r \in BOOLEAN : ImportHere(r)) =>
          /\ original'.kind = original.kind /\ original'.faqs = original.faqs
          /\ \A v \in original.variants, u \in original'.variants : u.key = v.key => u.addition = v.addition /\ u.ladder = v.ladder
      ]_fileVars

\* Another shop sells at the prices of the shop a file came from, wherever the
\* shopper is: unlike its ladders and its Hindi name, they arrive.
CopyCharges ==
    [][(\E r \in BOOLEAN : ImportThere(r)) /\ file.ours /\ ~Leftover(file.of) =>
          /\ copy'.kind = file.of.kind
          /\ \A v \in file.of.variants : \E u \in copy'.variants :
                u.key = v.key /\ u.price = v.price /\ u.addition = v.addition
      ]_fileVars
=============================================================================
