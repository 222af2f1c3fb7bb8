------------------------------- MODULE Catalogue -------------------------------
(***************************************************************************)
(* Products and their variants as the back office writes them              *)
(* (core/src/write/products.ts, product-bulk.ts, duplicate-product.ts) and *)
(* as the clock publishes them (core/src/jobs.ts).                         *)
(*                                                                         *)
(* An editor is a call of the back office or a pass of the publishing job. *)
(* It reads what it will rely on, and writes in a later step.  What others *)
(* did in between is remembered with it, for the properties.               *)
(***************************************************************************)
EXTENDS Integers, FiniteSets

CONSTANTS
    Wares,           \* products
    Entered,         \* those already entered, as drafts with every variant
    RowKeys,         \* matrix keys
    Editors,         \* calls and passes at work
    MaxEditorCalls,  \* bound: calls begun
    MaxStamps        \* bound: moments of publication told apart

ASSUME CatalogueAssumption ==
    /\ Entered \subseteq Wares /\ MaxEditorCalls \in Nat /\ MaxStamps \in Nat \ {0}
    /\ "nobody" \notin Editors

VARIABLES
    ware,      \* Product: status, when first published, schedule, whether ever ordered
    row,       \* ProductVariant by product and key: its generation, active, ordered
    editor,    \* what each editor is doing
    calls,     \* calls begun
    stamp      \* the present moment

catalogueVars == <<ware, row, editor, calls, stamp>>

WareStatuses == {"DRAFT", "ACTIVE", "ARCHIVED"}
Schedules == {"none", "later", "due"}

NoWare == [status |-> "none", published |-> 0, scheduled |-> "none", sold |-> FALSE]
NoRow  == [gen |-> 0, there |-> FALSE, active |-> FALSE, ordered |-> FALSE]
NoEdit == [at |-> "idle", ware |-> "none", on |-> {}, off |-> {}, status |-> "none", scheduled |-> "none",
           had |-> [k \in RowKeys |-> 0], spared |-> {}, known |-> [p \in Wares |-> 0], listed |-> {}, missed |-> {}]

CatalogueInit ==
    /\ ware = [p \in Wares |-> IF p \in Entered THEN [NoWare EXCEPT !.status = "DRAFT"] ELSE NoWare]
    /\ row = [p \in Wares |-> [k \in RowKeys |->
                IF p \in Entered THEN [NoRow EXCEPT !.gen = 1, !.there = TRUE, !.active = TRUE] ELSE NoRow]]
    /\ editor = [e \in Editors |-> NoEdit]
    /\ calls = 0
    /\ stamp = 1

Kept(p) == ware[p].status \in WareStatuses
RowsThere(p) == {k \in RowKeys : row[p][k].there}

Dates == [p \in Wares |-> ware[p].published]

Calls == calls < MaxEditorCalls /\ calls' = calls + 1

\* The editors as e ends (or goes on) and the others miss what it does to p.
Told(e, then, p, facts) ==
    [v \in Editors |-> IF v = e THEN then
                       ELSE IF editor[v].ware = p \/ p \in editor[v].listed
                       THEN [editor[v] EXCEPT !.missed = @ \cup {<<p, f>> : f \in facts}]
                       ELSE editor[v]]

\* What a change of a product's status means to those who read it before.
News(p, status, date) ==
    (IF date # ware[p].published THEN {"published"} ELSE {})
    \cup (IF status # "DRAFT" THEN {"moved"} ELSE {})

\* publishedAt as a call writes it, from what it read.
FirstPublished(status, known) == IF status = "ACTIVE" /\ known = 0 THEN stamp ELSE known

-----------------------------------------------------------------------------

\* partitionRemoved: removed variants an order refers to.
Referenced(p, gone) == {k \in gone : row[p][k].ordered}

\* createProduct and updateProduct, up to the transaction.
OpenProductSave(e, p, on, off, status, scheduled) ==
    /\ editor[e] = NoEdit
    /\ ware[p].status # "deleted"
    /\ Calls
    /\ on \cup off # {} /\ on \cap off = {}
    /\ status = "ACTIVE" => scheduled = "none"
    /\ editor' = [editor EXCEPT ![e] =
          [NoEdit EXCEPT !.at = IF Kept(p) THEN "save" ELSE "create", !.ware = p,
                         !.on = on, !.off = off, !.status = status, !.scheduled = scheduled,
                         !.had = [k \in RowKeys |-> IF row[p][k].there THEN row[p][k].gen ELSE 0],
                         !.spared = Referenced(p, RowsThere(p) \ (on \cup off)),
                         !.known = Dates]]
    /\ UNCHANGED <<ware, row, stamp>>

\* persistVariants finds what it means to update, and nothing where it creates.
SaveFits(e) ==
    LET c == editor[e]
        now(k) == IF row[c.ware][k].there THEN row[c.ware][k].gen ELSE 0
    IN  /\ IF c.at = "save" THEN Kept(c.ware) ELSE ware[c.ware].status = "none"
        /\ \A k \in c.on \cup c.off : now(k) = c.had[k]

SavedRow(c, k) ==
    LET r == row[c.ware][k]
    IN  IF k \in c.on \cup c.off
        THEN IF c.had[k] = 0 THEN [gen |-> r.gen + 1, there |-> TRUE, active |-> k \in c.on, ordered |-> FALSE]
             ELSE [r EXCEPT !.active = k \in c.on]
        ELSE IF c.had[k] # r.gen \/ ~r.there THEN r
        ELSE IF k \in c.spared THEN [r EXCEPT !.active = FALSE]
        ELSE [r EXCEPT !.there = FALSE]

\* The transaction of a save; what does not fit throws, and all is undone.
CommitProductSave(e) ==
    LET c == editor[e]
        p == c.ware
    IN  /\ c.at \in {"save", "create"}
        /\ IF SaveFits(e)
           THEN /\ ware' = [ware EXCEPT ![p] = [status |-> c.status, scheduled |-> c.scheduled,
                                                published |-> FirstPublished(c.status, c.known[p]),
                                                sold |-> @.sold]]
                /\ row' = [row EXCEPT ![p] = [k \in RowKeys |-> SavedRow(c, k)]]
                /\ editor' = Told(e, NoEdit, p, News(p, c.status, FirstPublished(c.status, c.known[p])))
           ELSE /\ editor' = [editor EXCEPT ![e] = NoEdit]
                /\ UNCHANGED <<ware, row>>
        /\ UNCHANGED <<calls, stamp>>

\* setProductStatus
OpenStatusChange(e, p, status) ==
    /\ editor[e] = NoEdit
    /\ Kept(p)
    /\ Calls
    /\ editor' = [editor EXCEPT ![e] = [NoEdit EXCEPT !.at = "status", !.ware = p, !.status = status,
                                                      !.known = Dates]]
    /\ UNCHANGED <<ware, row, stamp>>

CommitStatusChange(e) ==
    LET c == editor[e]
        p == c.ware
    IN  /\ c.at = "status"
        /\ IF Kept(p)
           THEN /\ ware' = [ware EXCEPT ![p].status = c.status,
                                        ![p].published = FirstPublished(c.status, c.known[p]),
                                        ![p].scheduled = IF c.status = "ACTIVE" THEN "none" ELSE @]
                /\ editor' = Told(e, NoEdit, p, News(p, c.status, FirstPublished(c.status, c.known[p])))
           ELSE /\ editor' = [editor EXCEPT ![e] = NoEdit]
                /\ UNCHANGED ware
        /\ UNCHANGED <<row, calls, stamp>>

BulkSchedule(status, scheduled) == IF status = "ACTIVE" THEN "none" ELSE scheduled

\* bulkSetStatus: one transaction, each product stamped on what it holds then.
BulkSetStatus(ps, status) ==
    /\ Calls
    /\ ware' = [p \in Wares |->
          IF p \in ps /\ Kept(p)
          THEN [ware[p] EXCEPT !.status = status,
                               !.published = FirstPublished(status, @),
                               !.scheduled = BulkSchedule(status, @)]
          ELSE ware[p]]
    /\ editor' = [v \in Editors |-> [editor[v] EXCEPT !.missed = @ \cup
          UNION {{<<p, f>> : f \in News(p, status, FirstPublished(status, ware[p].published))} :
                 p \in {q \in ps : Kept(q) /\ (editor[v].ware = q \/ q \in editor[v].listed)}}]]
    /\ UNCHANGED <<row, stamp>>

\* Mutant: the number of orders is not asked.
MutantOpenDelete(e, p) ==
    /\ editor[e] = NoEdit
    /\ Kept(p)
    /\ Calls
    /\ editor' = [editor EXCEPT ![e] = [NoEdit EXCEPT !.at = "delete", !.ware = p]]
    /\ UNCHANGED <<ware, row, stamp>>

\* deleteProduct: refused once the product appears in an order.
OpenDelete(e, p) ==
    /\ editor[e] = NoEdit
    /\ Kept(p)
    /\ ~ware[p].sold
    /\ Calls
    /\ editor' = [editor EXCEPT ![e] = [NoEdit EXCEPT !.at = "delete", !.ware = p]]
    /\ UNCHANGED <<ware, row, stamp>>

CommitDelete(e) ==
    LET p == editor[e].ware
    IN  /\ editor[e].at = "delete"
        /\ ware' = [ware EXCEPT ![p] = [NoWare EXCEPT !.status = "deleted"]]
        /\ row' = [row EXCEPT ![p] = [k \in RowKeys |-> [row[p][k] EXCEPT !.there = FALSE]]]
        /\ editor' = [editor EXCEPT ![e] = NoEdit]
        /\ UNCHANGED <<calls, stamp>>

\* duplicateProduct: a draft of its own, from what was read of the source.
DuplicateProduct(p, copy) ==
    /\ Kept(p) /\ ware[copy].status = "none"
    /\ Calls
    /\ ware' = [ware EXCEPT ![copy] = [NoWare EXCEPT !.status = "DRAFT"]]
    /\ row' = [row EXCEPT ![copy] = [k \in RowKeys |->
          [gen |-> row[copy][k].gen + 1, there |-> row[p][k].there,
           active |-> row[p][k].active, ordered |-> FALSE]]]
    /\ UNCHANGED <<editor, stamp>>

\* An order takes a line of an offered variant.
OrderLine(p, k) ==
    /\ ware[p].status = "ACTIVE"
    /\ row[p][k].there /\ row[p][k].active
    /\ ~row[p][k].ordered
    /\ row' = [row EXCEPT ![p][k].ordered = TRUE]
    /\ ware' = [ware EXCEPT ![p].sold = TRUE]
    /\ editor' = Told("nobody", NoEdit, p, {"ordered"})
    /\ UNCHANGED <<calls, stamp>>

\* Mutant: nothing is published twice.
MutantNewWares == {p \in Wares : ware[p].status = "DRAFT" /\ ware[p].scheduled = "due" /\ ware[p].published = 0}

\* The products whose time has come.
DueWares == {p \in Wares : ware[p].status = "DRAFT" /\ ware[p].scheduled = "due"}

\* publishScheduledProducts lists them once, then updates each by its id.
ListDue(e) ==
    /\ editor[e] = NoEdit
    /\ DueWares # {}
    /\ editor' = [editor EXCEPT ![e] = [NoEdit EXCEPT !.at = "publish", !.listed = DueWares, !.known = Dates]]
    /\ UNCHANGED <<ware, row, calls, stamp>>

PublishListed(e) ==
    /\ editor[e].at = "publish"
    /\ \E p \in editor[e].listed :
          LET rest == [editor[e] EXCEPT !.listed = @ \ {p}]
          IN  IF Kept(p)
              THEN /\ ware' = [ware EXCEPT ![p].status = "ACTIVE", ![p].scheduled = "none",
                                           ![p].published = FirstPublished("ACTIVE", rest.known[p])]
                   /\ editor' = Told(e, IF rest.listed = {} THEN NoEdit ELSE rest, p, News(p, "ACTIVE", FirstPublished("ACTIVE", rest.known[p])))
              ELSE editor' = [editor EXCEPT ![e] = NoEdit] /\ UNCHANGED ware
    /\ UNCHANGED <<row, calls, stamp>>

\* Time passes, and a schedule falls due.
CataloguePasses ==
    \/ /\ stamp < MaxStamps
       /\ stamp' = stamp + 1
       /\ UNCHANGED <<ware, row, editor, calls>>
    \/ \E p \in Wares : /\ ware[p].scheduled = "later"
                        /\ ware' = [ware EXCEPT ![p].scheduled = "due"]
                        /\ UNCHANGED <<row, editor, calls, stamp>>

CatalogueNext ==
    \/ \E e \in Editors :
          \/ \E p \in Wares :
                \/ \E on, off \in SUBSET RowKeys, s \in WareStatuses, d \in {"none", "later"} :
                      OpenProductSave(e, p, on, off, s, d)
                \/ \E s \in WareStatuses : OpenStatusChange(e, p, s)
                \/ OpenDelete(e, p)
          \/ CommitProductSave(e) \/ CommitStatusChange(e) \/ CommitDelete(e)
          \/ ListDue(e) \/ PublishListed(e)
    \/ \E ps \in SUBSET Wares \ {{}}, s \in WareStatuses : BulkSetStatus(ps, s)
    \/ \E p, copy \in Wares : DuplicateProduct(p, copy)
    \/ \E p \in Wares, k \in RowKeys : OrderLine(p, k)
    \/ CataloguePasses

\* The cron runs, and a pass that has begun is carried to its end.
CatalogueFairness ==
    /\ SF_catalogueVars(\E e \in Editors : ListDue(e))
    /\ \A e \in Editors : WF_catalogueVars(PublishListed(e) \/ CommitProductSave(e) \/ CommitStatusChange(e) \/ CommitDelete(e))

-----------------------------------------------------------------------------

CatalogueTypeOK ==
    /\ ware \in [Wares -> [status : WareStatuses \cup {"none", "deleted"}, published : 0..MaxStamps,
                           scheduled : Schedules, sold : BOOLEAN]]
    /\ \A p \in Wares, k \in RowKeys : row[p][k].gen \in Nat /\ (row[p][k].there => row[p][k].gen > 0)
    /\ \A e \in Editors : editor[e].at \in {"idle", "save", "create", "status", "delete", "publish"}
    /\ calls \in 0..MaxEditorCalls

EditorEnds(e) ==
    /\ editor[e].at # "idle"
    /\ editor'[e].at = "idle" \/ editor'[e].listed # editor[e].listed

\* A variant an order refers to is not lost but to a call that had looked for
\* orders before that one came (partitionRemoved, deleteProduct).
OrderedRowsAreKept ==
    [][\A p \in Wares, k \in RowKeys :
          row[p][k].there /\ row[p][k].ordered /\ ~row'[p][k].there
          => \E e \in Editors : EditorEnds(e) /\ <<p, "ordered">> \in editor[e].missed]_catalogueVars

\* The date a product first went live is written once, unless by a call that
\* read the product before that ("publishedAt ... is never rewound").
FirstPublishedStands ==
    [][\A p \in Wares :
          ware[p].published # 0 /\ ware'[p].status # "deleted" /\ ware'[p].published # ware[p].published
          => \E e \in Editors : EditorEnds(e) /\ <<p, "published">> \in editor[e].missed]_catalogueVars

\* The job publishes drafts alone: what was pulled or put live by hand stays,
\* unless that happened after the job listed it (jobs.ts:93-95).
JobTouchesDrafts ==
    [][\A p \in Wares, e \in Editors :
          editor[e].at = "publish" /\ EditorEnds(e) /\ ware'[p] # ware[p] /\ ware[p].status # "DRAFT"
          => <<p, "moved">> \in editor[e].missed]_catalogueVars

\* Nothing live carries a schedule that could fire later.
LiveIsNotScheduled == \A p \in Wares : ware[p].status = "ACTIVE" => ware[p].scheduled = "none"

\* A draft whose time has come goes live, unless someone decides otherwise.
DueIsPublished ==
    \A p \in Wares :
       ware[p].status = "DRAFT" /\ ware[p].scheduled = "due"
       ~> ~(ware[p].status = "DRAFT" /\ ware[p].scheduled = "due")

-----------------------------------------------------------------------------
(* Why it holds.                                                           *)

NewsKinds == {"published", "moved", "ordered"}

EditType ==
    [at : {"idle", "save", "create", "status", "delete", "publish"}, ware : Wares \cup {"none"},
     on : SUBSET RowKeys, off : SUBSET RowKeys, status : WareStatuses \cup {"none"}, scheduled : {"none", "later"},
     had : [RowKeys -> Nat], spared : SUBSET RowKeys, known : [Wares -> 0..MaxStamps], listed : SUBSET Wares,
     missed : SUBSET (Wares \X NewsKinds)]

CatalogueTyped ==
    /\ CatalogueTypeOK
    /\ row \in [Wares -> [RowKeys -> [gen : Nat, there : BOOLEAN, active : BOOLEAN, ordered : BOOLEAN]]]
    /\ editor \in [Editors -> EditType]
    /\ stamp \in 1..MaxStamps

WaresHold ==
    \A p \in Wares : /\ ware[p].status = "none" => ware[p].published = 0 /\ ~ware[p].sold
                     /\ \A k \in RowKeys : row[p][k].there /\ row[p][k].ordered => ware[p].sold

\* What was read of a product's first day, an order of its rows and its status is
\* what holds, unless the editor missed the news.
EditorHolds(c, wares, rows) ==
    /\ c.at \in {"save", "create", "status", "delete"} => c.ware \in Wares
    /\ c.at \in {"save", "create", "status"} => c.status \in WareStatuses
    /\ c.at \in {"save", "create"} /\ c.status = "ACTIVE" => c.scheduled = "none"
    /\ c.at \in {"save", "create", "status"} /\ wares[c.ware].status # "deleted" =>
          c.known[c.ware] = wares[c.ware].published \/ <<c.ware, "published">> \in c.missed
    /\ c.at = "publish" => \A q \in c.listed :
          /\ wares[q].status # "none"
          /\ wares[q].status # "deleted" => c.known[q] = wares[q].published \/ <<q, "published">> \in c.missed
          /\ wares[q].status \in {"ACTIVE", "ARCHIVED"} => <<q, "moved">> \in c.missed
    /\ c.at \in {"save", "create"} => \A k \in RowKeys :
          LET r == rows[c.ware][k]
          IN  /\ c.had[k] <= r.gen
              /\ c.had[k] = r.gen /\ r.there /\ r.ordered /\ k \notin c.on \cup c.off =>
                    k \in c.spared \/ <<c.ware, "ordered">> \in c.missed
    /\ c.at = "delete" => \A k \in RowKeys :
          rows[c.ware][k].there /\ rows[c.ware][k].ordered => <<c.ware, "ordered">> \in c.missed

CatalogueInv ==
    CatalogueTyped /\ LiveIsNotScheduled /\ WaresHold /\ \A e \in Editors : EditorHolds(editor[e], ware, row)

=============================================================================
