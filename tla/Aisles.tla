-------------------------------- MODULE Aisles --------------------------------
(***************************************************************************)
(* The category tree, the tags, and the rules by which a category gathers  *)
(* products that carry tags (core/src/write/categories.ts, tags.ts,        *)
(* category-rule-sets.ts, core/src/membership.ts,                          *)
(* shared/src/category-rules.ts).                                          *)
(*                                                                         *)
(* A curator is a call of the back office.  It looks at the rows its       *)
(* guards are about, and writes in a later step; what it could not see     *)
(* since is remembered with it, for the properties.                        *)
(***************************************************************************)
EXTENDS Integers, FiniteSets

CONSTANTS
    Aisles,         \* categories
    Ruled,          \* those that may carry a rule
    RuleSets,       \* rule sets a category may be saved with
    Labels,         \* tags
    Stocked,        \* products
    Curators,       \* calls at work
    MaxCurations    \* bound: calls begun

Operators == {"INCLUDES", "EXCLUDES"}
MatchModes == {"ALL", "ANY"}

ASSUME AislesAssumption ==
    /\ Ruled \subseteq Aisles
    /\ RuleSets \subseteq SUBSET (Labels \X Operators)
    /\ {} \in RuleSets
    /\ "top" \notin Aisles
    /\ MaxCurations \in Nat

VARIABLES
    aisle,      \* Category: there, parent, match, rules
    label,      \* tags there are
    filed,      \* Product.categoryId
    carries,    \* Product.tags
    offer,      \* tags a discount is narrowed to
    curator,    \* what each call is doing
    crossedMoves,    \* categories moved by a call that missed another move
    curations   \* calls begun

aisleVars == <<aisle, label, filed, carries, offer, curator, crossedMoves, curations>>

NoParent == "top"
NoCuration == [at |-> "idle", aisle |-> NoParent, parent |-> NoParent, match |-> "ALL", rules |-> {},
               label |-> NoParent, into |-> NoParent, missed |-> {}]

Children(a) == {c \in Aisles : aisle[c].there /\ aisle[c].parent = a}
NamedBy(l) == {a \in Aisles : aisle[a].there /\ \E o \in Operators : <<l, o>> \in aisle[a].rules}

AislesInit ==
    /\ aisle \in [Aisles -> {[there |-> TRUE, parent |-> NoParent, match |-> m, rules |-> r] : m \in MatchModes, r \in RuleSets}]
    /\ \A a \in Aisles : aisle[a].rules = {} => aisle[a].match = "ALL"
    /\ \A a \in Aisles \ Ruled : aisle[a].rules = {}
    /\ label = Labels
    /\ filed = [i \in Stocked |-> NoParent]
    /\ carries \in [Stocked -> SUBSET Labels]
    /\ offer = {}
    /\ curator = [e \in Curators |-> NoCuration]
    /\ crossedMoves = {}
    /\ curations = 0

Curation == curations < MaxCurations /\ curations' = curations + 1

\* Calls under way, as e's ends and the others do not see what it did.
Unseen(e, facts) ==
    [v \in Curators |-> IF v = e THEN NoCuration
                        ELSE IF curator[v].at = "idle" THEN NoCuration
                        ELSE [curator[v] EXCEPT !.missed = @ \cup facts]]

-----------------------------------------------------------------------------
(* What a rule gathers *)

Named(rules, o) == {l \in Labels : <<l, o>> \in rules}

\* matchesTagRules: exclusion wins; match joins the inclusions only.
MatchesTagRules(rules, match, tags) ==
    /\ Named(rules, "INCLUDES") # {}
    /\ Named(rules, "EXCLUDES") \cap tags = {}
    /\ IF match = "ALL" THEN Named(rules, "INCLUDES") \subseteq tags
                        ELSE Named(rules, "INCLUDES") \cap tags # {}

WithTag(l) == {i \in Stocked : l \in carries[i]}

\* tagRuleWhere: the same rule as the database is asked it.
TagRuleWhere(rules, match) ==
    LET includes == Named(rules, "INCLUDES")
        included == IF match = "ALL" THEN {i \in Stocked : \A l \in includes : i \in WithTag(l)}
                    ELSE UNION {WithTag(l) : l \in includes}
    IN  IF includes = {} THEN {}
        ELSE included \ UNION {WithTag(l) : l \in Named(rules, "EXCLUDES")}

\* categoryMembershipWhere: assigned here, or gathered here.
Members(a) == {i \in Stocked : filed[i] = a} \cup TagRuleWhere(aisle[a].rules, aisle[a].match)

\* categoryTreeMembershipWhere: a category's page lists its children's products.
PageLists(a) == UNION {Members(c) : c \in {a} \cup Children(a)}

-----------------------------------------------------------------------------
(* Categories *)

\* One level of nesting, as createCategory and updateCategory check it.
MayNest(a, p) ==
    /\ p # a
    /\ aisle[p].there /\ aisle[p].parent = NoParent
    /\ aisle[a].there => Children(a) = {}

\* resolveRuleSlugs: refused whole when a tag is gone.
LabelsExist(rules) == \A r \in rules : r[1] \in label

\* createCategory and updateCategory, up to the write.
OpenAisle(e, a, p, match, rules) ==
    /\ curator[e] = NoCuration
    /\ p # NoParent => MayNest(a, p)
    /\ LabelsExist(rules)
    /\ Curation
    /\ curator' = [curator EXCEPT ![e] = [NoCuration EXCEPT !.at = IF aisle[a].there THEN "update" ELSE "create",
                                          !.aisle = a, !.parent = p, !.match = match, !.rules = rules]]
    /\ UNCHANGED <<aisle, label, filed, carries, offer, crossedMoves>>

\* The database's own refusals: a parent that is gone, a tag that is gone.
AisleFits(c) ==
    /\ c.parent = NoParent \/ aisle[c.parent].there
    /\ LabelsExist(c.rules)
    /\ aisle[c.aisle].there <=> c.at = "update"

CommitAisle(e) ==
    LET c == curator[e]
    IN  /\ c.at \in {"create", "update"}
        /\ IF AisleFits(c)
           THEN /\ aisle' = [aisle EXCEPT ![c.aisle] = [there |-> TRUE, parent |-> c.parent,
                                                        match |-> c.match, rules |-> c.rules]]
                /\ crossedMoves' = IF <<"moved", c.aisle>> \in c.missed \/ <<"moved", c.parent>> \in c.missed
                                 \/ <<"under", c.aisle>> \in c.missed
                              THEN crossedMoves \cup {c.aisle} ELSE crossedMoves \ {c.aisle}
                /\ curator' = Unseen(e, {<<"moved", c.aisle>>, <<"under", c.parent>>}
                                        \cup {<<"used", r[1]>> : r \in c.rules})
           ELSE /\ curator' = [curator EXCEPT ![e] = NoCuration]
                /\ UNCHANGED <<aisle, crossedMoves>>
        /\ UNCHANGED <<label, filed, carries, offer, curations>>

EmptyAisle(a) == Children(a) = {} /\ \A i \in Stocked : filed[i] # a

OpenDeleteAisle(e, a) ==
    /\ curator[e] = NoCuration
    /\ aisle[a].there
    /\ EmptyAisle(a)
    /\ Curation
    /\ curator' = [curator EXCEPT ![e] = [NoCuration EXCEPT !.at = "remove", !.aisle = a]]
    /\ UNCHANGED <<aisle, label, filed, carries, offer, crossedMoves>>

\* The database restricts on children and clears what is filed.
CommitDeleteAisle(e) ==
    LET a == curator[e].aisle
    IN  /\ curator[e].at = "remove"
        /\ IF aisle[a].there /\ Children(a) = {}
           THEN /\ aisle' = [aisle EXCEPT ![a] = [there |-> FALSE, parent |-> NoParent, match |-> "ALL", rules |-> {}]]
                /\ filed' = [i \in Stocked |-> IF filed[i] = a THEN NoParent ELSE filed[i]]
                /\ crossedMoves' = crossedMoves \ {a}
           ELSE UNCHANGED <<aisle, filed, crossedMoves>>
        /\ curator' = [curator EXCEPT ![e] = NoCuration]
        /\ UNCHANGED <<label, carries, offer, curations>>

-----------------------------------------------------------------------------
(* Tags, products, discounts *)

\* Mutant: only the discounts are asked.
MutantLabelIsFree(l) == l \notin offer

\* A tag that drives a category or a discount is load-bearing.
LabelIsFree(l) == NamedBy(l) = {} /\ l \notin offer

OpenDeleteLabel(e, l) ==
    /\ curator[e] = NoCuration
    /\ l \in label
    /\ LabelIsFree(l)
    /\ Curation
    /\ curator' = [curator EXCEPT ![e] = [NoCuration EXCEPT !.at = "unlabel", !.label = l]]
    /\ UNCHANGED <<aisle, label, filed, carries, offer, crossedMoves>>

\* Rules, targets and the labels on products go with the tag.
CommitDeleteLabel(e) ==
    LET l == curator[e].label
    IN  /\ curator[e].at = "unlabel"
        /\ label' = label \ {l}
        /\ aisle' = [a \in Aisles |-> [aisle[a] EXCEPT !.rules = {r \in @ : r[1] # l}]]
        /\ carries' = [i \in Stocked |-> carries[i] \ {l}]
        /\ offer' = offer \ {l}
        /\ curator' = [curator EXCEPT ![e] = NoCuration]
        /\ UNCHANGED <<filed, crossedMoves, curations>>

\* A rule follows the merge, or falls to one that already names the target.
Relabelled(rules, source, target) ==
    {r \in rules : r[1] # source} \cup {<<target, r[2]>> : r \in {q \in rules : q[1] = source}}

CarriedOn(tags, source, target) == IF source \in tags THEN (tags \ {source}) \cup {target} ELSE tags

OpenMerge(e, source, target) ==
    /\ curator[e] = NoCuration
    /\ source # target /\ {source, target} \subseteq label
    /\ Curation
    /\ curator' = [curator EXCEPT ![e] = [NoCuration EXCEPT !.at = "merge", !.label = source, !.into = target]]
    /\ UNCHANGED <<aisle, label, filed, carries, offer, crossedMoves>>

\* mergeTags' transaction; a discount's target is not moved but dropped.
CommitMerge(e) ==
    LET source == curator[e].label
        target == curator[e].into
        moved  == \E a \in Aisles : \E r \in aisle[a].rules : r[1] = source
        copied == \E i \in Stocked : source \in carries[i] /\ target \notin carries[i]
    IN  /\ curator[e].at = "merge"
        /\ IF source \in label /\ (target \in label \/ (~moved /\ ~copied))
           THEN /\ label' = label \ {source}
                /\ aisle' = [a \in Aisles |-> [aisle[a] EXCEPT !.rules = Relabelled(@, source, target)]]
                /\ carries' = [i \in Stocked |-> CarriedOn(carries[i], source, target)]
                /\ offer' = offer \ {source}
                /\ curator' = Unseen(e, IF moved THEN {<<"used", target>>} ELSE {})
           ELSE /\ curator' = [curator EXCEPT ![e] = NoCuration]
                /\ UNCHANGED <<label, aisle, carries, offer>>
        /\ UNCHANGED <<filed, crossedMoves, curations>>

\* A product saved: its category and its tags.
FileProduct(i, a, tags) ==
    /\ Curation
    /\ a # NoParent => aisle[a].there
    /\ tags \subseteq label
    /\ filed' = [filed EXCEPT ![i] = a]
    /\ carries' = [carries EXCEPT ![i] = tags]
    /\ curator' = Unseen("nobody", {<<"filed", a>>})
    /\ UNCHANGED <<aisle, label, offer, crossedMoves>>

\* A discount saved: the tags it is narrowed to.
TargetOffer(tags) ==
    /\ Curation
    /\ tags \subseteq label
    /\ offer' = tags
    /\ curator' = Unseen("nobody", {<<"used", l>> : l \in tags})
    /\ UNCHANGED <<aisle, label, filed, carries, crossedMoves>>

AislesNext ==
    \/ \E e \in Curators :
          \/ \E a \in Aisles :
                \/ \E p \in Aisles \cup {NoParent}, m \in MatchModes, r \in RuleSets :
                      /\ r # {} => a \in Ruled
                      /\ r = {} => m = "ALL"
                      /\ OpenAisle(e, a, p, m, r)
                \/ OpenDeleteAisle(e, a)
          \/ \E l \in Labels : OpenDeleteLabel(e, l) \/ \E t \in Labels : OpenMerge(e, l, t)
          \/ CommitAisle(e) \/ CommitDeleteAisle(e) \/ CommitDeleteLabel(e) \/ CommitMerge(e)
    \/ \E i \in Stocked, a \in Aisles \cup {NoParent}, tags \in SUBSET Labels : FileProduct(i, a, tags)
    \/ \E tags \in SUBSET Labels : TargetOffer(tags)

-----------------------------------------------------------------------------

AislesTypeOK ==
    /\ aisle \in [Aisles -> [there : BOOLEAN, parent : Aisles \cup {NoParent}, match : MatchModes,
                             rules : SUBSET (Labels \X Operators)]]
    /\ label \subseteq Labels /\ offer \subseteq label
    /\ \A i \in Stocked : carries[i] \subseteq label
    /\ \A a \in Aisles : {r[1] : r \in aisle[a].rules} \subseteq label
    /\ curations \in 0..MaxCurations

\* The tree is one level deep ("keeping it renderable: one level of nesting"),
\* except where a category was moved by a call that had looked at the tree
\* before another moved (categories.ts:61-67, 149-164: no transaction).
OneLevelDeep ==
    \A a \in Aisles :
       LET p == aisle[a].parent
       IN  p # NoParent /\ aisle[p].parent # NoParent => {a, p} \cap crossedMoves # {}

\* Deleting a category takes no product out of the navigation, unless the
\* product was filed there after the deletion had counted (categories.ts:253).
FiledStaysFiled ==
    [][\A a \in Aisles :
          aisle[a].there /\ ~aisle'[a].there /\ (\E i \in Stocked : filed[i] = a)
          => \E e \in Curators : curator[e].at = "remove" /\ <<"filed", a>> \in curator[e].missed]_aisleVars

\* Deleting a tag takes no rule and no discount's target with it, unless one
\* came to use the tag after the deletion had counted (tags.ts:125-137).
LoadBearingStays ==
    [][\A e \in Curators :
          LET l == curator[e].label
          IN  curator[e].at = "unlabel" /\ curator'[e].at = "idle" /\ (NamedBy(l) # {} \/ l \in offer)
              => <<"used", l>> \in curator[e].missed]_aisleVars

MergeStep == \E e \in Curators : curator[e].at = "merge" /\ curator'[e].at = "idle"

Excludes(a, i) == Named(aisle[a].rules, "EXCLUDES") \cap carries[i] # {}

\* Merging two tags loses a category no product but those it now excludes, and
\* what it excluded it goes on excluding.
MergeKeepsAisles ==
    [][MergeStep => \A a \in Aisles, i \in Stocked :
          /\ i \in Members(a) => i \in Members(a)' \/ Excludes(a, i)'
          /\ Excludes(a, i) => Excludes(a, i)']_aisleVars

\* The two directions of a rule agree: the products the database gathers for a
\* category are those that match its rule one by one (membership.ts:7-11), and
\* a category's page lists every one of them.
DirectionsAgree ==
    \A a \in Aisles :
       aisle[a].there =>
          /\ TagRuleWhere(aisle[a].rules, aisle[a].match)
                = {i \in Stocked : MatchesTagRules(aisle[a].rules, aisle[a].match, carries[i])}
          /\ aisle[a].parent # NoParent => Members(a) \subseteq PageLists(aisle[a].parent)

-----------------------------------------------------------------------------
(* Why it holds.                                                           *)

AisleRow == [there : BOOLEAN, parent : Aisles \cup {NoParent}, match : MatchModes, rules : SUBSET (Labels \X Operators)]

CurationType ==
    [at : {"idle", "create", "update", "remove", "unlabel", "merge"},
     aisle : Aisles \cup {NoParent}, parent : Aisles \cup {NoParent}, match : MatchModes,
     rules : SUBSET (Labels \X Operators), label : Labels \cup {NoParent}, into : Labels \cup {NoParent},
     missed : SUBSET ({"moved", "under", "filed", "used"} \X (Aisles \cup Labels \cup {NoParent}))]

\* What a call saw of the tree around it is so still, unless it missed a move.
CuratorHolds(c) ==
    /\ c.at \in {"create", "update", "remove"} => c.aisle \in Aisles
    /\ c.at = "merge" => c.into \in Labels
    /\ c.at \in {"create", "update"} /\ c.parent # NoParent =>
          /\ c.parent # c.aisle
          /\ <<"moved", c.parent>> \notin c.missed => aisle[c.parent].parent = NoParent
          /\ <<"under", c.aisle>> \notin c.missed => Children(c.aisle) = {}

\* Who has a parent is there, and so is the parent.
TreeHolds ==
    \A a \in Aisles : aisle[a].parent # NoParent => aisle[a].there /\ aisle[aisle[a].parent].there

AislesInv ==
    /\ aisle \in [Aisles -> AisleRow] /\ curator \in [Curators -> CurationType]
    /\ TreeHolds /\ OneLevelDeep /\ \A e \in Curators : CuratorHolds(curator[e])

=============================================================================
