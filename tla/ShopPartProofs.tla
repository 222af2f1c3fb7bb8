--------------------------- MODULE ShopPartProofs ---------------------------
(***************************************************************************)
(* What each component of MCShop keeps when its calls cross, proved for    *)
(* every value of its constants.                                           *)
(***************************************************************************)
EXTENDS Consent, Support, Catalogue, Incidents, HomeFeed, Aisles, Website, TaxPresets, AddressBook,
        SumTheorems, FiniteSetTheorems, SequenceTheorems, TLAPS


\* The greatest of finitely many numbers.
LEMMA TopOf ==
    ASSUME NEW S, IsFiniteSet(S), S \subseteq Int, S # {}
    PROVE  Max(S) \in S /\ \A x \in S : x <= Max(S)
<1> DEFINE R == {e \in S \X S : e[1] < e[2]}
<1>1. \A x, y \in S : <<x, y>> \in R <=> x < y
  OBVIOUS
<1>2. InOrder(R, S)
  <2> HIDE DEF R
  <2> QED
    BY <1>1 DEF InOrder
<1>3. PICK m \in S : \A y \in S : y # m => <<y, m>> \in R
  <2> HIDE DEF R
  <2> QED
    BY <1>2, LastOf
<1>4. \A y \in S : m >= y
  <2> HIDE DEF R
  <2> TAKE y \in S
  <2>1. y \in Int /\ m \in Int
    OBVIOUS
  <2>2. CASE y # m
    <3>1. y < m
      BY <1>1, <1>3, <2>2
    <3> QED
      BY <2>1, <3>1
  <2> QED
    BY <2>1, <2>2
<1> QED
  BY <1>4 DEF Max

-----------------------------------------------------------------------------
(* Categories: one level deep, and gathered as they match.                 *)

Facts == {"moved", "under", "filed", "used"} \X (Aisles \cup Labels \cup {NoParent})

LEMMA AislesStand ==
    ASSUME AislesInv
    PROVE  /\ aisle \in [Aisles -> AisleRow] /\ curator \in [Curators -> CurationType]
           /\ \A a \in Aisles : aisle[a].parent # NoParent => aisle[a].there /\ aisle[aisle[a].parent].there
           /\ \A a \in Aisles : aisle[a].parent # NoParent /\ aisle[aisle[a].parent].parent # NoParent
                                => a \in crossedMoves \/ aisle[a].parent \in crossedMoves
           /\ \A e \in Curators : CuratorHolds(curator[e])
BY DEF AislesInv, TreeHolds, OneLevelDeep

LEMMA AislesNext1 ==
    ASSUME aisle' \in [Aisles -> AisleRow], curator' \in [Curators -> CurationType],
           \A a \in Aisles : aisle'[a].parent # NoParent => aisle'[a].there /\ aisle'[aisle'[a].parent].there,
           \A a \in Aisles : aisle'[a].parent # NoParent /\ aisle'[aisle'[a].parent].parent # NoParent
                                => a \in crossedMoves' \/ aisle'[a].parent \in crossedMoves',
           \A v \in Curators : \A c : c = curator'[v] => CuratorHolds(c)'
    PROVE  AislesInv'
<1>1. TreeHolds'
  BY DEF TreeHolds
<1>2. OneLevelDeep'
  BY DEF OneLevelDeep
<1>3. (\A v \in Curators : CuratorHolds(curator[v]))'
  BY DEF CuratorHolds, Children
<1> QED
  BY <1>1, <1>2, <1>3 DEF AislesInv

LEMMA CuratorAtRest ==
    /\ NoCuration \in CurationType /\ NoCuration.at = "idle" /\ NoCuration.missed = {}
    /\ \A c : c.at = "idle" => CuratorHolds(c) /\ CuratorHolds(c)'
<1>1. /\ NoCuration \in CurationType /\ NoCuration.at = "idle" /\ NoCuration.missed = {}
  BY DEF NoCuration, CurationType, MatchModes
<1>2. \A c : c.at = "idle" => CuratorHolds(c) /\ CuratorHolds(c)'
  BY DEF CuratorHolds
<1> QED
  BY <1>1, <1>2

\* A call after a step that was not its own: what it could not see is added.
CuratorGoesOn(d, c, facts) ==
    \/ d.at = "idle"
    \/ /\ d.at = c.at /\ d.aisle = c.aisle /\ d.parent = c.parent /\ d.into = c.into
       /\ d.missed = c.missed \cup facts

\* What a call saw around it survives a step that tells it of every move.
LEMMA CuratorsWatch ==
    ASSUME AislesInv, NEW facts,
           \A a \in Aisles : <<"moved", a>> \notin facts /\ aisle[a].parent = NoParent => aisle'[a].parent = NoParent,
           \A a \in Aisles : <<"under", a>> \notin facts /\ Children(a) = {} => Children(a)' = {},
           \A v \in Curators : CuratorGoesOn(curator'[v], curator[v], facts)
    PROVE  \A v \in Curators : \A c : c = curator'[v] => CuratorHolds(c)'
<1> SUFFICES ASSUME NEW v \in Curators, NEW d, d = curator'[v] PROVE CuratorHolds(d)'
  OBVIOUS
<1>1. PICK c : c = curator[v] /\ c \in CurationType /\ CuratorHolds(c)
  BY AislesStand
<1>2. CASE d.at = "idle"
  BY <1>2, CuratorAtRest
<1>3. CASE d.at # "idle"
  <2>1. /\ d.at = c.at /\ d.aisle = c.aisle /\ d.parent = c.parent /\ d.into = c.into
        /\ d.missed = c.missed \cup facts
    BY <1>1, <1>3 DEF CuratorGoesOn
  <2>2. d.at \in {"create", "update", "remove"} => d.aisle \in Aisles
    BY <1>1, <2>1 DEF CuratorHolds
  <2>3. d.at = "merge" => d.into \in Labels
    BY <1>1, <2>1 DEF CuratorHolds
  <2>4. ASSUME d.at \in {"create", "update"}, d.parent # NoParent
        PROVE  /\ d.parent # d.aisle
               /\ <<"moved", d.parent>> \notin d.missed => aisle'[d.parent].parent = NoParent
               /\ <<"under", d.aisle>> \notin d.missed => Children(d.aisle)' = {}
    <3>1. d.parent \in Aisles /\ d.aisle \in Aisles
      BY <1>1, <2>1, <2>2, <2>4 DEF CurationType
    <3>2. /\ c.parent # c.aisle
          /\ <<"moved", c.parent>> \notin c.missed => aisle[c.parent].parent = NoParent
          /\ <<"under", c.aisle>> \notin c.missed => Children(c.aisle) = {}
      BY <1>1, <2>1, <2>4 DEF CuratorHolds
    <3>3. d.parent # d.aisle
      BY <2>1, <3>2
    <3>4. <<"moved", d.parent>> \notin d.missed => aisle'[d.parent].parent = NoParent
      BY <2>1, <3>1, <3>2
    <3>5. <<"under", d.aisle>> \notin d.missed => Children(d.aisle)' = {}
      <4>1. SUFFICES ASSUME <<"under", d.aisle>> \notin d.missed PROVE Children(d.aisle)' = {}
        OBVIOUS
      <4>2. PICK a \in Aisles : a = d.aisle
        BY <3>1
      <4>3. <<"under", a>> \notin facts /\ Children(a) = {}
        BY <2>1, <3>2, <4>1, <4>2
      <4>4. Children(a)' = {}
        BY <4>3
      <4> QED
        BY <4>2, <4>4
    <3> QED
      BY <3>3, <3>4, <3>5
  <2> QED
    BY <2>2, <2>3, <2>4 DEF CuratorHolds, Children
<1> QED
  BY <1>2, <1>3

LEMMA UnseenGoesOn ==
    ASSUME AislesInv, NEW e, NEW facts, facts \subseteq Facts, curator' = Unseen(e, facts)
    PROVE  curator' \in [Curators -> CurationType] /\ \A v \in Curators : CuratorGoesOn(curator'[v], curator[v], facts)
<1>1. ASSUME NEW v \in Curators
      PROVE  curator'[v] \in CurationType /\ CuratorGoesOn(curator'[v], curator[v], facts)
  <2>1. PICK c : c = curator[v] /\ c \in CurationType
    BY AislesStand
  <2>2. CASE v = e \/ c.at = "idle"
    <3>1. curator'[v] = NoCuration
      BY <2>1, <2>2 DEF Unseen
    <3> QED
      BY <3>1, CuratorAtRest DEF CuratorGoesOn
  <2>3. CASE v # e /\ c.at # "idle"
    <3>1. PICK d : d = [c EXCEPT !.missed = @ \cup facts]
      OBVIOUS
    <3>2. curator'[v] = d
      BY <2>1, <2>3, <3>1 DEF Unseen
    <3>3. d \in CurationType /\ d.at = c.at /\ d.aisle = c.aisle /\ d.parent = c.parent /\ d.into = c.into
          /\ d.missed = c.missed \cup facts
      BY <2>1, <3>1 DEF CurationType, Facts
    <3> QED
      BY <2>1, <3>2, <3>3 DEF CuratorGoesOn
  <2> QED
    BY <2>2, <2>3
<1>2. curator' \in [Curators -> CurationType]
  BY <1>1 DEF Unseen
<1> QED
  BY <1>1, <1>2

LEMMA LeftGoesOn ==
    ASSUME AislesInv, NEW e \in Curators, curator' = [curator EXCEPT ![e] = NoCuration]
    PROVE  curator' \in [Curators -> CurationType] /\ \A v \in Curators : CuratorGoesOn(curator'[v], curator[v], {})
<1>1. curator' \in [Curators -> CurationType]
  BY AislesStand, CuratorAtRest
<1>2. \A v \in Curators : curator'[v] = NoCuration \/ curator'[v] = curator[v]
  BY AislesStand
<1>3. \A c : CuratorGoesOn(c, c, {})
  BY DEF CuratorGoesOn
<1> QED
  BY <1>1, <1>2, <1>3, CuratorAtRest DEF CuratorGoesOn

\* A step that leaves the tree as it is.
LEMMA TreeKept ==
    ASSUME AislesInv, aisle' \in [Aisles -> AisleRow],
           \A a \in Aisles : aisle'[a].there = aisle[a].there /\ aisle'[a].parent = aisle[a].parent,
           crossedMoves' = crossedMoves, curator' \in [Curators -> CurationType], NEW facts,
           \A v \in Curators : CuratorGoesOn(curator'[v], curator[v], facts)
    PROVE  AislesInv'
<1>1. \A a \in Aisles : aisle'[a].parent # NoParent => aisle'[a].parent \in Aisles
  BY DEF AisleRow
<1>2. \A a \in Aisles : aisle'[a].parent # NoParent => aisle'[a].there /\ aisle'[aisle'[a].parent].there
  BY <1>1, AislesStand
<1>3. \A a \in Aisles : aisle'[a].parent # NoParent /\ aisle'[aisle'[a].parent].parent # NoParent
                        => a \in crossedMoves' \/ aisle'[a].parent \in crossedMoves'
  BY <1>1, AislesStand
<1>4. \A a \in Aisles : Children(a) = {} => Children(a)' = {}
  BY DEF Children
<1>5. \A v \in Curators : \A c : c = curator'[v] => CuratorHolds(c)'
  <2>1. \A a \in Aisles : <<"moved", a>> \notin facts /\ aisle[a].parent = NoParent => aisle'[a].parent = NoParent
    OBVIOUS
  <2>2. \A a \in Aisles : <<"under", a>> \notin facts /\ Children(a) = {} => Children(a)' = {}
    BY <1>4
  <2> QED
    BY <2>1, <2>2, CuratorsWatch
<1> QED
  BY <1>2, <1>3, <1>5, AislesNext1

\* A call begins.
LEMMA CuratorStarts ==
    ASSUME AislesInv, NEW e \in Curators, NEW c \in CurationType, CuratorHolds(c),
           curator' = [curator EXCEPT ![e] = c], aisle' = aisle, crossedMoves' = crossedMoves
    PROVE  AislesInv'
<1>1. curator' \in [Curators -> CurationType] /\ \A v \in Curators : curator'[v] = c \/ curator'[v] = curator[v]
  BY AislesStand
<1>2. ASSUME NEW v \in Curators, NEW d, d = curator'[v] PROVE CuratorHolds(d)'
  <2>1. CuratorHolds(d)
    BY <1>1, <1>2, AislesStand
  <2> QED
    BY <2>1 DEF CuratorHolds, Children
<1> QED
  BY <1>1, <1>2, AislesStand, AislesNext1

LEMMA AislesBegin == AislesInit => AislesInv
<1> SUFFICES ASSUME AislesInit PROVE AislesInv
  OBVIOUS
<1>1. aisle \in [Aisles -> AisleRow] /\ \A a \in Aisles : aisle[a].parent = NoParent
  <2>1. ASSUME NEW a \in Aisles PROVE aisle[a] \in AisleRow /\ aisle[a].parent = NoParent
    <3>1. PICK m \in MatchModes, r \in RuleSets :
             aisle[a] = [there |-> TRUE, parent |-> NoParent, match |-> m, rules |-> r]
      BY DEF AislesInit
    <3>2. r \subseteq Labels \X Operators
      BY AislesAssumption
    <3> QED
      BY <3>1, <3>2 DEF AisleRow
  <2> QED
    BY <2>1 DEF AislesInit
<1>2. curator \in [Curators -> CurationType] /\ \A e \in Curators : CuratorHolds(curator[e])
  BY CuratorAtRest DEF AislesInit
<1> QED
  BY <1>1, <1>2 DEF AislesInv, TreeHolds, OneLevelDeep

LEMMA AisleOpened ==
    ASSUME AislesInv, NEW e \in Curators, NEW a \in Aisles, NEW p \in Aisles \cup {NoParent}, NEW m \in MatchModes,
           NEW rules \in RuleSets, OpenAisle(e, a, p, m, rules)
    PROVE  AislesInv'
<1>1. PICK at \in {"create", "update"} : at = IF aisle[a].there THEN "update" ELSE "create"
  OBVIOUS
<1>2. PICK c : c = [NoCuration EXCEPT !.at = at, !.aisle = a, !.parent = p, !.match = m, !.rules = rules]
  OBVIOUS
<1>3. rules \subseteq Labels \X Operators
  BY AislesAssumption
<1>4. c \in CurationType /\ c.at = at /\ c.aisle = a /\ c.parent = p
  BY <1>2, <1>3 DEF NoCuration, CurationType
<1>5. p # NoParent => p # a /\ aisle[p].parent = NoParent /\ (aisle[a].there => Children(a) = {})
  BY DEF OpenAisle, MayNest
<1>6. ~aisle[a].there => Children(a) = {}
  <2>1. a # NoParent
    BY AislesAssumption DEF NoParent
  <2> QED
    BY <2>1, AislesStand DEF Children
<1>7. CuratorHolds(c)
  BY <1>1, <1>4, <1>5, <1>6 DEF CuratorHolds
<1> QED
  BY <1>1, <1>2, <1>4, <1>7, CuratorStarts DEF OpenAisle

LEMMA AisleDeletionOpened ==
    ASSUME AislesInv, NEW e \in Curators, NEW a \in Aisles, OpenDeleteAisle(e, a)
    PROVE  AislesInv'
<1>1. PICK c : c = [NoCuration EXCEPT !.at = "remove", !.aisle = a]
  OBVIOUS
<1>2. c \in CurationType /\ c.at = "remove" /\ c.aisle = a
  BY <1>1 DEF NoCuration, CurationType, MatchModes
<1>3. CuratorHolds(c)
  BY <1>2 DEF CuratorHolds
<1> QED
  BY <1>1, <1>2, <1>3, CuratorStarts DEF OpenDeleteAisle

LEMMA LabelDeletionOpened ==
    ASSUME AislesInv, NEW e \in Curators, NEW l \in Labels, OpenDeleteLabel(e, l)
    PROVE  AislesInv'
<1>1. PICK c : c = [NoCuration EXCEPT !.at = "unlabel", !.label = l]
  OBVIOUS
<1>2. c \in CurationType /\ c.at = "unlabel"
  BY <1>1 DEF NoCuration, CurationType, MatchModes
<1>3. CuratorHolds(c)
  BY <1>2 DEF CuratorHolds
<1> QED
  BY <1>1, <1>2, <1>3, CuratorStarts DEF OpenDeleteLabel

LEMMA MergeOpened ==
    ASSUME AislesInv, NEW e \in Curators, NEW l \in Labels, NEW into \in Labels, OpenMerge(e, l, into)
    PROVE  AislesInv'
<1>1. PICK c : c = [NoCuration EXCEPT !.at = "merge", !.label = l, !.into = into]
  OBVIOUS
<1>2. c \in CurationType /\ c.at = "merge" /\ c.into = into
  BY <1>1 DEF NoCuration, CurationType, MatchModes
<1>3. CuratorHolds(c)
  BY <1>2 DEF CuratorHolds
<1> QED
  BY <1>1, <1>2, <1>3, CuratorStarts DEF OpenMerge

\* A call that gives up changes nothing of the tree.
LEMMA CuratorGivesUp ==
    ASSUME AislesInv, NEW e \in Curators, curator' = [curator EXCEPT ![e] = NoCuration],
           aisle' = aisle, crossedMoves' = crossedMoves
    PROVE  AislesInv'
BY AislesStand, LeftGoesOn, TreeKept

LEMMA AisleCommitted ==
    ASSUME AislesInv, NEW e \in Curators, CommitAisle(e)
    PROVE  AislesInv'
<1>1. PICK c : c = curator[e] /\ c \in CurationType /\ CuratorHolds(c)
  BY AislesStand
<1>2. c.at \in {"create", "update"} /\ c.aisle \in Aisles
  BY <1>1 DEF CommitAisle, CuratorHolds
<1>3. CASE ~AisleFits(c)
  BY <1>1, <1>3, CuratorGivesUp DEF CommitAisle
<1>4. CASE AisleFits(c)
  <2>1. PICK x, q : x = c.aisle /\ q = c.parent /\ x \in Aisles /\ q \in Aisles \cup {NoParent}
    BY <1>1, <1>2 DEF CurationType
  <2>2. PICK kept : kept = [there |-> TRUE, parent |-> q, match |-> c.match, rules |-> c.rules]
    OBVIOUS
  <2>3. PICK facts : facts = {<<"moved", x>>, <<"under", q>>} \cup {<<"used", r[1]>> : r \in c.rules}
    OBVIOUS
  <2>4. kept \in AisleRow /\ kept.there /\ kept.parent = q
    BY <1>1, <2>1, <2>2 DEF AisleRow, CurationType
  <2>5. aisle' = [aisle EXCEPT ![x] = kept] /\ curator' = Unseen(e, facts)
    BY <1>1, <1>4, <2>1, <2>2, <2>3 DEF CommitAisle
  <2>6. crossedMoves' = IF <<"moved", x>> \in c.missed \/ <<"moved", q>> \in c.missed \/ <<"under", x>> \in c.missed
                        THEN crossedMoves \cup {x} ELSE crossedMoves \ {x}
    BY <1>1, <1>4, <2>1 DEF CommitAisle
  <2>7. /\ aisle' \in [Aisles -> AisleRow] /\ aisle'[x].there /\ aisle'[x].parent = q
        /\ \A a \in Aisles : a # x => aisle'[a] = aisle[a]
    BY <2>1, <2>4, <2>5, AislesStand
  <2>8. q # NoParent => q # x /\ aisle[q].there /\ (<<"moved", q>> \notin c.missed => aisle[q].parent = NoParent)
                        /\ (<<"under", x>> \notin c.missed => Children(x) = {})
    BY <1>1, <1>2, <1>4, <2>1 DEF CuratorHolds, AisleFits
  <2>9. \A a \in Aisles : aisle[a].parent # NoParent => aisle[a].parent \in Aisles
    BY AislesStand DEF AisleRow
  <2>10. ASSUME NEW a \in Aisles, aisle'[a].parent # NoParent
         PROVE  aisle'[a].there /\ aisle'[aisle'[a].parent].there
    BY <2>1, <2>7, <2>8, <2>9, <2>10, AislesStand
  <2>11. ASSUME NEW a \in Aisles, NEW p \in Aisles, aisle'[a].parent = p, aisle'[p].parent # NoParent, p # NoParent
         PROVE  a \in crossedMoves' \/ p \in crossedMoves'
    <3>1. CASE a # x /\ p # x
      <4>1. aisle[a].parent = p /\ aisle[p].parent # NoParent
        BY <2>7, <2>11, <3>1
      <4>2. a \in crossedMoves \/ p \in crossedMoves
        BY <2>11, <4>1, AislesStand
      <4> QED
        BY <2>6, <3>1, <4>2
    <3>2. CASE x \in crossedMoves' /\ (a = x \/ p = x)
      BY <3>2
    <3>3. CASE x \notin crossedMoves' /\ a = x
      <4>1. p = q /\ <<"moved", q>> \notin c.missed
        BY <2>6, <2>7, <2>11, <3>3
      <4> QED
        BY <2>7, <2>8, <2>11, <4>1
    <3>4. CASE x \notin crossedMoves' /\ p = x /\ a # x
      <4>1. q # NoParent /\ <<"under", x>> \notin c.missed
        BY <2>6, <2>7, <2>11, <3>4
      <4>2. aisle[a].parent = x /\ aisle[a].there
        BY <2>7, <2>11, <3>4, AislesStand
      <4> QED
        BY <2>8, <4>1, <4>2 DEF Children
    <3> QED
      BY <3>1, <3>2, <3>3, <3>4
  <2>12. facts \subseteq Facts
    <3>1. \A r \in c.rules : r[1] \in Labels
      BY <1>1 DEF CurationType
    <3> QED
      BY <2>1, <2>3, <3>1 DEF Facts
  <2>13. curator' \in [Curators -> CurationType] /\ \A v \in Curators : CuratorGoesOn(curator'[v], curator[v], facts)
    BY <2>5, <2>12, UnseenGoesOn
  <2>14. \A v \in Curators : \A d : d = curator'[v] => CuratorHolds(d)'
    <3>1. \A a \in Aisles : <<"moved", a>> \notin facts /\ aisle[a].parent = NoParent => aisle'[a].parent = NoParent
      BY <2>3, <2>7
    <3>2. \A a \in Aisles : <<"under", a>> \notin facts /\ Children(a) = {} => Children(a)' = {}
      BY <2>3, <2>7 DEF Children
    <3> QED
      BY <2>13, <3>1, <3>2, CuratorsWatch
  <2>15. \A a \in Aisles : aisle'[a].parent # NoParent /\ aisle'[aisle'[a].parent].parent # NoParent
                           => a \in crossedMoves' \/ aisle'[a].parent \in crossedMoves'
    BY <2>7, <2>11 DEF AisleRow
  <2> QED
    BY <2>7, <2>10, <2>13, <2>14, <2>15, AislesNext1
<1> QED
  BY <1>3, <1>4

LEMMA AisleDeleted ==
    ASSUME AislesInv, NEW e \in Curators, CommitDeleteAisle(e)
    PROVE  AislesInv'
<1>1. PICK c : c = curator[e] /\ c \in CurationType /\ CuratorHolds(c)
  BY AislesStand
<1>2. PICK x \in Aisles : x = c.aisle
  BY <1>1 DEF CommitDeleteAisle, CuratorHolds
<1>3. curator' = [curator EXCEPT ![e] = NoCuration]
  BY DEF CommitDeleteAisle
<1>4. CASE ~(aisle[x].there /\ Children(x) = {})
  BY <1>1, <1>2, <1>3, <1>4, CuratorGivesUp DEF CommitDeleteAisle
<1>5. CASE aisle[x].there /\ Children(x) = {}
  <2>1. PICK bare : bare = [there |-> FALSE, parent |-> NoParent, match |-> "ALL", rules |-> {}]
    OBVIOUS
  <2>2. bare \in AisleRow /\ bare.parent = NoParent /\ ~bare.there
    BY <2>1 DEF AisleRow, MatchModes
  <2>3. aisle' = [aisle EXCEPT ![x] = bare] /\ crossedMoves' = crossedMoves \ {x}
    BY <1>1, <1>2, <1>5, <2>1 DEF CommitDeleteAisle
  <2>4. /\ aisle' \in [Aisles -> AisleRow] /\ aisle'[x].parent = NoParent /\ ~aisle'[x].there
        /\ \A a \in Aisles : a # x => aisle'[a] = aisle[a]
    BY <2>2, <2>3, AislesStand
  <2>5. \A a \in Aisles : aisle[a].parent # NoParent => aisle[a].parent \in Aisles /\ aisle[a].parent # x
    BY <1>5, AislesStand DEF AisleRow, Children
  <2>6. \A a \in Aisles : aisle'[a].parent # NoParent => aisle'[a].there /\ aisle'[aisle'[a].parent].there
    BY <2>4, <2>5, AislesStand
  <2>7. \A a \in Aisles : aisle'[a].parent # NoParent /\ aisle'[aisle'[a].parent].parent # NoParent
                          => a \in crossedMoves' \/ aisle'[a].parent \in crossedMoves'
    BY <2>3, <2>4, <2>5, AislesStand
  <2>8. curator' \in [Curators -> CurationType] /\ \A v \in Curators : CuratorGoesOn(curator'[v], curator[v], {})
    BY <1>3, LeftGoesOn
  <2>9. \A v \in Curators : \A d : d = curator'[v] => CuratorHolds(d)'
    <3>1. \A a \in Aisles : <<"moved", a>> \notin {} /\ aisle[a].parent = NoParent => aisle'[a].parent = NoParent
      BY <2>4
    <3>2. \A a \in Aisles : <<"under", a>> \notin {} /\ Children(a) = {} => Children(a)' = {}
      BY <2>4 DEF Children
    <3> QED
      BY <2>8, <3>1, <3>2, CuratorsWatch
  <2> QED
    BY <2>4, <2>6, <2>7, <2>8, <2>9, AislesNext1
<1> QED
  BY <1>4, <1>5

LEMMA LabelDeleted ==
    ASSUME AislesInv, NEW e \in Curators, CommitDeleteLabel(e)
    PROVE  AislesInv'
<1>1. PICK l : l = curator[e].label
  OBVIOUS
<1>2. /\ aisle' = [a \in Aisles |-> [aisle[a] EXCEPT !.rules = {r \in @ : r[1] # l}]]
      /\ curator' = [curator EXCEPT ![e] = NoCuration] /\ crossedMoves' = crossedMoves
  BY <1>1 DEF CommitDeleteLabel
<1>3. ASSUME NEW a \in Aisles
      PROVE  aisle'[a] \in AisleRow /\ aisle'[a].there = aisle[a].there /\ aisle'[a].parent = aisle[a].parent
  <2>1. PICK o : o = aisle[a] /\ o \in AisleRow
    BY AislesStand
  <2>2. PICK n : n = [o EXCEPT !.rules = {r \in @ : r[1] # l}]
    OBVIOUS
  <2>3. n \in AisleRow /\ n.there = o.there /\ n.parent = o.parent
    BY <2>1, <2>2 DEF AisleRow
  <2>4. aisle'[a] = n
    BY <1>2, <2>1, <2>2
  <2> QED
    BY <2>1, <2>3, <2>4
<1>4. aisle' \in [Aisles -> AisleRow]
  BY <1>2, <1>3
<1>5. curator' \in [Curators -> CurationType] /\ \A v \in Curators : CuratorGoesOn(curator'[v], curator[v], {})
  BY <1>2, LeftGoesOn
<1> QED
  BY <1>2, <1>3, <1>4, <1>5, TreeKept

LEMMA LabelsMerged ==
    ASSUME AislesInv, NEW e \in Curators, CommitMerge(e)
    PROVE  AislesInv'
<1>1. PICK c : c = curator[e] /\ c \in CurationType /\ CuratorHolds(c)
  BY AislesStand
<1>2. PICK source, into : source = c.label /\ into = c.into /\ into \in Labels
  BY <1>1 DEF CommitMerge, CuratorHolds
<1>3. CASE aisle' = aisle /\ curator' = [curator EXCEPT ![e] = NoCuration] /\ crossedMoves' = crossedMoves
  BY <1>3, CuratorGivesUp
<1>4. CASE ~(aisle' = aisle /\ curator' = [curator EXCEPT ![e] = NoCuration] /\ crossedMoves' = crossedMoves)
  <2>1. /\ aisle' = [a \in Aisles |-> [aisle[a] EXCEPT !.rules = Relabelled(@, source, into)]]
        /\ crossedMoves' = crossedMoves
        /\ \/ curator' = Unseen(e, {<<"used", into>>})
           \/ curator' = Unseen(e, {})
    BY <1>1, <1>2, <1>4 DEF CommitMerge
  <2>2. ASSUME NEW a \in Aisles
        PROVE  aisle'[a] \in AisleRow /\ aisle'[a].there = aisle[a].there /\ aisle'[a].parent = aisle[a].parent
    <3>1. PICK o : o = aisle[a] /\ o \in AisleRow
      BY AislesStand
    <3>2. PICK n : n = [o EXCEPT !.rules = Relabelled(@, source, into)]
      OBVIOUS
    <3>3. Relabelled(o.rules, source, into) \subseteq Labels \X Operators
      <4>1. o.rules \subseteq Labels \X Operators
        BY <3>1 DEF AisleRow
      <4>2. \A r \in o.rules : r[2] \in Operators
        BY <4>1
      <4> QED
        BY <1>2, <4>1, <4>2 DEF Relabelled
    <3>4. n \in AisleRow /\ n.there = o.there /\ n.parent = o.parent
      BY <3>1, <3>2, <3>3 DEF AisleRow
    <3>5. aisle'[a] = n
      BY <2>1, <3>1, <3>2
    <3> QED
      BY <3>1, <3>4, <3>5
  <2>3. aisle' \in [Aisles -> AisleRow]
    BY <2>1, <2>2
  <2>4. PICK facts : facts \subseteq Facts /\ curator' = Unseen(e, facts)
    BY <1>2, <2>1 DEF Facts
  <2>5. curator' \in [Curators -> CurationType] /\ \A v \in Curators : CuratorGoesOn(curator'[v], curator[v], facts)
    BY <2>4, UnseenGoesOn
  <2> QED
    BY <2>1, <2>2, <2>3, <2>5, TreeKept
<1> QED
  BY <1>3, <1>4

LEMMA ShelvesKept ==
    ASSUME AislesInv, aisle' = aisle, crossedMoves' = crossedMoves, NEW facts, facts \subseteq Facts,
           curator' = Unseen("nobody", facts)
    PROVE  AislesInv'
<1>1. curator' \in [Curators -> CurationType] /\ \A v \in Curators : CuratorGoesOn(curator'[v], curator[v], facts)
  BY UnseenGoesOn
<1> QED
  BY <1>1, AislesStand, TreeKept

LEMMA ProductFiled ==
    ASSUME AislesInv, NEW i \in Stocked, NEW a \in Aisles \cup {NoParent}, NEW tags \in SUBSET Labels, FileProduct(i, a, tags)
    PROVE  AislesInv'
<1>1. PICK facts : facts = {<<"filed", a>>}
  OBVIOUS
<1>3. facts \subseteq Facts
  BY <1>1 DEF Facts
<1>2. aisle' = aisle /\ crossedMoves' = crossedMoves /\ curator' = Unseen("nobody", facts)
  BY <1>1 DEF FileProduct
<1> QED
  BY <1>2, <1>3, ShelvesKept

LEMMA OfferTargeted ==
    ASSUME AislesInv, NEW tags \in SUBSET Labels, TargetOffer(tags)
    PROVE  AislesInv'
<1>1. PICK facts : facts = {<<"used", l>> : l \in tags}
  OBVIOUS
<1>3. facts \subseteq Facts
  BY <1>1 DEF Facts
<1>2. aisle' = aisle /\ crossedMoves' = crossedMoves /\ curator' = Unseen("nobody", facts)
  BY <1>1 DEF TargetOffer
<1> QED
  BY <1>2, <1>3, ShelvesKept

LEMMA AislesStep ==
    ASSUME AislesInv, AislesNext \/ UNCHANGED aisleVars
    PROVE  AislesInv'
<1>1. CASE UNCHANGED aisleVars
  <2>1. aisle' = aisle /\ curator' = curator /\ crossedMoves' = crossedMoves
    BY <1>1 DEF aisleVars
  <2>2. \A v \in Curators : CuratorGoesOn(curator'[v], curator[v], {})
    BY <2>1 DEF CuratorGoesOn
  <2> QED
    BY <2>1, <2>2, AislesStand, TreeKept
<1>2. CASE AislesNext
  BY <1>2, AisleOpened, AisleDeletionOpened, LabelDeletionOpened, MergeOpened, AisleCommitted, AisleDeleted,
     LabelDeleted, LabelsMerged, ProductFiled, OfferTargeted DEF AislesNext
<1> QED
  BY <1>1, <1>2

\* The two directions of a rule agree, and a parent's page lists its children's.
LEMMA DirectionsRight == ASSUME AislesInv PROVE DirectionsAgree
<1>1. ASSUME NEW rules, NEW match \in MatchModes
      PROVE  TagRuleWhere(rules, match) = {i \in Stocked : MatchesTagRules(rules, match, carries[i])}
  <2>1. PICK includes, excludes : includes = Named(rules, "INCLUDES") /\ excludes = Named(rules, "EXCLUDES")
    OBVIOUS
  <2>2. CASE includes = {}
    BY <2>1, <2>2 DEF TagRuleWhere, MatchesTagRules
  <2>3. CASE includes # {}
    <3>1. \A i \in Stocked : i \in UNION {WithTag(l) : l \in excludes} <=> excludes \cap carries[i] # {}
      BY DEF WithTag
    <3>2. \A i \in Stocked : i \in UNION {WithTag(l) : l \in includes} <=> includes \cap carries[i] # {}
      BY DEF WithTag
    <3>3. \A i \in Stocked : (\A l \in includes : i \in WithTag(l)) <=> includes \subseteq carries[i]
      BY DEF WithTag
    <3>4. UNION {WithTag(l) : l \in includes} \subseteq Stocked
      BY DEF WithTag
    <3>5. TagRuleWhere(rules, match) =
            (IF match = "ALL" THEN {i \in Stocked : \A l \in includes : i \in WithTag(l)}
             ELSE UNION {WithTag(l) : l \in includes}) \ UNION {WithTag(l) : l \in excludes}
      BY <2>1, <2>3 DEF TagRuleWhere
    <3>6. \A i : MatchesTagRules(rules, match, carries[i]) <=>
                    /\ excludes \cap carries[i] = {}
                    /\ IF match = "ALL" THEN includes \subseteq carries[i] ELSE includes \cap carries[i] # {}
      BY <2>1, <2>3 DEF MatchesTagRules
    <3>7. CASE match = "ALL"
      BY <3>1, <3>3, <3>5, <3>6, <3>7
    <3>8. CASE match # "ALL"
      BY <3>1, <3>2, <3>4, <3>5, <3>6, <3>8
    <3> QED
      BY <3>7, <3>8
  <2> QED
    BY <2>2, <2>3
<1>2. ASSUME NEW a \in Aisles, aisle[a].there, aisle[a].parent # NoParent
      PROVE  Members(a) \subseteq PageLists(aisle[a].parent)
  <2>1. a \in Children(aisle[a].parent)
    BY <1>2 DEF Children
  <2> QED
    BY <2>1 DEF PageLists
<1>3. \A a \in Aisles : aisle[a].match \in MatchModes
  BY AislesStand DEF AisleRow
<1> QED
  BY <1>1, <1>2, <1>3 DEF DirectionsAgree

-----------------------------------------------------------------------------
(* Website: a link leads to what it was made for.                          *)

TargetRow == [slug : Addresses \cup {NoAddress}, live : BOOLEAN, since : 0..MaxAuthored]

LEMMA WebsiteStands ==
    ASSUME WebsiteInv
    PROVE  /\ target \in [Targets -> TargetRow] /\ menu \subseteq Link /\ author \in [Authoring -> AuthorCall]
           /\ moved \subseteq Targets /\ crossed \subseteq Targets /\ authored \in 0..MaxAuthored
           /\ \A l \in menu : l.to \in Guarded \ (moved \cup crossed) => target[l.to].slug = l.url
           /\ \A c \in Authoring : AuthorHolds(author[c])
BY DEF WebsiteInv, WebsiteTypeOK, LinksLeadHome, TargetRow, Link

LEMMA WebsiteBounds == 0 \in 0..MaxAuthored /\ NoAddress \notin Addresses /\ MaxAuthored \in Nat
<1>1. MaxAuthored \in Nat
  BY WebsiteAssumption
<1>2. 0 \in 0..MaxAuthored
  BY <1>1
<1> QED
  BY <1>1, <1>2, WebsiteAssumption DEF NoAddress

LEMMA WebsiteNext1 ==
    ASSUME target' \in [Targets -> TargetRow], menu' \subseteq Link, author' \in [Authoring -> AuthorCall],
           moved' \subseteq Targets, crossed' \subseteq Targets, authored' \in 0..MaxAuthored,
           \A l \in Link : l \in menu' /\ l.to \in Guarded /\ l.to \notin moved' /\ l.to \notin crossed' => target'[l.to].slug = l.url,
           \A c \in Authoring : \A d : d = author'[c] => AuthorHolds(d)'
    PROVE  WebsiteInv'
<1>1. ASSUME NEW c \in Authoring
      PROVE  author'[c].of \subseteq Targets /\ author'[c].found \subseteq Link
  BY DEF AuthorCall
<1>2. WebsiteTypeOK'
  BY <1>1 DEF WebsiteTypeOK, TargetRow, Link
<1>3. LinksLeadHome'
  BY DEF LinksLeadHome
<1>4. (\A c \in Authoring : AuthorHolds(author[c]))'
  BY DEF AuthorHolds, Linked
<1> QED
  BY <1>2, <1>3, <1>4 DEF WebsiteInv

LEMMA AuthorAtRest == Resting \in AuthorCall /\ Resting.at = "idle" /\ AuthorHolds(Resting) /\ AuthorHolds(Resting)'
<1>1. Resting \in AuthorCall /\ Resting.at = "idle"
  BY WebsiteBounds DEF Resting, AuthorCall
<1> QED
  BY <1>1 DEF AuthorHolds

\* A call starts.
LEMMA AuthorStarts ==
    ASSUME WebsiteInv, NEW c \in Authoring, NEW call \in AuthorCall, AuthorHolds(call), Starting(c, call),
           UNCHANGED <<target, menu, moved, crossed>>
    PROVE  WebsiteInv'
<1>1. /\ author' \in [Authoring -> AuthorCall] /\ authored' \in 0..MaxAuthored
      /\ \A d \in Authoring : author'[d] = IF d = c THEN call ELSE author[d]
  <2>1. authored' = authored + 1 /\ authored < MaxAuthored /\ authored \in 0..MaxAuthored
    BY WebsiteStands DEF Starting
  <2>2. authored' \in 0..MaxAuthored
    BY <2>1, WebsiteBounds
  <2>3. author' = [author EXCEPT ![c] = call] /\ author \in [Authoring -> AuthorCall]
    BY WebsiteStands DEF Starting
  <2> QED
    BY <2>2, <2>3
<1>2. ASSUME NEW d \in Authoring, NEW e, e = author'[d] PROVE AuthorHolds(e)'
  <2>1. AuthorHolds(e)
    BY <1>1, <1>2, WebsiteStands
  <2> QED
    BY <2>1 DEF AuthorHolds, Linked
<1>3. \A l \in Link : l \in menu' /\ l.to \in Guarded /\ l.to \notin moved' /\ l.to \notin crossed' => target'[l.to].slug = l.url
  BY WebsiteStands
<1> QED
  BY <1>1, <1>2, <1>3, WebsiteStands, WebsiteNext1

\* A call ends; what it changed of records and links, the others have it crossed.
LEMMA AuthorEnds ==
    ASSUME WebsiteInv, NEW c \in Authoring, NEW changed, changed \subseteq Targets, NEW renamed, renamed \subseteq Targets,
           Ending(c, changed, renamed),
           \A t \in Targets \ changed : target'[t] = target[t],
           \A t \in Targets \ changed : Linked(t)' => Linked(t)
    PROVE  author' \in [Authoring -> AuthorCall] /\ \A d \in Authoring : \A e : e = author'[d] => AuthorHolds(e)'
<1>1. ASSUME NEW d \in Authoring
      PROVE  author'[d] \in AuthorCall /\ \A e : e = author'[d] => AuthorHolds(e)'
  <2>1. PICK r : r = author[d] /\ r \in AuthorCall /\ AuthorHolds(r)
    BY WebsiteStands
  <2>2. CASE d = c
    <3>1. author'[d] = Resting
      BY <2>2 DEF Ending
    <3> QED
      BY <3>1, AuthorAtRest
  <2>3. CASE d # c /\ r.at = "idle"
    <3>1. author'[d] = r
      BY <2>1, <2>3 DEF Ending
    <3> QED
      BY <2>1, <2>3, <3>1 DEF AuthorHolds
  <2>4. CASE d # c /\ r.at # "idle"
    <3>1. PICK e : e = [r EXCEPT !.crossed = @ \cup changed, !.moved = @ \cup renamed]
      OBVIOUS
    <3>2. author'[d] = e
      BY <2>1, <2>4, <3>1 DEF Ending
    <3>3. /\ e \in AuthorCall /\ e.at = r.at /\ e.of = r.of /\ e.slug = r.slug /\ e.since = r.since /\ e.found = r.found
          /\ e.crossed = r.crossed \cup changed
      BY <2>1, <3>1 DEF AuthorCall
    <3>4. r.of \subseteq Targets /\ r.found \subseteq Link
      BY <2>1 DEF AuthorCall
    <3>5. e.at \in {"update", "create"} => e.slug \in Addresses
      BY <2>1, <3>3 DEF AuthorHolds
    <3>6. e.at \in {"update", "create", "publish"} => \A t \in e.of \ e.crossed : e.since = target'[t].since
      BY <2>1, <3>3, <3>4 DEF AuthorHolds
    <3>7. e.at = "delete" => \A t \in e.of \ e.crossed : ~Linked(t)'
      BY <2>1, <3>3, <3>4 DEF AuthorHolds
    <3>8. e.at = "menu" => \A l \in e.found :
             l.to \in e.of /\ (l.to \notin e.crossed => target'[l.to].slug = l.url)
      BY <2>1, <3>3, <3>4 DEF AuthorHolds
    <3>9. AuthorHolds(e)'
      BY <3>5, <3>6, <3>7, <3>8 DEF AuthorHolds
    <3> QED
      BY <3>2, <3>3, <3>9
  <2> QED
    BY <2>2, <2>3, <2>4
<1>2. author' \in [Authoring -> AuthorCall]
  BY <1>1 DEF Ending
<1> QED
  BY <1>1, <1>2

LEMMA WebsiteBegins == WebsiteInit => WebsiteInv
<1> SUFFICES ASSUME WebsiteInit PROVE WebsiteInv
  OBVIOUS
<1>1. Gone \in TargetRow
  BY WebsiteBounds DEF Gone, TargetRow
<1>2. target \in [Targets -> TargetRow] /\ menu = {}
  BY <1>1 DEF WebsiteInit
<1>3. author \in [Authoring -> AuthorCall] /\ \A c \in Authoring : author[c] = Resting
  BY AuthorAtRest DEF WebsiteInit
<1>4. \A c \in Authoring : author[c].of \subseteq Targets /\ author[c].found \subseteq Link
  BY <1>3 DEF Resting
<1>5. moved = {} /\ crossed = {} /\ authored = 0
  BY DEF WebsiteInit
<1>7. WebsiteTypeOK
  BY <1>2, <1>4, <1>5, WebsiteBounds DEF WebsiteTypeOK, TargetRow, Link
<1>6. \A c \in Authoring : AuthorHolds(author[c])
  BY <1>3, AuthorAtRest
<1> QED
  BY <1>2, <1>3, <1>6, <1>7 DEF WebsiteInv, LinksLeadHome

\* The calls about one record begin.
LEMMA PageOpened ==
    ASSUME WebsiteInv, NEW c \in Authoring, NEW t \in Targets, NEW slug \in Addresses, NEW live \in BOOLEAN,
           OpenPage(c, t, slug, live)
    PROVE  WebsiteInv'
<1>1. PICK at \in {"update", "create"} : at = IF t \in Existing THEN "update" ELSE "create"
  OBVIOUS
<1>2. PICK since : since = target[t].since /\ since \in 0..MaxAuthored
  BY WebsiteStands DEF TargetRow
<1>3. PICK call : call = [Resting EXCEPT !.at = at, !.of = {t}, !.slug = slug, !.live = live, !.since = since]
  OBVIOUS
<1>4. call \in AuthorCall /\ call.at = at /\ call.of = {t} /\ call.slug = slug /\ call.since = since
  BY <1>2, <1>3 DEF Resting, AuthorCall
<1>5. AuthorHolds(call)
  BY <1>1, <1>2, <1>4 DEF AuthorHolds
<1> QED
  BY <1>1, <1>2, <1>3, <1>4, <1>5, AuthorStarts DEF OpenPage

LEMMA PublishOpened ==
    ASSUME WebsiteInv, NEW c \in Authoring, NEW t \in Targets, NEW live \in BOOLEAN, OpenPublish(c, t, live)
    PROVE  WebsiteInv'
<1>1. PICK since : since = target[t].since /\ since \in 0..MaxAuthored
  BY WebsiteStands DEF TargetRow
<1>2. PICK call : call = [Resting EXCEPT !.at = "publish", !.of = {t}, !.live = live, !.since = since]
  OBVIOUS
<1>3. call \in AuthorCall /\ call.at = "publish" /\ call.of = {t} /\ call.since = since
  BY <1>1, <1>2 DEF Resting, AuthorCall
<1>4. AuthorHolds(call)
  BY <1>1, <1>3 DEF AuthorHolds
<1> QED
  BY <1>1, <1>2, <1>3, <1>4, AuthorStarts DEF OpenPublish

LEMMA PageDeletionOpened ==
    ASSUME WebsiteInv, NEW c \in Authoring, NEW t \in Targets, OpenDeletePage(c, t)
    PROVE  WebsiteInv'
<1>1. PICK call : call = [Resting EXCEPT !.at = "delete", !.of = {t}]
  OBVIOUS
<1>2. call \in AuthorCall /\ call.at = "delete" /\ call.of = {t}
  BY <1>1, WebsiteBounds DEF Resting, AuthorCall
<1>3. AuthorHolds(call)
  BY <1>2 DEF AuthorHolds, OpenDeletePage
<1> QED
  BY <1>1, <1>2, <1>3, AuthorStarts DEF OpenDeletePage

LEMMA MenuOpened ==
    ASSUME WebsiteInv, NEW c \in Authoring, NEW targets \in SUBSET Targets, OpenMenu(c, targets)
    PROVE  WebsiteInv'
<1>1. PICK found : found = Resolved(targets)
  OBVIOUS
<1>2. \A l \in found : l \in Link /\ l.to \in targets /\ l.url = target[l.to].slug
  BY <1>1, WebsiteStands DEF OpenMenu, Existing, Resolved, Link, TargetRow
<1>3. PICK call : call = [Resting EXCEPT !.at = "menu", !.of = targets, !.found = found]
  OBVIOUS
<1>4. found \in SUBSET Link
  BY <1>2
<1>5. call \in AuthorCall /\ call.at = "menu" /\ call.of = targets /\ call.found = found
  BY <1>3, <1>4, WebsiteBounds DEF Resting, AuthorCall
<1>6. AuthorHolds(call)
  BY <1>2, <1>5 DEF AuthorHolds
<1> QED
  BY <1>1, <1>3, <1>5, <1>6, AuthorStarts DEF OpenMenu

LEMMA PageCommitted ==
    ASSUME WebsiteInv, NEW c \in Authoring, NEW t \in Targets, CommitPage(c, t)
    PROVE  WebsiteInv'
<1>1. PICK call, renamed : /\ call = author[c] /\ call \in AuthorCall
                           /\ renamed = IF PageFits(c, t) /\ t \in Existing /\ target[t].slug # call.slug THEN {t} ELSE {}
  BY WebsiteStands
<1>2. call.at \in {"update", "create"} /\ call.of = {t} /\ call.slug \in Addresses
  BY <1>1, WebsiteStands DEF CommitPage, AuthorHolds
<1>3. /\ moved' = moved \cup renamed /\ Ending(c, {t}, renamed) /\ menu' = menu /\ crossed' = crossed /\ authored' = authored
      /\ target' = IF PageFits(c, t)
                   THEN [target EXCEPT ![t] = [slug |-> call.slug, live |-> call.live,
                                               since |-> Stamped(call.live, call.since)]]
                   ELSE target
  BY <1>1 DEF CommitPage
<1>4. Stamped(call.live, call.since) \in 0..MaxAuthored
  BY <1>1, WebsiteStands DEF Stamped, AuthorCall
<1>5. /\ target' \in [Targets -> TargetRow] /\ \A u \in Targets \ {t} : target'[u] = target[u]
      /\ target'[t] = target[t] \/ (PageFits(c, t) /\ target'[t].slug = call.slug)
  <2>1. CASE ~PageFits(c, t)
    BY <1>3, <2>1, WebsiteStands
  <2>2. CASE PageFits(c, t)
    <3>1. PICK r : r = [slug |-> call.slug, live |-> call.live, since |-> Stamped(call.live, call.since)]
      OBVIOUS
    <3>2. r \in TargetRow /\ r.slug = call.slug
      BY <1>1, <1>4, <3>1 DEF TargetRow, AuthorCall
    <3>3. target' = [target EXCEPT ![t] = r]
      BY <1>3, <2>2, <3>1
    <3> QED
      BY <2>2, <3>2, <3>3, WebsiteStands
  <2> QED
    BY <2>1, <2>2
<1>6. renamed \subseteq {t}
  BY <1>1
<1>7. author' \in [Authoring -> AuthorCall] /\ \A d \in Authoring : \A e : e = author'[d] => AuthorHolds(e)'
  <2>1. \A u \in Targets \ {t} : target'[u] = target[u]
    BY <1>5
  <2>2. \A u \in Targets \ {t} : Linked(u)' => Linked(u)
    BY <1>3 DEF Linked
  <2>3. {t} \subseteq Targets /\ renamed \subseteq Targets
    BY <1>6
  <2> QED
    BY <1>3, <2>1, <2>2, <2>3, AuthorEnds
<1>8. ASSUME NEW l \in Link, l \in menu', l.to \in Guarded, l.to \notin moved', l.to \notin crossed'
      PROVE  target'[l.to].slug = l.url
  <2>1. target[l.to].slug = l.url /\ l.to \in Targets /\ l.url \in Addresses
    BY <1>3, <1>8, WebsiteStands DEF Link
  <2>2. CASE l.to # t
    BY <1>5, <2>1, <2>2
  <2>3. CASE l.to = t
    <3>1. t \in Existing
      BY <2>1, <2>3, WebsiteBounds DEF Existing
    <3>2. PageFits(c, t) => target[t].slug = call.slug
      BY <1>1, <1>3, <1>8, <2>3, <3>1
    <3> QED
      BY <1>5, <2>1, <2>3, <3>2
  <2> QED
    BY <2>2, <2>3
<1>9. moved' \subseteq Targets /\ menu' \subseteq Link /\ crossed' \subseteq Targets /\ authored' \in 0..MaxAuthored
  BY <1>3, <1>6, WebsiteStands
<1> QED
  BY <1>5, <1>7, <1>8, <1>9, WebsiteNext1

LEMMA PublishCommitted ==
    ASSUME WebsiteInv, NEW c \in Authoring, NEW t \in Targets, CommitPublish(c, t)
    PROVE  WebsiteInv'
<1>1. PICK call : call = author[c] /\ call \in AuthorCall
  BY WebsiteStands
<1>2. /\ Ending(c, {t}, {}) /\ menu' = menu /\ moved' = moved /\ crossed' = crossed /\ authored' = authored
      /\ target' = IF t \in Existing
                   THEN [target EXCEPT ![t].live = call.live, ![t].since = Stamped(call.live, call.since)]
                   ELSE target
  BY <1>1 DEF CommitPublish
<1>3. Stamped(call.live, call.since) \in 0..MaxAuthored /\ call.live \in BOOLEAN
  BY <1>1, WebsiteStands DEF Stamped, AuthorCall
<1>4. /\ target' \in [Targets -> TargetRow] /\ \A u \in Targets \ {t} : target'[u] = target[u]
      /\ target'[t].slug = target[t].slug
  <2>1. CASE t \notin Existing
    BY <1>2, <2>1, WebsiteStands
  <2>2. CASE t \in Existing
    <3>1. PICK r : r = target[t] /\ r \in TargetRow
      BY WebsiteStands
    <3>2. PICK q : q = [r EXCEPT !.live = call.live, !.since = Stamped(call.live, call.since)]
      OBVIOUS
    <3>3. q \in TargetRow /\ q.slug = r.slug
      BY <1>3, <3>1, <3>2 DEF TargetRow
    <3>4. target' = [target EXCEPT ![t] = q]
      BY <1>2, <2>2, <3>1, <3>2, WebsiteStands
    <3> QED
      BY <3>1, <3>3, <3>4, WebsiteStands
  <2> QED
    BY <2>1, <2>2
<1>5. author' \in [Authoring -> AuthorCall] /\ \A d \in Authoring : \A e : e = author'[d] => AuthorHolds(e)'
  <2>1. \A u \in Targets \ {t} : target'[u] = target[u]
    BY <1>4
  <2>2. \A u \in Targets \ {t} : Linked(u)' => Linked(u)
    BY <1>2 DEF Linked
  <2>3. PICK changed, renamed : changed = {t} /\ renamed = {}
    OBVIOUS
  <2>4. changed \subseteq Targets /\ renamed \subseteq Targets /\ Ending(c, changed, renamed)
    BY <1>2, <2>3
  <2>5. \A u \in Targets \ changed : target'[u] = target[u] /\ (Linked(u)' => Linked(u))
    BY <2>1, <2>2, <2>3
  <2> QED
    BY <2>4, <2>5, AuthorEnds
<1>6. \A l \in Link : l \in menu' /\ l.to \in Guarded /\ l.to \notin moved' /\ l.to \notin crossed' => target'[l.to].slug = l.url
  BY <1>2, <1>4, WebsiteStands DEF Link
<1> QED
  BY <1>2, <1>4, <1>5, <1>6, WebsiteStands, WebsiteNext1

LEMMA PageDeleted ==
    ASSUME WebsiteInv, NEW c \in Authoring, NEW t \in Targets, CommitDeletePage(c, t)
    PROVE  WebsiteInv'
<1>1. PICK call : call = author[c] /\ call \in AuthorCall /\ AuthorHolds(call)
  BY WebsiteStands
<1>2. /\ Ending(c, {t}, {}) /\ menu' = menu /\ moved' = moved /\ authored' = authored
      /\ target' = [target EXCEPT ![t] = Gone]
      /\ crossed' = IF t \in call.crossed THEN crossed \cup {t} ELSE crossed
      /\ call.at = "delete" /\ call.of = {t}
  BY <1>1 DEF CommitDeletePage
<1>3. Gone \in TargetRow
  BY WebsiteBounds DEF Gone, TargetRow
<1>4. target' \in [Targets -> TargetRow] /\ \A u \in Targets \ {t} : target'[u] = target[u]
  BY <1>2, <1>3, WebsiteStands
<1>5. author' \in [Authoring -> AuthorCall] /\ \A d \in Authoring : \A e : e = author'[d] => AuthorHolds(e)'
  <2>1. \A u \in Targets \ {t} : target'[u] = target[u]
    BY <1>4
  <2>2. \A u \in Targets \ {t} : Linked(u)' => Linked(u)
    BY <1>2 DEF Linked
  <2>3. PICK changed, renamed : changed = {t} /\ renamed = {}
    OBVIOUS
  <2>4. changed \subseteq Targets /\ renamed \subseteq Targets /\ Ending(c, changed, renamed)
    BY <1>2, <2>3
  <2>5. \A u \in Targets \ changed : target'[u] = target[u] /\ (Linked(u)' => Linked(u))
    BY <2>1, <2>2, <2>3
  <2> QED
    BY <2>4, <2>5, AuthorEnds
<1>6. ASSUME NEW l \in Link, l \in menu', l.to \in Guarded, l.to \notin moved', l.to \notin crossed'
      PROVE  target'[l.to].slug = l.url
  <2>1. target[l.to].slug = l.url /\ l.to \in Targets
    BY <1>2, <1>6, WebsiteStands DEF Link
  <2>2. l.to # t
    <3>1. SUFFICES ASSUME l.to = t PROVE FALSE
      OBVIOUS
    <3>2. t \notin call.crossed
      BY <1>2, <1>6, <3>1
    <3>3. ~Linked(t)
      BY <1>1, <1>2, <3>2 DEF AuthorHolds
    <3> QED
      BY <1>2, <1>6, <3>1, <3>3 DEF Linked
  <2> QED
    BY <1>4, <2>1, <2>2
<1>7. moved' \subseteq Targets /\ menu' \subseteq Link /\ crossed' \subseteq Targets /\ authored' \in 0..MaxAuthored
  BY <1>2, WebsiteStands
<1> QED
  BY <1>4, <1>5, <1>6, <1>7, WebsiteNext1

LEMMA MenuCommitted ==
    ASSUME WebsiteInv, NEW c \in Authoring, CommitMenu(c)
    PROVE  WebsiteInv'
<1>1. PICK call : call = author[c] /\ call \in AuthorCall /\ AuthorHolds(call)
  BY WebsiteStands
<1>2. /\ call.at = "menu" /\ menu' = call.found /\ moved' = call.moved /\ crossed' = call.of \cap call.crossed
      /\ Ending(c, call.of, {}) /\ target' = target /\ authored' = authored
  BY <1>1 DEF CommitMenu
<1>3. call.of \subseteq Targets /\ call.found \subseteq Link /\ call.moved \subseteq Targets
  BY <1>1 DEF AuthorCall
<1>4. \A l \in call.found : l.to \in call.of /\ (l.to \notin call.crossed => target[l.to].slug = l.url)
  BY <1>1, <1>2 DEF AuthorHolds
<1>5. author' \in [Authoring -> AuthorCall] /\ \A d \in Authoring : \A e : e = author'[d] => AuthorHolds(e)'
  <2>1. \A u \in Targets \ call.of : target'[u] = target[u]
    BY <1>2
  <2>2. \A u \in Targets \ call.of : Linked(u)' => Linked(u)
    BY <1>2, <1>4 DEF Linked
  <2>3. PICK changed, renamed : changed = call.of /\ renamed = {}
    OBVIOUS
  <2>4. changed \subseteq Targets /\ renamed \subseteq Targets /\ Ending(c, changed, renamed)
    BY <1>2, <1>3, <2>3
  <2>5. \A u \in Targets \ changed : target'[u] = target[u] /\ (Linked(u)' => Linked(u))
    BY <2>1, <2>2, <2>3
  <2> QED
    BY <2>4, <2>5, AuthorEnds
<1>6. \A l \in Link : l \in menu' /\ l.to \in Guarded /\ l.to \notin moved' /\ l.to \notin crossed' => target'[l.to].slug = l.url
  BY <1>2, <1>4
<1>7. moved' \subseteq Targets /\ menu' \subseteq Link /\ crossed' \subseteq Targets
  BY <1>2, <1>3
<1> QED
  BY <1>2, <1>5, <1>6, <1>7, WebsiteStands, WebsiteNext1

LEMMA WebsiteStep ==
    ASSUME WebsiteInv, WebsiteNext \/ UNCHANGED websiteVars
    PROVE  WebsiteInv'
<1>1. CASE UNCHANGED websiteVars
  <2>1. UNCHANGED <<target, menu, author, moved, crossed, authored>>
    BY <1>1 DEF websiteVars
  <2>2. \A d \in Authoring : \A e : e = author'[d] => AuthorHolds(e)'
    BY <2>1, WebsiteStands DEF AuthorHolds, Linked
  <2>3. \A l \in Link : l \in menu' /\ l.to \in Guarded /\ l.to \notin moved' /\ l.to \notin crossed' => target'[l.to].slug = l.url
    BY <2>1, WebsiteStands
  <2> QED
    BY <2>1, <2>2, <2>3, WebsiteStands, WebsiteNext1
<1>2. CASE WebsiteNext
  BY <1>2, PageOpened, PageCommitted, PublishOpened, PublishCommitted, PageDeletionOpened, PageDeleted,
     MenuOpened, MenuCommitted DEF WebsiteNext
<1> QED
  BY <1>1, <1>2

-----------------------------------------------------------------------------
(* Tax presets: a product charges what its preset says.                     *)

TaxedKind == [rate : Presets \cup {NoPreset}, percent : Percents]

LEMMA TaxStands ==
    ASSUME TaxInv
    PROVE  /\ preset \in [Presets -> PresetRows \cup {NotThere}] /\ taxed \in [Taxed -> TaxedKind]
           /\ clerk \in [TaxClerks -> TaxCall] /\ ignorant \subseteq Taxed /\ taxCalls \in 0..MaxTaxCalls
           /\ unexplained = {}
           /\ \A i \in Taxed : taxed[i].rate # NoPreset => There(taxed[i].rate)
           /\ PresetIsThePercent
           /\ \A q, r \in Presets : preset[q].default /\ preset[r].default => q = r
           /\ \A c \in TaxClerks : ClerkHolds(clerk[c])
BY DEF TaxInv, TaxTypeOK, OnlyUnusedPresetsGo, TaxedKind

LEMMA TaxNext1 ==
    ASSUME preset' \in [Presets -> PresetRows \cup {NotThere}], taxed' \in [Taxed -> TaxedKind],
           clerk' \in [TaxClerks -> TaxCall], ignorant' \subseteq Taxed, taxCalls' \in 0..MaxTaxCalls, unexplained' = {},
           \A i \in Taxed, q \in Presets : taxed'[i].rate = q =>
               preset'[q].there /\ (i \notin ignorant' => taxed'[i].percent = preset'[q].percent),
           \A q, r \in Presets : preset'[q].default /\ preset'[r].default => q = r,
           \A c \in TaxClerks : \A d : d = clerk'[c] => ClerkHolds(d)'
    PROVE  TaxInv'
<1>1. TaxTypeOK'
  BY DEF TaxTypeOK, TaxedKind
<1>2. PresetIsThePercent'
  <2> SUFFICES ASSUME NEW i \in Taxed, i \notin ignorant', NEW r, r = taxed'[i].rate, r # NoPreset
               PROVE  (r \in Presets /\ preset'[r].there) /\ taxed'[i].percent = preset'[r].percent
    BY DEF PresetIsThePercent, There
  <2>1. r \in Presets
    BY DEF TaxedKind
  <2> QED
    BY <2>1
<1>3. (\A i \in Taxed : taxed[i].rate # NoPreset => There(taxed[i].rate))'
  <2> SUFFICES ASSUME NEW i \in Taxed, NEW r, r = taxed'[i].rate, r # NoPreset
               PROVE  r \in Presets /\ preset'[r].there
    BY DEF There
  <2>1. r \in Presets
    BY DEF TaxedKind
  <2> QED
    BY <2>1
<1>4. (\A c \in TaxClerks : ClerkHolds(clerk[c]))'
  BY DEF ClerkHolds, OnPreset, There
<1> QED
  BY <1>1, <1>2, <1>3, <1>4 DEF TaxInv, OnlyUnusedPresetsGo

LEMMA NoRowStays ==
    NotThere = [NotThere EXCEPT !.default = FALSE] /\ ~NotThere.default /\ ~NotThere.there /\ NotThere \notin PresetRows
<1>1. NotThere \in [there : BOOLEAN, percent : {0}, active : BOOLEAN, default : {FALSE}] /\ ~NotThere.there
  BY DEF NotThere
<1>2. PICK n : n = NotThere
  OBVIOUS
<1>3. n = [n EXCEPT !.default = FALSE] /\ ~n.default
  BY <1>1, <1>2
<1> QED
  BY <1>1, <1>2, <1>3 DEF PresetRows

LEMMA ClerkAtRest == AtRest \in TaxCall /\ AtRest.at = "idle" /\ ClerkHolds(AtRest) /\ ClerkHolds(AtRest)'
BY DEF AtRest, TaxCall, ClerkHolds

\* A call begins.
LEMMA ClerkBegins ==
    ASSUME TaxInv, NEW c \in TaxClerks, NEW call \in TaxCall, ClerkHolds(call), Begins(c, call),
           UNCHANGED <<preset, taxed, ignorant, unexplained>>
    PROVE  TaxInv'
<1>1. /\ clerk' \in [TaxClerks -> TaxCall] /\ taxCalls' \in 0..MaxTaxCalls
      /\ \A d \in TaxClerks : clerk'[d] = IF d = c THEN call ELSE clerk[d]
  BY TaxStands, TaxAssumption DEF Begins
<1>2. ASSUME NEW d \in TaxClerks, NEW e, e = clerk'[d] PROVE ClerkHolds(e)'
  <2>1. ClerkHolds(e)
    BY <1>1, <1>2, TaxStands
  <2> QED
    BY <2>1 DEF ClerkHolds, OnPreset, There
<1>3. \A i \in Taxed, q \in Presets : taxed'[i].rate = q =>
               preset'[q].there /\ (i \notin ignorant' => taxed'[i].percent = preset'[q].percent)
  BY TaxStands, TaxAssumption DEF There, PresetIsThePercent, NoPreset
<1> QED
  BY <1>1, <1>2, <1>3, TaxStands, TaxNext1

\* A call ends, and the others learn of what it changed.
LEMMA ClerkEnds ==
    ASSUME TaxInv, NEW c \in TaxClerks, NEW changed, changed \subseteq Presets \cup {NoPreset}, Ends(c, changed),
           \A r \in Presets \ changed : There(r) => There(r)' /\ preset'[r].percent = preset[r].percent,
           \A r \in Presets \ changed : OnPreset(r)' \subseteq OnPreset(r)
    PROVE  clerk' \in [TaxClerks -> TaxCall] /\ \A d \in TaxClerks : \A e : e = clerk'[d] => ClerkHolds(e)'
<1>1. ASSUME NEW d \in TaxClerks
      PROVE  clerk'[d] \in TaxCall /\ \A e : e = clerk'[d] => ClerkHolds(e)'
  <2>1. PICK r : r = clerk[d] /\ r \in TaxCall /\ ClerkHolds(r)
    BY TaxStands
  <2>2. CASE d = c
    <3>1. clerk'[d] = AtRest
      BY <2>2 DEF Ends
    <3> QED
      BY <3>1, ClerkAtRest
  <2>3. CASE d # c /\ r.at = "idle"
    <3>1. clerk'[d] = r
      BY <2>1, <2>3 DEF Ends
    <3> QED
      BY <2>1, <2>3, <3>1 DEF ClerkHolds
  <2>4. CASE d # c /\ r.at # "idle"
    <3>1. PICK e : e = [r EXCEPT !.missed = @ \cup changed]
      OBVIOUS
    <3>2. clerk'[d] = e
      BY <2>1, <2>4, <3>1 DEF Ends
    <3>3. /\ e \in TaxCall /\ e.at = r.at /\ e.of = r.of /\ e.row = r.row /\ e.ware = r.ware /\ e.percent = r.percent
          /\ e.missed = r.missed \cup changed
      BY <2>1, <3>1 DEF TaxCall
    <3>4. e.at = "save" /\ e.of \notin e.missed \cup {NoPreset} => There(e.of)' /\ e.percent = preset'[e.of].percent
      BY <2>1, <3>3 DEF ClerkHolds, TaxCall
    <3>5. e.at = "delete" /\ e.of \notin e.missed => OnPreset(e.of)' = {}
      BY <2>1, <3>3 DEF ClerkHolds
    <3>6. ClerkHolds(e)'
      BY <2>1, <3>3, <3>4, <3>5 DEF ClerkHolds
    <3> QED
      BY <3>2, <3>3, <3>6
  <2> QED
    BY <2>2, <2>3, <2>4
<1>2. clerk' \in [TaxClerks -> TaxCall]
  BY <1>1 DEF Ends
<1> QED
  BY <1>1, <1>2

LEMMA TaxBegins == TaxInit => TaxInv
<1> SUFFICES ASSUME TaxInit PROVE TaxInv
  OBVIOUS
<1>1. /\ preset \in [Presets -> PresetRows \cup {NotThere}] /\ \A r \in Presets : ~preset[r].default
  BY DEF TaxInit, NotThere
<1>2. taxed \in [Taxed -> TaxedKind] /\ \A i \in Taxed : taxed[i].rate = NoPreset
  <2>1. (CHOOSE percent \in Percents : TRUE) \in Percents
    BY TaxAssumption
  <2> QED
    BY <2>1 DEF TaxInit, TaxedKind
<1>3. clerk \in [TaxClerks -> TaxCall] /\ \A c \in TaxClerks : clerk[c] = AtRest
  BY ClerkAtRest DEF TaxInit
<1>4. TaxTypeOK
  BY <1>1, <1>2, TaxAssumption DEF TaxInit, TaxTypeOK, TaxedKind
<1>5. \A c \in TaxClerks : ClerkHolds(clerk[c])
  BY <1>3, ClerkAtRest
<1> QED
  BY <1>1, <1>2, <1>3, <1>4, <1>5 DEF TaxInv, PresetIsThePercent, OnlyUnusedPresetsGo, TaxInit

LEMMA PresetOpened ==
    ASSUME TaxInv, NEW c \in TaxClerks, NEW r \in Presets, NEW newRow \in PresetRows, OpenPreset(c, r, newRow)
    PROVE  TaxInv'
<1>1. PICK at \in {"update", "create"} : at = IF There(r) THEN "update" ELSE "create"
  OBVIOUS
<1>2. PICK call : call = [AtRest EXCEPT !.at = at, !.of = r, !.row = newRow]
  OBVIOUS
<1>3. call \in TaxCall /\ call.at = at /\ call.of = r /\ call.row = newRow
  BY <1>2 DEF AtRest, TaxCall
<1>4. ClerkHolds(call)
  BY <1>1, <1>3 DEF ClerkHolds
<1> QED
  BY <1>1, <1>2, <1>3, <1>4, ClerkBegins DEF OpenPreset

LEMMA PresetDeletionOpened ==
    ASSUME TaxInv, NEW c \in TaxClerks, NEW r \in Presets, OpenDeletePreset(c, r)
    PROVE  TaxInv'
<1>1. PICK call : call = [AtRest EXCEPT !.at = "delete", !.of = r]
  OBVIOUS
<1>2. call \in TaxCall /\ call.at = "delete" /\ call.of = r
  BY <1>1 DEF AtRest, TaxCall
<1>3. ClerkHolds(call)
  BY <1>2 DEF ClerkHolds, OpenDeletePreset, InUse
<1> QED
  BY <1>1, <1>2, <1>3, ClerkBegins DEF OpenDeletePreset

LEMMA TaxedOpened ==
    ASSUME TaxInv, NEW c \in TaxClerks, NEW i \in Taxed, NEW r \in Presets \cup {NoPreset}, NEW typed \in Percents,
           OpenTaxed(c, i, r, typed)
    PROVE  TaxInv'
<1>1. PICK rate, percent : rate = ResolvedTax(r, typed).rate /\ percent = ResolvedTax(r, typed).percent
  OBVIOUS
<1>2. /\ rate \in Presets \cup {NoPreset} /\ percent \in Percents
      /\ rate # NoPreset => There(rate) /\ percent = preset[rate].percent
  <2>1. CASE There(r)
    <3>1. rate = r /\ percent = preset[r].percent /\ r \in Presets /\ preset[r].there
      BY <1>1, <2>1 DEF ResolvedTax, There
    <3>2. preset[r] \in PresetRows
      BY <3>1, TaxStands DEF NotThere
    <3> QED
      BY <2>1, <3>1, <3>2 DEF PresetRows
  <2>2. CASE ~There(r)
    BY <1>1, <2>2 DEF ResolvedTax
  <2> QED
    BY <2>1, <2>2
<1>3. PICK call : call = [AtRest EXCEPT !.at = "save", !.ware = i, !.of = rate, !.percent = percent]
  OBVIOUS
<1>4. call \in TaxCall /\ call.at = "save" /\ call.ware = i /\ call.of = rate /\ call.percent = percent
  BY <1>2, <1>3 DEF AtRest, TaxCall
<1>5. ClerkHolds(call)
  BY <1>2, <1>4 DEF ClerkHolds
<1> QED
  BY <1>1, <1>3, <1>4, <1>5, ClerkBegins DEF OpenTaxed

LEMMA PresetCommitted ==
    ASSUME TaxInv, NEW c \in TaxClerks, CommitPreset(c)
    PROVE  TaxInv'
<1>1. PICK call, r, newRow : call = clerk[c] /\ r = call.of /\ newRow = call.row
  OBVIOUS
<1>2. call.at \in {"update", "create"} /\ r \in Presets /\ newRow \in PresetRows
  BY <1>1, TaxStands DEF CommitPreset, ClerkHolds
<1>3. newRow.there /\ newRow.percent \in Percents /\ newRow.default \in BOOLEAN
  BY <1>2 DEF PresetRows
<1>4. Ends(c, {r}) /\ unexplained' = {} /\ taxCalls' \in 0..MaxTaxCalls
  BY <1>1, TaxStands DEF CommitPreset
<1>5. CASE call.at = "update" <=> There(r)
  <2>1. /\ preset' = [StepDown(r, newRow) EXCEPT ![r] = newRow] /\ taxed' = Repriced(r, newRow.percent)
        /\ ignorant' = ignorant \ OnPreset(r)
    BY <1>1, <1>5 DEF CommitPreset
  <2>2. ASSUME NEW q \in Presets
        PROVE  /\ preset'[q] \in PresetRows \cup {NotThere}
               /\ preset'[q].there = preset[q].there \/ q = r
               /\ preset'[q].percent = preset[q].percent \/ q = r
               /\ preset'[q].default => q = r \/ (preset[q].default /\ ~newRow.default)
               /\ q = r => preset'[q] = newRow
    <3>1. CASE q = r
      BY <1>2, <2>1, <3>1 DEF StepDown
    <3>2. CASE q # r
      <4>1. PICK p : p = preset[q] /\ p \in PresetRows \cup {NotThere}
        BY TaxStands
      <4>2. preset'[q] = IF newRow.default THEN [p EXCEPT !.default = FALSE] ELSE p
        BY <2>1, <3>2, <4>1 DEF StepDown
      <4>3. p \in PresetRows => /\ [p EXCEPT !.default = FALSE] \in PresetRows /\ [p EXCEPT !.default = FALSE].there = p.there
                                /\ [p EXCEPT !.default = FALSE].percent = p.percent
                                /\ ~[p EXCEPT !.default = FALSE].default
        BY DEF PresetRows
      <4>4. p = NotThere => [p EXCEPT !.default = FALSE] = p /\ ~p.default
        BY NoRowStays
      <4> QED
        BY <3>2, <4>1, <4>2, <4>3, <4>4
    <3> QED
      BY <3>1, <3>2
  <2>3. preset' \in [Presets -> PresetRows \cup {NotThere}]
    BY <2>1, <2>2 DEF StepDown
  <2>4. ASSUME NEW i \in Taxed
        PROVE  /\ taxed'[i] \in TaxedKind /\ taxed'[i].rate = taxed[i].rate
               /\ taxed'[i].percent = IF taxed[i].rate = r THEN newRow.percent ELSE taxed[i].percent
    <3>1. PICK x : x = taxed[i] /\ x \in TaxedKind
      BY TaxStands
    <3>2. taxed'[i] = IF x.rate = r THEN [x EXCEPT !.percent = newRow.percent] ELSE x
      BY <2>1, <3>1 DEF Repriced
    <3> QED
      BY <1>3, <3>1, <3>2 DEF TaxedKind
  <2>5. taxed' \in [Taxed -> TaxedKind]
    BY <2>1, <2>4 DEF Repriced
  <2>6. \A q \in Presets : (There(q) => There(q)') /\ (q # r => preset'[q].percent = preset[q].percent)
    BY <1>3, <2>2 DEF There
  <2>7. \A q \in Presets : OnPreset(q)' = OnPreset(q)
    BY <2>4 DEF OnPreset
  <2>8. clerk' \in [TaxClerks -> TaxCall] /\ \A d \in TaxClerks : \A e : e = clerk'[d] => ClerkHolds(e)'
    <3>1. {r} \subseteq Presets \cup {NoPreset}
      BY <1>2
    <3>2. \A q \in Presets \ {r} : There(q) => There(q)' /\ preset'[q].percent = preset[q].percent
      BY <2>6
    <3>3. \A q \in Presets \ {r} : OnPreset(q)' \subseteq OnPreset(q)
      BY <2>7
    <3> QED
      BY <1>4, <3>1, <3>2, <3>3, ClerkEnds
  <2>9. ASSUME NEW i \in Taxed, NEW q \in Presets, taxed'[i].rate = q
        PROVE  preset'[q].there /\ (i \notin ignorant' => taxed'[i].percent = preset'[q].percent)
    <3>1. q = taxed[i].rate /\ q # NoPreset /\ There(q)
      <4>1. q = taxed[i].rate /\ q # NoPreset
        BY <2>4, <2>9, TaxAssumption DEF NoPreset
      <4> QED
        BY <4>1, TaxStands
    <3>2. preset'[q].there
      BY <2>6, <3>1 DEF There
    <3>3. CASE q = r
      BY <2>2, <2>4, <3>1, <3>2, <3>3
    <3>4. CASE q # r
      <4>1. i \notin ignorant' => i \notin ignorant
        BY <2>1, <3>1, <3>4 DEF OnPreset
      <4>2. i \notin ignorant => taxed[i].percent = preset[q].percent
        BY <3>1, TaxStands DEF PresetIsThePercent
      <4> QED
        BY <2>4, <2>6, <3>1, <3>2, <3>4, <4>1, <4>2
    <3> QED
      BY <3>3, <3>4
  <2>10. \A p, q \in Presets : preset'[p].default /\ preset'[q].default => p = q
    BY <2>2, TaxStands
  <2>11. ignorant' \subseteq Taxed
    BY <2>1, TaxStands
  <2> QED
    BY <1>4, <2>3, <2>5, <2>8, <2>9, <2>10, <2>11, TaxNext1
<1>6. CASE ~(call.at = "update" <=> There(r))
  <2>1. UNCHANGED <<preset, taxed, ignorant>>
    BY <1>1, <1>6 DEF CommitPreset
  <2>2. clerk' \in [TaxClerks -> TaxCall] /\ \A d \in TaxClerks : \A e : e = clerk'[d] => ClerkHolds(e)'
    <3>1. {r} \subseteq Presets \cup {NoPreset}
      BY <1>2
    <3>2. \A q \in Presets \ {r} : There(q) => There(q)' /\ preset'[q].percent = preset[q].percent
      BY <2>1 DEF There
    <3>3. \A q \in Presets \ {r} : OnPreset(q)' \subseteq OnPreset(q)
      BY <2>1 DEF OnPreset
    <3> QED
      BY <1>4, <3>1, <3>2, <3>3, ClerkEnds
  <2>3. \A i \in Taxed, q \in Presets : taxed'[i].rate = q =>
               preset'[q].there /\ (i \notin ignorant' => taxed'[i].percent = preset'[q].percent)
    BY <2>1, TaxStands, TaxAssumption DEF There, PresetIsThePercent, NoPreset
  <2> QED
    BY <1>4, <2>1, <2>2, <2>3, TaxStands, TaxNext1
<1> QED
  BY <1>5, <1>6

LEMMA PresetDeleted ==
    ASSUME TaxInv, NEW c \in TaxClerks, CommitDeletePreset(c)
    PROVE  TaxInv'
<1>1. PICK call, r : call = clerk[c] /\ r = call.of
  OBVIOUS
<1>2. call.at = "delete" /\ r \in Presets /\ (r \notin call.missed => OnPreset(r) = {})
  BY <1>1, TaxStands DEF CommitDeletePreset, ClerkHolds
<1>3. /\ preset' = [preset EXCEPT ![r] = NotThere]
      /\ taxed' = [i \in Taxed |-> IF taxed[i].rate = r THEN [taxed[i] EXCEPT !.rate = NoPreset] ELSE taxed[i]]
      /\ unexplained' = unexplained \cup (IF r \in call.missed THEN {} ELSE OnPreset(r))
      /\ ignorant' = ignorant \ OnPreset(r) /\ Ends(c, {r}) /\ taxCalls' = taxCalls
  BY <1>1 DEF CommitDeletePreset
<1>4. unexplained' = {}
  BY <1>2, <1>3, TaxStands
<1>5. /\ preset' \in [Presets -> PresetRows \cup {NotThere}] /\ preset'[r] = NotThere /\ ~preset'[r].default
      /\ \A q \in Presets \ {r} : preset'[q] = preset[q]
  <2>1. preset \in [Presets -> PresetRows \cup {NotThere}]
    BY TaxStands
  <2> QED
    BY <1>2, <1>3, <2>1, NoRowStays
<1>6. ASSUME NEW i \in Taxed
      PROVE  /\ taxed'[i] \in TaxedKind /\ taxed'[i].percent = taxed[i].percent
             /\ taxed'[i].rate = IF taxed[i].rate = r THEN NoPreset ELSE taxed[i].rate
  <2>1. PICK x : x = taxed[i] /\ x \in TaxedKind
    BY TaxStands
  <2>2. taxed'[i] = IF x.rate = r THEN [x EXCEPT !.rate = NoPreset] ELSE x
    BY <1>3, <2>1
  <2> QED
    BY <2>1, <2>2 DEF TaxedKind
<1>7. taxed' \in [Taxed -> TaxedKind]
  BY <1>3, <1>6
<1>8. r # NoPreset
  BY <1>2, TaxAssumption DEF NoPreset
<1>9. clerk' \in [TaxClerks -> TaxCall] /\ \A d \in TaxClerks : \A e : e = clerk'[d] => ClerkHolds(e)'
  <2>1. {r} \subseteq Presets \cup {NoPreset}
    BY <1>2
  <2>2. \A q \in Presets \ {r} : There(q) => There(q)' /\ preset'[q].percent = preset[q].percent
    BY <1>5 DEF There
  <2>3. \A q \in Presets \ {r} : OnPreset(q)' \subseteq OnPreset(q)
    <3>1. \A q \in Presets : q # NoPreset
      BY TaxAssumption DEF NoPreset
    <3> QED
      BY <1>6, <3>1 DEF OnPreset
  <2> QED
    BY <1>3, <2>1, <2>2, <2>3, ClerkEnds
<1>10. ASSUME NEW i \in Taxed, NEW q \in Presets, taxed'[i].rate = q
       PROVE  preset'[q].there /\ (i \notin ignorant' => taxed'[i].percent = preset'[q].percent)
  <2>1. q = taxed[i].rate /\ q # r /\ q # NoPreset /\ There(q)
    <3>1. q # NoPreset
      BY TaxAssumption DEF NoPreset
    <3>2. taxed[i].rate # r /\ q = taxed[i].rate
      BY <1>6, <1>10, <3>1
    <3> QED
      BY <3>1, <3>2, TaxStands
  <2>2. preset'[q].there
    BY <1>5, <2>1 DEF There
  <2>3. i \notin ignorant' => i \notin ignorant
    BY <1>3, <2>1 DEF OnPreset
  <2>4. i \notin ignorant => taxed[i].percent = preset[q].percent
    BY <2>1, TaxStands DEF PresetIsThePercent
  <2> QED
    BY <1>5, <1>6, <2>1, <2>2, <2>3, <2>4
<1>11. \A p, q \in Presets : preset'[p].default /\ preset'[q].default => p = q
  BY <1>5, TaxStands
<1>12. ignorant' \subseteq Taxed /\ taxCalls' \in 0..MaxTaxCalls
  BY <1>3, TaxStands
<1> QED
  BY <1>4, <1>5, <1>7, <1>9, <1>10, <1>11, <1>12, TaxNext1

LEMMA TaxedCommitted ==
    ASSUME TaxInv, NEW c \in TaxClerks, CommitTaxed(c)
    PROVE  TaxInv'
<1>1. PICK call, r, i : call = clerk[c] /\ r = call.of /\ i = call.ware /\ call \in TaxCall
  BY TaxStands
<1>2. /\ call.at = "save" /\ i \in Taxed /\ call.percent \in Percents /\ r \in Presets \cup {NoPreset}
      /\ r \notin call.missed \cup {NoPreset} => There(r) /\ call.percent = preset[r].percent
  BY <1>1, TaxStands DEF CommitTaxed, ClerkHolds, TaxCall
<1>3. preset' = preset /\ taxCalls' = taxCalls
  BY DEF CommitTaxed
<1>4. PICK newRow : newRow = [rate |-> r, percent |-> call.percent]
  OBVIOUS
<1>5. newRow \in TaxedKind /\ newRow.rate = r /\ newRow.percent = call.percent
  BY <1>2, <1>4 DEF TaxedKind
<1>6. CASE r = NoPreset \/ There(r)
  <2>1. /\ taxed' = [taxed EXCEPT ![i] = newRow]
        /\ ignorant' = IF r \in call.missed THEN ignorant \cup {i} ELSE ignorant \ {i}
        /\ unexplained' = unexplained \ {i} /\ Ends(c, {r})
    BY <1>1, <1>4, <1>6 DEF CommitTaxed
  <2>2. taxed' \in [Taxed -> TaxedKind] /\ taxed'[i] = newRow /\ \A j \in Taxed \ {i} : taxed'[j] = taxed[j]
    BY <1>2, <1>5, <2>1, TaxStands
  <2>3. clerk' \in [TaxClerks -> TaxCall] /\ \A d \in TaxClerks : \A e : e = clerk'[d] => ClerkHolds(e)'
    <3>1. {r} \subseteq Presets \cup {NoPreset}
      BY <1>2
    <3>2. \A q \in Presets \ {r} : There(q) => There(q)' /\ preset'[q].percent = preset[q].percent
      BY <1>3 DEF There
    <3>3. \A q \in Presets \ {r} : OnPreset(q)' \subseteq OnPreset(q)
      BY <1>5, <2>2 DEF OnPreset
    <3> QED
      BY <2>1, <3>1, <3>2, <3>3, ClerkEnds
  <2>4. ASSUME NEW j \in Taxed, NEW q \in Presets, taxed'[j].rate = q
        PROVE  preset'[q].there /\ (j \notin ignorant' => taxed'[j].percent = preset'[q].percent)
    <3>1. CASE j = i
      <4>1. taxed'[j].rate = r /\ taxed'[j].percent = call.percent /\ r # NoPreset
        BY <1>5, <2>2, <2>4, <3>1, TaxAssumption DEF NoPreset
      <4>4. q = r
        BY <2>4, <4>1
      <4>2. preset'[r].there
        BY <1>3, <1>6, <4>1 DEF There
      <4>3. j \notin ignorant' => r \notin call.missed
        BY <2>1, <3>1
      <4> QED
        BY <1>2, <1>3, <4>1, <4>4, <4>2, <4>3
    <3>2. CASE j # i
      <4>1. taxed'[j] = taxed[j] /\ (j \notin ignorant' => j \notin ignorant)
        BY <2>1, <2>2, <3>2
      <4>2. taxed[j].rate = q /\ q # NoPreset
        BY <2>4, <4>1, TaxAssumption DEF NoPreset
      <4>3. There(q) /\ (j \notin ignorant => taxed[j].percent = preset[q].percent)
        BY <4>2, TaxStands DEF PresetIsThePercent
      <4> QED
        BY <1>3, <4>1, <4>3 DEF There
    <3> QED
      BY <3>1, <3>2
  <2>5. unexplained' = {} /\ ignorant' \subseteq Taxed
    BY <1>2, <2>1, TaxStands
  <2> QED
    BY <1>3, <2>2, <2>3, <2>4, <2>5, TaxStands, TaxNext1
<1>7. CASE ~(r = NoPreset \/ There(r))
  <2>1. /\ taxed' = taxed /\ ignorant' = ignorant /\ unexplained' = unexplained /\ Ends(c, {})
    BY <1>1, <1>7 DEF CommitTaxed
  <2>2. clerk' \in [TaxClerks -> TaxCall] /\ \A d \in TaxClerks : \A e : e = clerk'[d] => ClerkHolds(e)'
    <3>1. {} \subseteq Presets \cup {NoPreset}
      OBVIOUS
    <3>2. \A q \in Presets \ {} : There(q) => There(q)' /\ preset'[q].percent = preset[q].percent
      BY <1>3 DEF There
    <3>3. \A q \in Presets \ {} : OnPreset(q)' \subseteq OnPreset(q)
      BY <2>1 DEF OnPreset
    <3> QED
      BY <2>1, <3>1, <3>2, <3>3, ClerkEnds
  <2>3. \A j \in Taxed, q \in Presets : taxed'[j].rate = q =>
               preset'[q].there /\ (j \notin ignorant' => taxed'[j].percent = preset'[q].percent)
    BY <1>3, <2>1, TaxStands, TaxAssumption DEF There, PresetIsThePercent, NoPreset
  <2> QED
    BY <1>3, <2>1, <2>2, <2>3, TaxStands, TaxNext1
<1> QED
  BY <1>6, <1>7

LEMMA TaxStep ==
    ASSUME TaxInv, TaxNext \/ UNCHANGED taxVars
    PROVE  TaxInv'
<1>1. CASE UNCHANGED taxVars
  <2>1. UNCHANGED <<preset, taxed, clerk, ignorant, unexplained, taxCalls>>
    BY <1>1 DEF taxVars
  <2>2. \A d \in TaxClerks : \A e : e = clerk'[d] => ClerkHolds(e)'
    BY <2>1, TaxStands DEF ClerkHolds, OnPreset, There
  <2>3. \A i \in Taxed, q \in Presets : taxed'[i].rate = q =>
               preset'[q].there /\ (i \notin ignorant' => taxed'[i].percent = preset'[q].percent)
    BY <2>1, TaxStands, TaxAssumption DEF There, PresetIsThePercent, NoPreset
  <2> QED
    BY <2>1, <2>2, <2>3, TaxStands, TaxNext1
<1>2. CASE TaxNext
  BY <1>2, PresetOpened, PresetCommitted, PresetDeletionOpened, PresetDeleted, TaxedOpened, TaxedCommitted DEF TaxNext
<1> QED
  BY <1>1, <1>2

LEMMA PresetsRight == TaxInv => PresetIsThePercent /\ OneDefault /\ OnlyUnusedPresetsGo
<1> SUFFICES ASSUME TaxInv PROVE OneDefault
  BY DEF TaxInv
<1>1. PICK defaults : defaults = {r \in Presets : preset[r].default}
  OBVIOUS
<1>2. CASE defaults = {}
  <2>1. Cardinality(defaults) = 0
    BY <1>2, FS_EmptySet
  <2> QED
    BY <1>1, <2>1 DEF OneDefault
<1>3. CASE defaults # {}
  <2>1. PICK r \in defaults : defaults = {r}
    BY <1>1, <1>3, TaxStands
  <2>2. Cardinality(defaults) = 1
    BY <2>1, FS_Singleton
  <2> QED
    BY <1>1, <2>2 DEF OneDefault
<1> QED
  BY <1>2, <1>3

-----------------------------------------------------------------------------
(* The address book: one default, and room.                                *)

Doubts == {"crossed", "unticked", "filed", "cut"}

StandApart(o) == \A k, l \in Busy(o) : keeper[k].at \in Removing => k = l
DefaultFound(o) ==
    doubt[o] = {} /\ Of(o) # {} /\ (\A k \in Busy(o) : keeper[k].at \in {"save", "remove"}) => Defaults(o) # {}
RoomLeft(o) == Cardinality(FormFiled(o)) + Cardinality(Adding(o)) <= MaxAddresses + Cardinality(Keepers) - 1

\* The invariant, customer by customer.
OwnerHolds(o) ==
    /\ "crossed" \notin doubt[o] => StandApart(o) /\ BookUncrossed(o)
    /\ DefaultFound(o) /\ RoomLeft(o)

LEMMA BookStands ==
    ASSUME BookInv
    PROVE  /\ book \in [Entries -> AddressRow] /\ keeper \in [Keepers -> KeeperCall]
           /\ doubt \in [Owners -> SUBSET Doubts] /\ lastMade \in 0..Cardinality(Entries)
           /\ \A e \in Entries : book[e].owner = Nobody \/ e > lastMade => book[e] = NoEntry
           /\ \A k \in Keepers : keeper[k].at # "idle" <=> keeper[k].owner \in Owners
           /\ \A o \in Owners : OwnerHolds(o)
<1>1. BookTyped /\ CrossingsKnown /\ DefaultStands /\ RoomForAll /\ \A o \in Owners : "crossed" \notin doubt[o] => BookUncrossed(o)
  BY DEF BookInv
<1>2. ASSUME NEW o \in Owners PROVE OwnerHolds(o)
  <2>1. "crossed" \notin doubt[o] => StandApart(o) /\ BookUncrossed(o)
    BY <1>1 DEF CrossingsKnown, StandApart
  <2>2. DefaultFound(o) /\ RoomLeft(o)
    BY <1>1 DEF DefaultStands, DefaultFound, RoomForAll, RoomLeft
  <2> QED
    BY <2>1, <2>2 DEF OwnerHolds
<1> QED
  BY <1>1, <1>2 DEF BookTyped, Doubts

LEMMA BookNext1 ==
    ASSUME book' \in [Entries -> AddressRow], keeper' \in [Keepers -> KeeperCall],
           doubt' \in [Owners -> SUBSET Doubts], lastMade' \in 0..Cardinality(Entries),
           \A e \in Entries : book'[e].owner = Nobody \/ e > lastMade' => book'[e] = NoEntry,
           \A k \in Keepers : keeper'[k].at # "idle" <=> keeper'[k].owner \in Owners,
           \A o \in Owners : OwnerHolds(o)'
    PROVE  BookInv'
<1>1. BookTyped'
  BY DEF BookTyped, Doubts
<1>2. CrossingsKnown' /\ \A o \in Owners : ("crossed" \notin doubt[o] => BookUncrossed(o))'
  BY DEF CrossingsKnown, OwnerHolds, StandApart
<1>3. DefaultStands' /\ RoomForAll'
  BY DEF DefaultStands, RoomForAll, OwnerHolds, DefaultFound, RoomLeft
<1> QED
  BY <1>1, <1>2, <1>3 DEF BookInv

\* The sets the cap is about are finite.
LEMMA BookSets ==
    ASSUME NEW o \in Owners
    PROVE  /\ IsFiniteSet(Of(o)) /\ IsFiniteSet(FormFiled(o)) /\ IsFiniteSet(FormFiled(o)')
           /\ IsFiniteSet(Adding(o)) /\ IsFiniteSet(Adding(o)')
           /\ Cardinality(Of(o)) \in Nat /\ Cardinality(Keepers) \in Nat /\ Cardinality(Entries) \in Nat
           /\ Cardinality(FormFiled(o)) \in Nat /\ Cardinality(FormFiled(o)') \in Nat
           /\ Cardinality(Adding(o)) \in Nat /\ Cardinality(Adding(o)') \in Nat
           /\ Cardinality(FormFiled(o)) <= Cardinality(Of(o))
           /\ Cardinality(Adding(o)') <= Cardinality(Keepers)
<1>1. IsFiniteSet(Entries) /\ IsFiniteSet(Keepers)
  BY BookAssumption
<1>2. /\ Of(o) \in SUBSET Entries /\ FormFiled(o) \in SUBSET Of(o) /\ FormFiled(o) \in SUBSET Entries
      /\ FormFiled(o)' \in SUBSET Entries
  BY DEF Of, FormFiled
<1>3. Adding(o) \in SUBSET Keepers /\ Adding(o)' \in SUBSET Keepers
  BY DEF Adding, Busy
<1>4. IsFiniteSet(Of(o))
  BY <1>1, <1>2, FS_Subset
<1>5. IsFiniteSet(FormFiled(o)) /\ Cardinality(FormFiled(o)) <= Cardinality(Of(o))
  BY <1>2, <1>4, FS_Subset
<1>6. IsFiniteSet(FormFiled(o)')
  BY <1>1, <1>2, FS_Subset
<1>7. IsFiniteSet(Adding(o))
  BY <1>1, <1>3, FS_Subset
<1>8. IsFiniteSet(Adding(o)') /\ Cardinality(Adding(o)') <= Cardinality(Keepers)
  BY <1>1, <1>3, FS_Subset
<1> QED
  BY <1>1, <1>4, <1>5, <1>6, <1>7, <1>8, FS_CardinalityType

\* The room a customer has does not shrink while neither set grows.
LEMMA RoomKept ==
    ASSUME NEW o \in Owners, RoomLeft(o), FormFiled(o)' \subseteq FormFiled(o), Adding(o)' \subseteq Adding(o)
    PROVE  RoomLeft(o)'
<1>1. Cardinality(FormFiled(o)') <= Cardinality(FormFiled(o))
  BY BookSets, FS_Subset
<1>2. Cardinality(Adding(o)') <= Cardinality(Adding(o))
  BY BookSets, FS_Subset
<1>3. PICK cap : cap = MaxAddresses + Cardinality(Keepers) - 1 /\ cap \in Int
  BY BookSets, BookAssumption
<1>4. Cardinality(FormFiled(o)) + Cardinality(Adding(o)) <= cap
  BY <1>3 DEF RoomLeft
<1>5. Cardinality(FormFiled(o)') + Cardinality(Adding(o)') <= cap
  BY <1>1, <1>2, <1>3, <1>4, BookSets
<1> QED
  BY <1>3, <1>5 DEF RoomLeft

\* A step that is about another customer.
LEMMA OthersKept ==
    ASSUME BookInv, NEW p \in Owners, doubt'[p] = doubt[p],
           \A e \in Entries : book[e].owner = p \/ book'[e].owner = p => book'[e] = book[e],
           \A k \in Keepers : keeper[k].owner = p \/ keeper'[k].owner = p => keeper'[k] = keeper[k]
    PROVE  OwnerHolds(p)'
<1>1. OwnerHolds(p)
  BY BookStands
<1>2. Of(p)' = Of(p) /\ Defaults(p)' = Defaults(p) /\ FormFiled(p)' = FormFiled(p)
  BY DEF Of, Defaults, FormFiled
<1>3. Busy(p)' = Busy(p) /\ \A k \in Busy(p) : keeper'[k] = keeper[k]
  BY DEF Busy
<1>4. Adding(p)' = Adding(p)
  BY <1>3 DEF Adding
<1>5. "crossed" \notin doubt'[p] => StandApart(p)' /\ BookUncrossed(p)'
  BY <1>1, <1>2, <1>3 DEF OwnerHolds, StandApart, BookUncrossed
<1>6. DefaultFound(p)'
  BY <1>1, <1>2, <1>3 DEF OwnerHolds, DefaultFound
<1>7. RoomLeft(p)'
  BY <1>1, <1>2, <1>4, RoomKept DEF OwnerHolds
<1> QED
  BY <1>5, <1>6, <1>7 DEF OwnerHolds

LEMMA BookBegins == BookInit => BookInv
<1> SUFFICES ASSUME BookInit PROVE BookInv
  OBVIOUS
<1>1. NoEntry \in AddressRow /\ NoEntry.owner = Nobody
  BY DEF NoEntry, AddressRow
<1>2. AtEase \in KeeperCall /\ AtEase.at = "idle" /\ AtEase.owner = Nobody
  BY DEF AtEase, KeeperCall, Unmade
<1>3. Nobody \notin Owners
  BY BookAssumption DEF Nobody
<1>4. /\ book \in [Entries -> AddressRow] /\ \A e \in Entries : book[e] = NoEntry
      /\ keeper \in [Keepers -> KeeperCall] /\ \A k \in Keepers : keeper[k] = AtEase
  BY <1>1, <1>2 DEF BookInit
<1>5. doubt \in [Owners -> SUBSET Doubts] /\ lastMade \in 0..Cardinality(Entries)
  <2>1. Cardinality(Entries) \in Nat
    BY BookAssumption, FS_CardinalityType
  <2> QED
    BY <2>1 DEF BookInit
<1>6. BookTyped
  BY <1>2, <1>3, <1>4, <1>5 DEF BookTyped, Doubts
<1>7. ASSUME NEW o \in Owners PROVE Of(o) = {} /\ Busy(o) = {}
  BY <1>1, <1>2, <1>3, <1>4 DEF Of, Busy
<1>8. CrossingsKnown /\ DefaultStands /\ \A o \in Owners : "crossed" \notin doubt[o] => BookUncrossed(o)
  BY <1>7 DEF CrossingsKnown, DefaultStands, BookUncrossed, Defaults
<1>9. RoomForAll
  <2>1. ASSUME NEW o \in Owners PROVE FormFiled(o) = {} /\ Adding(o) = {}
    BY <1>7 DEF FormFiled, Adding
  <2>2. Cardinality({}) = 0 /\ Cardinality(Keepers) \in Nat
    BY FS_EmptySet, FS_CardinalityType, BookAssumption
  <2>3. 0 + 0 <= MaxAddresses + Cardinality(Keepers) - 1
    BY <2>2, BookAssumption
  <2> QED
    BY <2>1, <2>2, <2>3 DEF RoomForAll
<1> QED
  BY <1>6, <1>8, <1>9 DEF BookInv

\* A call begins: whatever it crosses of the same customer is known.
LEMMA CallBegins ==
    ASSUME BookInv, NEW k \in Keepers, NEW o \in Owners, NEW call \in KeeperCall, call.owner = o,
           call.at \in {"save", "remove"}, BeginCall(k, call),
           call.at = "save" /\ call.counted # 0 => Of(o) # {},
           call.at = "save" /\ call.counted < MaxAddresses => Cardinality(Of(o)) < MaxAddresses
    PROVE  BookInv'
<1>1. /\ keeper[k].at = "idle" /\ keeper' = [keeper EXCEPT ![k] = call]
      /\ doubt' = [doubt EXCEPT ![o] = @ \cup Crossing(o, call.at \in Removing)]
      /\ book' = book /\ lastMade' = lastMade
  BY DEF BeginCall
<1>2. keeper' \in [Keepers -> KeeperCall] /\ keeper'[k] = call /\ \A l \in Keepers : l # k => keeper'[l] = keeper[l]
  BY <1>1, BookStands
<1>3. \A l \in Keepers : keeper'[l].at # "idle" <=> keeper'[l].owner \in Owners
  BY <1>2, BookStands
<1>4. k \notin Busy(o) /\ Busy(o)' = Busy(o) \cup {k} /\ \A l \in Busy(o) : keeper'[l] = keeper[l]
  BY <1>1, <1>2, BookStands DEF Busy
<1>5. Of(o)' = Of(o) /\ Defaults(o)' = Defaults(o) /\ FormFiled(o)' = FormFiled(o)
  BY <1>1 DEF Of, Defaults, FormFiled
<1>6. Crossing(o, call.at \in Removing) \subseteq Doubts
  BY DEF Crossing, Doubts
<1>7. doubt' \in [Owners -> SUBSET Doubts] /\ doubt'[o] = doubt[o] \cup Crossing(o, call.at \in Removing)
  BY <1>1, <1>6, BookStands
<1>8. OwnerHolds(o)
  BY BookStands
<1>9. OwnerHolds(o)'
  <2>1. ASSUME "crossed" \notin doubt'[o] PROVE StandApart(o)' /\ BookUncrossed(o)'
    <3>1. StandApart(o) /\ BookUncrossed(o)
      BY <1>7, <1>8, <2>1 DEF OwnerHolds
    <3>2. \A l \in Busy(o) : ~(call.at \in Removing) /\ keeper[l].at \notin Removing
      BY <1>7, <2>1 DEF Crossing
    <3>3. StandApart(o)'
      BY <1>2, <1>4, <3>2 DEF StandApart
    <3>4. BookUncrossed(o)'
      BY <1>2, <1>4, <1>5, <3>1 DEF BookUncrossed
    <3> QED
      BY <3>3, <3>4
  <2>2. DefaultFound(o)'
    BY <1>4, <1>5, <1>7, <1>8 DEF OwnerHolds, DefaultFound
  <2>3. RoomLeft(o)'
    <3>1. CASE call.at = "save" /\ call.counted < MaxAddresses
      <4>1. Cardinality(FormFiled(o)') < MaxAddresses
        BY <1>5, <3>1, BookSets, BookAssumption
      <4> QED
        BY <4>1, BookSets, BookAssumption DEF RoomLeft
    <3>2. CASE ~(call.at = "save" /\ call.counted < MaxAddresses)
      <4>1. Adding(o)' = Adding(o)
        BY <1>2, <1>4, <3>2 DEF Adding
      <4> QED
        BY <1>5, <1>8, <4>1, RoomKept DEF OwnerHolds
    <3> QED
      BY <3>1, <3>2
  <2> QED
    BY <2>1, <2>2, <2>3 DEF OwnerHolds
<1>10. ASSUME NEW p \in Owners, p # o PROVE OwnerHolds(p)'
  <2>1. doubt'[p] = doubt[p]
    BY <1>1, <1>10, BookStands
  <2>2. \A l \in Keepers : keeper[l].owner = p \/ keeper'[l].owner = p => keeper'[l] = keeper[l]
    BY <1>1, <1>2, <1>10, BookStands
  <2> QED
    BY <1>1, <2>1, <2>2, OthersKept
<1> QED
  BY <1>1, <1>2, <1>3, <1>7, <1>9, <1>10, BookStands, BookNext1

LEMMA SaveOpened ==
    ASSUME BookInv, NEW k \in Keepers, NEW o \in Owners, NEW e \in {Unmade} \cup 1..lastMade, NEW tick \in BOOLEAN,
           OpenSave(k, o, e, tick)
    PROVE  BookInv'
<1>1. PICK n : n = Cardinality(Of(o)) /\ n \in Nat
  BY BookSets
<1>2. PICK call : call = [at |-> "save", owner |-> o, entry |-> e, tick |-> tick, counted |-> n]
  OBVIOUS
<1>3. e \in Entries \cup {Unmade}
  BY BookStands, BookSets, BookAssumption
<1>4. call \in KeeperCall /\ call.at = "save" /\ call.owner = o /\ call.counted = n
  BY <1>1, <1>2, <1>3 DEF KeeperCall
<1>5. n # 0 => Of(o) # {}
  BY <1>1, FS_EmptySet
<1>6. BeginCall(k, call)
  BY <1>1, <1>2 DEF OpenSave
<1>7. call.at = "save" /\ call.counted # 0 => Of(o) # {}
  BY <1>4, <1>5
<1>8. call.at = "save" /\ call.counted < MaxAddresses => Cardinality(Of(o)) < MaxAddresses
  BY <1>1, <1>4
<1> QED
  BY <1>4, <1>6, <1>7, <1>8, CallBegins

LEMMA RemovalOpened ==
    ASSUME BookInv, NEW k \in Keepers, NEW o \in Owners, NEW e \in {Unmade} \cup 1..lastMade, OpenRemove(k, o, e)
    PROVE  BookInv'
<1>1. PICK call : call = [at |-> "remove", owner |-> o, entry |-> e, tick |-> FALSE, counted |-> 0]
  OBVIOUS
<1>2. e \in Entries \cup {Unmade}
  BY BookStands, BookSets, BookAssumption
<1>3. call \in KeeperCall /\ call.at = "remove" /\ call.owner = o
  BY <1>1, <1>2 DEF KeeperCall, Removing
<1>4. BeginCall(k, call)
  BY <1>1 DEF OpenRemove
<1> QED
  BY <1>3, <1>4, CallBegins

\* A call ends with the book as it is: a removal that was looking for a default
\* leaves none to find, or a doubt.
LEMMA KeeperLeaves ==
    ASSUME BookInv, NEW k \in Keepers, NEW o \in Owners, keeper[k].owner = o, Idle(k), book' = book, lastMade' = lastMade,
           doubt' \in [Owners -> SUBSET Doubts], doubt[o] \subseteq doubt'[o],
           \A p \in Owners : p # o => doubt'[p] = doubt[p],
           keeper[k].at \in {"save", "remove"} \/ Of(o) = {} \/ Defaults(o) # {} \/ doubt'[o] # {}
    PROVE  BookInv'
<1>1. AtEase \in KeeperCall /\ AtEase.at = "idle" /\ AtEase.owner = Nobody /\ Nobody \notin Owners
  BY BookAssumption DEF AtEase, KeeperCall, Unmade, Nobody
<1>2. keeper' \in [Keepers -> KeeperCall] /\ keeper'[k] = AtEase /\ \A l \in Keepers : l # k => keeper'[l] = keeper[l]
  BY <1>1, BookStands DEF Idle
<1>3. \A l \in Keepers : keeper'[l].at # "idle" <=> keeper'[l].owner \in Owners
  BY <1>1, <1>2, BookStands
<1>4. k \in Busy(o) /\ Busy(o)' = Busy(o) \ {k} /\ \A l \in Busy(o) \ {k} : keeper'[l] = keeper[l]
  BY <1>1, <1>2 DEF Busy
<1>5. Of(o)' = Of(o) /\ Defaults(o)' = Defaults(o) /\ FormFiled(o)' = FormFiled(o)
  BY DEF Of, Defaults, FormFiled
<1>6. OwnerHolds(o)
  BY BookStands
<1>7. OwnerHolds(o)'
  <2>1. "crossed" \notin doubt'[o] => StandApart(o)' /\ BookUncrossed(o)'
    BY <1>4, <1>5, <1>6 DEF OwnerHolds, StandApart, BookUncrossed
  <2>2. DefaultFound(o)'
    <3>1. CASE keeper[k].at \in {"save", "remove"}
      BY <1>4, <1>5, <1>6, <3>1 DEF OwnerHolds, DefaultFound
    <3>2. CASE Of(o) = {} \/ Defaults(o) # {} \/ doubt'[o] # {}
      BY <1>5, <3>2 DEF DefaultFound
    <3> QED
      BY <3>1, <3>2
  <2>3. Adding(o)' \subseteq Adding(o)
    BY <1>4 DEF Adding
  <2>4. RoomLeft(o)'
    BY <1>5, <1>6, <2>3, RoomKept DEF OwnerHolds
  <2> QED
    BY <2>1, <2>2, <2>4 DEF OwnerHolds
<1>8. ASSUME NEW p \in Owners, p # o PROVE OwnerHolds(p)'
  <2>1. \A l \in Keepers : keeper[l].owner = p \/ keeper'[l].owner = p => keeper'[l] = keeper[l]
    BY <1>1, <1>2, <1>8
  <2>2. doubt'[p] = doubt[p]
    BY <1>8
  <2> QED
    BY <2>1, <2>2, OthersKept
<1> QED
  BY <1>2, <1>3, <1>7, <1>8, BookStands, BookNext1

\* A row changes of which one customer is the owner, or was nobody's.
LEMMA RowChanges ==
    ASSUME BookInv, NEW o \in Owners, NEW at \in Entries, NEW kept \in AddressRow,
           book[at].owner \in {o, Nobody}, kept.owner \in {o, Nobody}, kept.owner = Nobody => kept = NoEntry,
           book' = [book EXCEPT ![at] = kept], lastMade' = lastMade \/ (lastMade' = lastMade + 1 /\ at = lastMade'),
           at <= lastMade'
    PROVE  /\ book' \in [Entries -> AddressRow] /\ lastMade' \in 0..Cardinality(Entries)
           /\ book'[at] = kept /\ \A e \in Entries : e # at => book'[e] = book[e]
           /\ \A e \in Entries : book'[e].owner = Nobody \/ e > lastMade' => book'[e] = NoEntry
           /\ \A p \in Owners : p # o =>
                 \A e \in Entries : book[e].owner = p \/ book'[e].owner = p => book'[e] = book[e]
<1>1. /\ book' \in [Entries -> AddressRow]
      /\ book'[at] = kept /\ \A e \in Entries : e # at => book'[e] = book[e]
  BY BookStands
<1>2. Cardinality(Entries) \in Nat /\ \A e \in Entries : e \in 1..Cardinality(Entries)
  BY BookSets, BookAssumption
<1>3. lastMade \in 0..Cardinality(Entries)
  BY BookStands
<1>4. lastMade' \in 0..Cardinality(Entries)
  BY <1>2, <1>3
<1>5. \A e \in Entries : book'[e].owner = Nobody \/ e > lastMade' => book'[e] = NoEntry
  <2>1. SUFFICES ASSUME NEW e \in Entries, book'[e].owner = Nobody \/ e > lastMade' PROVE book'[e] = NoEntry
    OBVIOUS
  <2>2. CASE e = at
    BY <1>1, <1>2, <1>4, <2>1, <2>2
  <2>3. CASE e # at
    <3>1. book'[e] = book[e] /\ (e > lastMade' => e > lastMade)
      BY <1>1, <1>2, <1>3, <2>3
    <3> QED
      BY <2>1, <3>1, BookStands
  <2> QED
    BY <2>2, <2>3
<1>6. Nobody \notin Owners
  BY BookAssumption DEF Nobody
<1>7. \A p \in Owners : p # o =>
         \A e \in Entries : book[e].owner = p \/ book'[e].owner = p => book'[e] = book[e]
  BY <1>1, <1>6
<1> QED
  BY <1>1, <1>4, <1>5, <1>7

LEMMA RowsMade ==
    ASSUME BookInv, NEW o \in Owners, NEW e \in Of(o)
    PROVE  e \in Entries /\ e <= lastMade /\ book[e].owner = o
<1>1. e \in Entries /\ book[e].owner = o /\ o # Nobody
  BY BookAssumption DEF Of, Nobody
<1>2. e \in Nat /\ lastMade \in Nat
  <2>1. Cardinality(Entries) \in Nat
    BY BookSets
  <2> QED
    BY <1>1, <2>1, BookStands, BookAssumption
<1>3. ~(e > lastMade)
  BY <1>1, BookStands DEF NoEntry
<1> QED
  BY <1>1, <1>2, <1>3

\* A keeper goes on to what it does next.
LEMMA KeeperMoves ==
    ASSUME BookInv, NEW k \in Keepers, NEW o \in Owners, keeper[k].owner = o, NEW call \in KeeperCall, call.owner = o, call.at # "idle",
           keeper' = [keeper EXCEPT ![k] = call]
    PROVE  /\ keeper' \in [Keepers -> KeeperCall] /\ keeper'[k] = call /\ \A l \in Keepers : l # k => keeper'[l] = keeper[l]
           /\ \A l \in Keepers : keeper'[l].at # "idle" <=> keeper'[l].owner \in Owners
           /\ Busy(o)' = Busy(o) /\ k \in Busy(o)
           /\ \A p \in Owners : p # o =>
                 \A l \in Keepers : keeper[l].owner = p \/ keeper'[l].owner = p => keeper'[l] = keeper[l]
<1>1. keeper' \in [Keepers -> KeeperCall] /\ keeper'[k] = call /\ \A l \in Keepers : l # k => keeper'[l] = keeper[l]
  BY BookStands
<1>2. \A l \in Keepers : keeper'[l].at # "idle" <=> keeper'[l].owner \in Owners
  BY <1>1, BookStands
<1>3. Busy(o)' = Busy(o) /\ k \in Busy(o)
  BY <1>1 DEF Busy
<1> QED
  BY <1>1, <1>2, <1>3

LEMMA AtEaseIs == AtEase \in KeeperCall /\ AtEase.at = "idle" /\ AtEase.owner = Nobody /\ Nobody \notin Owners
BY BookAssumption DEF AtEase, KeeperCall, Unmade, Nobody

LEMMA KeeperRests ==
    ASSUME BookInv, NEW k \in Keepers, NEW o \in Owners, keeper[k].owner = o, Idle(k)
    PROVE  /\ keeper' \in [Keepers -> KeeperCall] /\ \A l \in Keepers : l # k => keeper'[l] = keeper[l]
           /\ \A l \in Keepers : keeper'[l].at # "idle" <=> keeper'[l].owner \in Owners
           /\ Busy(o)' = Busy(o) \ {k} /\ k \in Busy(o) /\ \A l \in Busy(o) \ {k} : keeper'[l] = keeper[l]
           /\ \A p \in Owners : p # o =>
                 \A l \in Keepers : keeper[l].owner = p \/ keeper'[l].owner = p => keeper'[l] = keeper[l]
<1>1. keeper' \in [Keepers -> KeeperCall] /\ keeper'[k] = AtEase /\ \A l \in Keepers : l # k => keeper'[l] = keeper[l]
  BY AtEaseIs, BookStands DEF Idle
<1>2. \A l \in Keepers : keeper'[l].at # "idle" <=> keeper'[l].owner \in Owners
  BY <1>1, AtEaseIs, BookStands
<1>3. k \in Busy(o) /\ Busy(o)' = Busy(o) \ {k} /\ \A l \in Busy(o) \ {k} : keeper'[l] = keeper[l]
  BY <1>1, AtEaseIs DEF Busy
<1>4. \A p \in Owners : p # o =>
         \A l \in Keepers : keeper[l].owner = p \/ keeper'[l].owner = p => keeper'[l] = keeper[l]
  BY <1>1, AtEaseIs
<1> QED
  BY <1>1, <1>2, <1>3, <1>4

LEMMA EntryDropped ==
    ASSUME BookInv, NEW k \in Keepers, DropEntry(k)
    PROVE  BookInv'
<1>1. PICK call : call = keeper[k] /\ call \in KeeperCall
  BY BookStands
<1>2. PICK o : o = call.owner /\ o \in Owners /\ call.at = "remove" /\ doubt' = doubt /\ lastMade' = lastMade
  BY <1>1, BookStands DEF DropEntry
<1>3. CASE call.entry \notin Of(o)
  <2>1. Idle(k) /\ book' = book
    BY <1>1, <1>2, <1>3 DEF DropEntry
  <2>2. doubt' \in [Owners -> SUBSET Doubts] /\ doubt[o] \subseteq doubt'[o] /\ \A p \in Owners : p # o => doubt'[p] = doubt[p]
    BY <1>2, BookStands
  <2> QED
    BY <1>1, <1>2, <2>1, <2>2, KeeperLeaves
<1>4. CASE call.entry \in Of(o)
  <2>1. PICK at, kept, next : at = call.entry /\ kept = NoEntry /\ next = [call EXCEPT !.at = "find"]
    OBVIOUS
  <2>2. book' = [book EXCEPT ![at] = kept] /\ keeper' = [keeper EXCEPT ![k] = next]
    BY <1>1, <1>2, <1>4, <2>1, BookStands DEF DropEntry
  <2>3. kept \in AddressRow /\ kept.owner = Nobody /\ Nobody \notin Owners
    BY <2>1, AtEaseIs DEF NoEntry, AddressRow
  <2>4. next \in KeeperCall /\ next.at = "find" /\ next.owner = o
    BY <1>1, <1>2, <2>1 DEF KeeperCall, Removing
  <2>5. at \in Entries /\ at <= lastMade /\ book[at].owner = o
    <3>1. at \in Of(o)
      BY <1>4, <2>1
    <3> QED
      BY <1>2, <3>1, RowsMade
  <2>6. /\ book' \in [Entries -> AddressRow] /\ lastMade' \in 0..Cardinality(Entries)
        /\ book'[at] = kept /\ \A e \in Entries : e # at => book'[e] = book[e]
        /\ \A e \in Entries : book'[e].owner = Nobody \/ e > lastMade' => book'[e] = NoEntry
        /\ \A p \in Owners : p # o => \A e \in Entries : book[e].owner = p \/ book'[e].owner = p => book'[e] = book[e]
    <3>1. at <= lastMade' /\ book[at].owner \in {o, Nobody} /\ kept.owner \in {o, Nobody} /\ kept = NoEntry
      BY <1>2, <2>1, <2>3, <2>5
    <3> QED
      BY <1>2, <2>2, <2>3, <2>5, <3>1, RowChanges
  <2>7. /\ keeper' \in [Keepers -> KeeperCall] /\ keeper'[k] = next /\ \A l \in Keepers : l # k => keeper'[l] = keeper[l]
        /\ \A l \in Keepers : keeper'[l].at # "idle" <=> keeper'[l].owner \in Owners
        /\ Busy(o)' = Busy(o) /\ k \in Busy(o)
        /\ \A p \in Owners : p # o => \A l \in Keepers : keeper[l].owner = p \/ keeper'[l].owner = p => keeper'[l] = keeper[l]
    BY <1>1, <1>2, <2>2, <2>4, KeeperMoves
  <2>8. Of(o)' \subseteq Of(o) /\ Defaults(o)' \subseteq Defaults(o) /\ FormFiled(o)' \subseteq FormFiled(o)
    <3>1. Of(o)' = Of(o) \ {at}
      BY <1>2, <2>3, <2>5, <2>6 DEF Of
    <3>2. Of(o) \subseteq Entries
      BY DEF Of
    <3> QED
      BY <2>6, <3>1, <3>2 DEF Defaults, FormFiled
  <2>9. OwnerHolds(o)
    BY <1>2, BookStands
  <2>10. OwnerHolds(o)'
    <3>1. ASSUME "crossed" \notin doubt'[o] PROVE StandApart(o)' /\ BookUncrossed(o)'
      <4>1. StandApart(o) /\ BookUncrossed(o)
        BY <1>2, <2>9, <3>1 DEF OwnerHolds
      <4>2. \A l \in Busy(o) : l = k
        BY <1>1, <1>2, <2>7, <4>1 DEF StandApart, Removing
      <4>3. StandApart(o)'
        BY <2>7, <4>2 DEF StandApart
      <4>4. BookUncrossed(o)'
        BY <2>4, <2>7, <2>8, <4>1, <4>2 DEF BookUncrossed
      <4> QED
        BY <4>3, <4>4
    <3>2. DefaultFound(o)'
      BY <2>4, <2>7 DEF DefaultFound
    <3>3. Adding(o)' \subseteq Adding(o)
      <4>1. Busy(o)' = Busy(o) /\ \A l \in Busy(o) : keeper'[l].at = "save" => keeper'[l] = keeper[l]
        BY <2>4, <2>7 DEF Busy
      <4> QED
        BY <4>1 DEF Adding
    <3>4. RoomLeft(o)'
      BY <1>2, <2>8, <2>9, <3>3, RoomKept DEF OwnerHolds
    <3> QED
      BY <3>1, <3>2, <3>4 DEF OwnerHolds
  <2>11. ASSUME NEW p \in Owners, p # o PROVE OwnerHolds(p)'
    <3>1. doubt'[p] = doubt[p]
      BY <1>2
    <3>2. \A e \in Entries : book[e].owner = p \/ book'[e].owner = p => book'[e] = book[e]
      BY <2>6, <2>11
    <3>3. \A l \in Keepers : keeper[l].owner = p \/ keeper'[l].owner = p => keeper'[l] = keeper[l]
      BY <2>7, <2>11
    <3> QED
      BY <3>1, <3>2, <3>3, OthersKept
  <2> QED
    BY <1>2, <2>6, <2>7, <2>10, <2>11, BookStands, BookNext1
<1> QED
  BY <1>3, <1>4

\* A removal looks on: for the newest survivor, and whether there is a default.
LEMMA RemovalLooksOn ==
    ASSUME BookInv, NEW k \in Keepers, NEW o \in Owners, keeper[k].owner = o, keeper[k].at \in Removing,
           NEW next \in KeeperCall, next.owner = o, next.at \in {"count", "promote"}, 
           next.entry \in Of(o) \/ (keeper[k].at = "count" /\ next.entry = keeper[k].entry),
           next.at = "promote" => Defaults(o) = {},
           keeper' = [keeper EXCEPT ![k] = next], UNCHANGED <<book, lastMade, doubt>>
    PROVE  BookInv'
<1>1. /\ keeper' \in [Keepers -> KeeperCall] /\ keeper'[k] = next /\ \A l \in Keepers : l # k => keeper'[l] = keeper[l]
      /\ \A l \in Keepers : keeper'[l].at # "idle" <=> keeper'[l].owner \in Owners
      /\ Busy(o)' = Busy(o) /\ k \in Busy(o)
      /\ \A p \in Owners : p # o => \A l \in Keepers : keeper[l].owner = p \/ keeper'[l].owner = p => keeper'[l] = keeper[l]
  BY KeeperMoves
<1>2. Of(o)' = Of(o) /\ Defaults(o)' = Defaults(o) /\ FormFiled(o)' = FormFiled(o)
  BY DEF Of, Defaults, FormFiled
<1>3. OwnerHolds(o)
  BY BookStands
<1>4. OwnerHolds(o)'
  <2>1. ASSUME "crossed" \notin doubt'[o] PROVE StandApart(o)' /\ BookUncrossed(o)'
    <3>1. StandApart(o) /\ BookUncrossed(o)
      BY <1>3, <2>1 DEF OwnerHolds
    <3>2. \A l \in Busy(o) : l = k
      BY <1>1, <3>1 DEF StandApart
    <3>3. next.entry \in Of(o)
      BY <1>1, <3>1 DEF BookUncrossed
    <3>4. StandApart(o)'
      BY <1>1, <3>2 DEF StandApart
    <3>5. BookUncrossed(o)'
      BY <1>1, <1>2, <3>1, <3>2, <3>3 DEF BookUncrossed
    <3> QED
      BY <3>4, <3>5
  <2>2. DefaultFound(o)'
    BY <1>1 DEF DefaultFound
  <2>3. Adding(o)' \subseteq Adding(o)
    BY <1>1 DEF Adding
  <2>4. RoomLeft(o)'
    BY <1>2, <1>3, <2>3, RoomKept DEF OwnerHolds
  <2> QED
    BY <2>1, <2>2, <2>4 DEF OwnerHolds
<1>5. ASSUME NEW p \in Owners, p # o PROVE OwnerHolds(p)'
  <2>1. \A l \in Keepers : keeper[l].owner = p \/ keeper'[l].owner = p => keeper'[l] = keeper[l]
    BY <1>1, <1>5
  <2> QED
    BY <2>1, OthersKept
<1> QED
  BY <1>1, <1>4, <1>5, BookStands, BookNext1

LEMMA NewestIs ==
    ASSUME NEW o \in Owners, Of(o) # {}
    PROVE  Newest(Of(o)) \in Of(o)
<1>1. Of(o) \subseteq Int
  <2>1. Cardinality(Entries) \in Nat
    BY BookSets
  <2> QED
    BY <2>1, BookAssumption DEF Of
<1>2. PICK top : top \in Of(o) /\ \A e \in Of(o) : e <= top
  BY <1>1, BookSets, TopOf
<1> QED
  BY <1>2 DEF Newest

LEMMA SurvivorFound ==
    ASSUME BookInv, NEW k \in Keepers, FindRemaining(k)
    PROVE  BookInv'
<1>1. PICK call : call = keeper[k] /\ call \in KeeperCall
  BY BookStands
<1>2. PICK o : o = call.owner /\ o \in Owners /\ call.at = "find" /\ doubt' = doubt /\ lastMade' = lastMade /\ book' = book
  BY <1>1, BookStands DEF FindRemaining
<1>3. CASE Of(o) = {}
  <2>1. Idle(k)
    BY <1>1, <1>2, <1>3 DEF FindRemaining
  <2>2. doubt' \in [Owners -> SUBSET Doubts] /\ doubt[o] \subseteq doubt'[o] /\ \A p \in Owners : p # o => doubt'[p] = doubt[p]
    BY <1>2, BookStands
  <2> QED
    BY <1>1, <1>2, <1>3, <2>1, <2>2, KeeperLeaves
<1>4. CASE Of(o) # {}
  <2>1. PICK top : top = Newest(Of(o)) /\ top \in Of(o) /\ top \in Entries
    BY <1>2, <1>4, NewestIs DEF Of
  <2>2. PICK next : next = [call EXCEPT !.at = "count", !.entry = top]
    OBVIOUS
  <2>3. keeper' = [keeper EXCEPT ![k] = next]
    BY <1>1, <1>2, <1>4, <2>1, <2>2, BookStands DEF FindRemaining
  <2>4. next \in KeeperCall /\ next.at = "count" /\ next.owner = o /\ next.entry = top
    BY <1>1, <1>2, <2>1, <2>2 DEF KeeperCall, Removing
  <2>5. keeper[k].at \in Removing /\ keeper[k].owner = o
    BY <1>1, <1>2 DEF Removing
  <2> QED
    BY <1>2, <2>1, <2>3, <2>4, <2>5, RemovalLooksOn
<1> QED
  BY <1>3, <1>4

LEMMA DefaultsCounted ==
    ASSUME BookInv, NEW k \in Keepers, CountDefaults(k)
    PROVE  BookInv'
<1>1. PICK call : call = keeper[k] /\ call \in KeeperCall
  BY BookStands
<1>2. PICK o : o = call.owner /\ o \in Owners /\ call.at = "count" /\ doubt' = doubt /\ lastMade' = lastMade /\ book' = book
  BY <1>1, BookStands DEF CountDefaults
<1>3. CASE Defaults(o) # {}
  <2>1. Idle(k)
    BY <1>1, <1>2, <1>3 DEF CountDefaults
  <2>2. doubt' \in [Owners -> SUBSET Doubts] /\ doubt[o] \subseteq doubt'[o] /\ \A p \in Owners : p # o => doubt'[p] = doubt[p]
    BY <1>2, BookStands
  <2> QED
    BY <1>1, <1>2, <1>3, <2>1, <2>2, KeeperLeaves
<1>4. CASE Defaults(o) = {}
  <2>1. PICK next : next = [call EXCEPT !.at = "promote"]
    OBVIOUS
  <2>2. keeper' = [keeper EXCEPT ![k] = next]
    BY <1>1, <1>2, <1>4, <2>1, BookStands DEF CountDefaults
  <2>3. next \in KeeperCall /\ next.at = "promote" /\ next.owner = o /\ next.entry = keeper[k].entry
    BY <1>1, <1>2, <2>1 DEF KeeperCall, Removing
  <2>4. keeper[k].at \in Removing /\ keeper[k].owner = o /\ keeper[k].at = "count"
    BY <1>1, <1>2 DEF Removing
  <2> QED
    BY <1>2, <1>4, <2>2, <2>3, <2>4, RemovalLooksOn
<1> QED
  BY <1>3, <1>4

LEMMA Promoted ==
    ASSUME BookInv, NEW k \in Keepers, Promote(k)
    PROVE  BookInv'
<1>1. PICK call : call = keeper[k] /\ call \in KeeperCall
  BY BookStands
<1>2. PICK o : o = call.owner /\ o \in Owners /\ call.at = "promote" /\ lastMade' = lastMade /\ Idle(k)
  BY <1>1, BookStands DEF Promote
<1>3. OwnerHolds(o) /\ k \in Busy(o)
  BY <1>1, <1>2, BookStands DEF Busy
<1>4. CASE call.entry \notin Of(o)
  <2>1. book' = book /\ doubt' = doubt
    BY <1>1, <1>2, <1>4, BookStands DEF Promote
  <2>2. doubt' \in [Owners -> SUBSET Doubts] /\ doubt[o] \subseteq doubt'[o] /\ \A p \in Owners : p # o => doubt'[p] = doubt[p]
    BY <2>1, BookStands
  <2>3. doubt'[o] # {}
    BY <1>1, <1>2, <1>3, <1>4, <2>1 DEF OwnerHolds, BookUncrossed
  <2> QED
    BY <1>1, <1>2, <2>1, <2>2, <2>3, KeeperLeaves
<1>5. CASE call.entry \in Of(o)
  <2>1. PICK at, old : at = call.entry /\ at \in Of(o) /\ old = book[at]
    BY <1>5
  <2>2. at \in Entries /\ at <= lastMade /\ book[at].owner = o /\ o # Nobody /\ old \in AddressRow
    BY <1>2, <2>1, RowsMade, AtEaseIs, BookStands
  <2>3. PICK kept : kept = [old EXCEPT !.default = TRUE]
    OBVIOUS
  <2>4. kept \in AddressRow /\ kept.owner = o /\ kept.default /\ kept.filed = old.filed
    BY <2>1, <2>2, <2>3 DEF AddressRow
  <2>5. book' = [book EXCEPT ![at] = kept]
    BY <1>1, <1>2, <1>5, <2>1, <2>3, BookStands DEF Promote
  <2>6. doubt' = [doubt EXCEPT ![o] = IF "crossed" \notin @ THEN {} ELSE @]
    BY <1>1, <1>2, <1>5 DEF Promote
  <2>7. /\ doubt' \in [Owners -> SUBSET Doubts] /\ doubt'[o] = IF "crossed" \notin doubt[o] THEN {} ELSE doubt[o]
        /\ \A p \in Owners : p # o => doubt'[p] = doubt[p]
    BY <1>2, <2>6, BookStands
  <2>8. /\ book' \in [Entries -> AddressRow] /\ lastMade' \in 0..Cardinality(Entries)
        /\ book'[at] = kept /\ \A e \in Entries : e # at => book'[e] = book[e]
        /\ \A e \in Entries : book'[e].owner = Nobody \/ e > lastMade' => book'[e] = NoEntry
        /\ \A p \in Owners : p # o => \A e \in Entries : book[e].owner = p \/ book'[e].owner = p => book'[e] = book[e]
    <3>1. at <= lastMade' /\ book[at].owner \in {o, Nobody} /\ kept.owner \in {o, Nobody} /\ (kept.owner = Nobody => kept = NoEntry)
      BY <1>2, <2>2, <2>4
    <3> QED
      BY <1>2, <2>2, <2>4, <2>5, <3>1, RowChanges
  <2>9. /\ keeper' \in [Keepers -> KeeperCall] /\ \A l \in Keepers : l # k => keeper'[l] = keeper[l]
        /\ \A l \in Keepers : keeper'[l].at # "idle" <=> keeper'[l].owner \in Owners
        /\ Busy(o)' = Busy(o) \ {k} /\ k \in Busy(o) /\ \A l \in Busy(o) \ {k} : keeper'[l] = keeper[l]
        /\ \A p \in Owners : p # o => \A l \in Keepers : keeper[l].owner = p \/ keeper'[l].owner = p => keeper'[l] = keeper[l]
    BY <1>1, <1>2, KeeperRests
  <2>10. Of(o)' = Of(o)
    BY <2>2, <2>4, <2>8 DEF Of
  <2>11. Of(o) \subseteq Entries /\ \A e \in Of(o) : book'[e].filed = book[e].filed
    BY <2>1, <2>4, <2>8 DEF Of
  <2>12. Defaults(o)' = Defaults(o) \cup {at} /\ FormFiled(o)' = FormFiled(o)
    <3>1. Defaults(o)' = Defaults(o) \cup {at}
      BY <2>1, <2>4, <2>8, <2>10, <2>11 DEF Defaults
    <3>2. FormFiled(o)' = FormFiled(o)
      BY <2>10, <2>11 DEF FormFiled
    <3> QED
      BY <3>1, <3>2
  <2>13. OwnerHolds(o)'
    <3>1. ASSUME "crossed" \notin doubt'[o] PROVE StandApart(o)' /\ BookUncrossed(o)'
      <4>1. StandApart(o) /\ BookUncrossed(o)
        BY <1>3, <2>7, <3>1 DEF OwnerHolds
      <4>2. Defaults(o) = {}
        BY <1>1, <1>2, <1>3, <4>1 DEF BookUncrossed
      <4>3. Busy(o)' = {}
        BY <1>1, <1>2, <1>3, <2>9, <4>1 DEF StandApart, Removing
      <4>4. \A e, f \in Defaults(o)' : e = f
        BY <2>12, <4>2
      <4> QED
        BY <4>3, <4>4 DEF StandApart, BookUncrossed
    <3>2. DefaultFound(o)'
      BY <2>12 DEF DefaultFound
    <3>3. Adding(o)' \subseteq Adding(o)
      BY <2>9 DEF Adding
    <3>4. RoomLeft(o)'
      BY <1>2, <1>3, <2>12, <3>3, RoomKept DEF OwnerHolds
    <3> QED
      BY <3>1, <3>2, <3>4 DEF OwnerHolds
  <2>14. ASSUME NEW p \in Owners, p # o PROVE OwnerHolds(p)'
    <3>1. doubt'[p] = doubt[p]
      BY <2>7, <2>14
    <3>2. \A e \in Entries : book[e].owner = p \/ book'[e].owner = p => book'[e] = book[e]
      BY <2>8, <2>14
    <3>3. \A l \in Keepers : keeper[l].owner = p \/ keeper'[l].owner = p => keeper'[l] = keeper[l]
      BY <2>9, <2>14
    <3> QED
      BY <3>1, <3>2, <3>3, OthersKept
  <2> QED
    BY <2>7, <2>8, <2>9, <2>13, <2>14, BookNext1
<1> QED
  BY <1>4, <1>5

LEMMA KeeperDied ==
    ASSUME BookInv, NEW k \in Keepers, DieKeeping(k)
    PROVE  BookInv'
<1>1. PICK call : call = keeper[k] /\ call \in KeeperCall
  BY BookStands
<1>2. PICK o : o = call.owner /\ o \in Owners /\ call.at # "idle" /\ lastMade' = lastMade /\ book' = book /\ Idle(k)
  BY <1>1, BookStands DEF DieKeeping
<1>3. doubt' = IF call.at \in {"find", "count", "promote"} THEN [doubt EXCEPT ![o] = @ \cup {"cut"}] ELSE doubt
  BY <1>1, <1>2 DEF DieKeeping
<1>4. doubt' \in [Owners -> SUBSET Doubts] /\ doubt[o] \subseteq doubt'[o] /\ \A p \in Owners : p # o => doubt'[p] = doubt[p]
  BY <1>2, <1>3, BookStands DEF Doubts
<1>5. call.at \in {"save", "remove"} \/ doubt'[o] # {}
  <2>1. CASE call.at \in {"find", "count", "promote"}
    BY <1>2, <1>3, <2>1, BookStands
  <2>2. CASE call.at \notin {"find", "count", "promote"}
    BY <1>1, <1>2, <2>2 DEF KeeperCall, Removing
  <2> QED
    BY <2>1, <2>2
<1> QED
  BY <1>1, <1>2, <1>4, <1>5, KeeperLeaves

LEMMA FiledWithOrder ==
    ASSUME BookInv, NEW o \in Owners, FileWithOrder(o)
    PROVE  BookInv'
<1>1. PICK at, kept : at = lastMade + 1 /\ kept = [owner |-> o, default |-> FALSE, filed |-> "order"]
  OBVIOUS
<1>2. /\ at \in Entries /\ lastMade' = at /\ book' = [book EXCEPT ![at] = kept] /\ keeper' = keeper
      /\ doubt' = [doubt EXCEPT ![o] = @ \cup Crossing(o, FALSE) \cup (IF Of(o) = {} THEN {"filed"} ELSE {})]
  BY <1>1 DEF FileWithOrder
<1>3. kept \in AddressRow /\ kept.owner = o /\ ~kept.default /\ kept.filed = "order" /\ o # Nobody
  BY <1>1, AtEaseIs DEF AddressRow
<1>4. /\ doubt' \in [Owners -> SUBSET Doubts] /\ \A p \in Owners : p # o => doubt'[p] = doubt[p]
      /\ doubt'[o] = doubt[o] \cup Crossing(o, FALSE) \cup (IF Of(o) = {} THEN {"filed"} ELSE {})
  <2>1. Crossing(o, FALSE) \subseteq Doubts /\ (IF Of(o) = {} THEN {"filed"} ELSE {}) \subseteq Doubts
    BY DEF Crossing, Doubts
  <2> QED
    BY <1>2, <2>1, BookStands
<1>5. book[at] = NoEntry /\ book[at].owner = Nobody
  <2>1. at > lastMade
    BY <1>1, BookStands, BookSets
  <2> QED
    BY <1>2, <2>1, BookStands DEF NoEntry
<1>6. /\ book' \in [Entries -> AddressRow] /\ lastMade' \in 0..Cardinality(Entries)
      /\ book'[at] = kept /\ \A e \in Entries : e # at => book'[e] = book[e]
      /\ \A e \in Entries : book'[e].owner = Nobody \/ e > lastMade' => book'[e] = NoEntry
      /\ \A p \in Owners : p # o => \A e \in Entries : book[e].owner = p \/ book'[e].owner = p => book'[e] = book[e]
  <2>1. at <= lastMade' /\ book[at].owner \in {o, Nobody} /\ kept.owner \in {o, Nobody} /\ (kept.owner = Nobody => kept = NoEntry)
    <3>1. at \in Nat
      BY <1>1, BookStands, BookSets
    <3> QED
      BY <1>2, <1>3, <1>5, <3>1
  <2>2. lastMade' = lastMade + 1 /\ at = lastMade'
    BY <1>1, <1>2
  <2> QED
    BY <1>2, <1>3, <2>1, <2>2, RowChanges
<1>7. at \notin Of(o) /\ Of(o)' = Of(o) \cup {at} /\ Of(o) \subseteq Entries
  BY <1>2, <1>3, <1>5, <1>6 DEF Of
<1>8. Defaults(o)' = Defaults(o) /\ FormFiled(o)' = FormFiled(o)
  BY <1>3, <1>6, <1>7 DEF Defaults, FormFiled
<1>9. Busy(o)' = Busy(o) /\ Adding(o)' = Adding(o)
  BY <1>2 DEF Busy, Adding
<1>10. OwnerHolds(o)
  BY BookStands
<1>11. OwnerHolds(o)'
  <2>1. ASSUME "crossed" \notin doubt'[o] PROVE StandApart(o)' /\ BookUncrossed(o)'
    <3>1. StandApart(o) /\ BookUncrossed(o)
      BY <1>4, <1>10, <2>1 DEF OwnerHolds
    <3>2. \A l \in Busy(o) : keeper[l].at \notin Removing
      BY <1>4, <2>1 DEF Crossing
    <3>3. StandApart(o)'
      BY <1>2, <1>9, <3>2 DEF StandApart
    <3>4. BookUncrossed(o)'
      BY <1>2, <1>7, <1>8, <1>9, <3>1, <3>2 DEF BookUncrossed, Removing
    <3> QED
      BY <3>3, <3>4
  <2>2. DefaultFound(o)'
    BY <1>2, <1>4, <1>8, <1>9, <1>10 DEF OwnerHolds, DefaultFound
  <2>3. RoomLeft(o)'
    BY <1>8, <1>9, <1>10, RoomKept DEF OwnerHolds
  <2> QED
    BY <2>1, <2>2, <2>3 DEF OwnerHolds
<1>12. ASSUME NEW p \in Owners, p # o PROVE OwnerHolds(p)'
  <2>1. doubt'[p] = doubt[p]
    BY <1>4, <1>12
  <2>2. \A e \in Entries : book[e].owner = p \/ book'[e].owner = p => book'[e] = book[e]
    BY <1>6, <1>12
  <2> QED
    BY <1>2, <2>1, <2>2, OthersKept
<1> QED
  BY <1>2, <1>4, <1>6, <1>11, <1>12, BookStands, BookNext1

\* What a save writes: the default cleared where it takes it, and the row.
WrittenBook(o, at, entry, ticked) ==
    [[e \in Entries |-> IF e \in Of(o) /\ ticked THEN [book[e] EXCEPT !.default = FALSE] ELSE book[e]]
        EXCEPT ![at] = [owner |-> o, default |-> ticked,
                        filed |-> IF entry = Unmade THEN "form" ELSE book[at].filed]]

SaveIsWritten(o, at, entry, ticked) ==
    /\ book' \in [Entries -> AddressRow] /\ lastMade' \in 0..Cardinality(Entries)
    /\ \A e \in Entries : book'[e].owner = Nobody \/ e > lastMade' => book'[e] = NoEntry
    /\ \A p \in Owners : p # o => \A e \in Entries : book[e].owner = p \/ book'[e].owner = p => book'[e] = book[e]
    /\ Of(o)' = Of(o) \cup {at}
    /\ Defaults(o)' = IF ticked THEN {at} ELSE Defaults(o) \ {at}
    /\ entry = Unmade => at \notin Of(o) /\ FormFiled(o)' = FormFiled(o) \cup {at}
    /\ entry # Unmade => FormFiled(o)' = FormFiled(o)

LEMMA SaveWrites ==
    ASSUME BookInv, NEW o \in Owners, NEW at \in Entries, NEW entry, NEW ticked \in BOOLEAN,
           entry = Unmade => at = lastMade + 1, entry # Unmade => at = entry /\ at \in Of(o),
           book' = WrittenBook(o, at, entry, ticked),
           lastMade' = IF entry = Unmade THEN at ELSE lastMade
    PROVE  SaveIsWritten(o, at, entry, ticked)
<1>1. /\ Nobody \notin Owners /\ o # Nobody /\ Cardinality(Entries) \in Nat /\ lastMade \in 0..Cardinality(Entries)
      /\ \A e \in Entries : e \in 1..Cardinality(Entries)
  BY AtEaseIs, BookSets, BookStands, BookAssumption
<1>2. /\ entry = Unmade => at > lastMade /\ at = lastMade + 1 /\ book[at] = NoEntry /\ at \notin Of(o) /\ book[at].owner = Nobody
      /\ entry # Unmade => at <= lastMade /\ book[at].owner = o
  <2>1. CASE entry = Unmade
    <3>1. at > lastMade /\ at = lastMade + 1
      BY <1>1, <2>1
    <3>2. book[at] = NoEntry
      BY <3>1, BookStands
    <3> QED
      BY <1>1, <2>1, <3>1, <3>2 DEF Of, NoEntry
  <2>2. CASE entry # Unmade
    <3>1. at \in Of(o)
      BY <2>2
    <3> QED
      BY <2>2, <3>1, RowsMade
  <2> QED
    BY <2>1, <2>2
<1>3. PICK kept : kept = [owner |-> o, default |-> ticked,
                          filed |-> IF entry = Unmade THEN "form" ELSE book[at].filed]
  OBVIOUS
<1>4. kept \in AddressRow /\ kept.owner = o /\ kept.default = ticked
      /\ kept.filed = IF entry = Unmade THEN "form" ELSE book[at].filed
  <2>1. book[at] \in AddressRow
    BY BookStands
  <2>2. book[at].filed \in {"none", "form", "order"}
    BY <2>1 DEF AddressRow
  <2> QED
    BY <1>3, <2>2 DEF AddressRow
<1>16. book' = [[e \in Entries |-> IF e \in Of(o) /\ ticked THEN [book[e] EXCEPT !.default = FALSE] ELSE book[e]]
                   EXCEPT ![at] = [owner |-> o, default |-> ticked,
                                   filed |-> IF entry = Unmade THEN "form" ELSE book[at].filed]]
  BY DEF WrittenBook
<1>5. ASSUME NEW e \in Entries, e # at
      PROVE  /\ book'[e] \in AddressRow /\ book'[e].owner = book[e].owner /\ book'[e].filed = book[e].filed
             /\ book'[e].default = (book[e].default /\ ~(ticked /\ e \in Of(o)))
             /\ e \notin Of(o) => book'[e] = book[e]
  <2>1. PICK old : old = book[e] /\ old \in AddressRow
    BY BookStands
  <2>2. CASE e \in Of(o) /\ ticked
    <3>1. PICK new : new = [old EXCEPT !.default = FALSE]
      OBVIOUS
    <3>2. new \in AddressRow /\ new.owner = old.owner /\ new.filed = old.filed /\ new.default = FALSE
      BY <2>1, <3>1 DEF AddressRow
    <3>3. book'[e] = new
      BY <1>5, <1>16, <2>1, <2>2, <3>1
    <3> QED
      BY <2>1, <2>2, <3>2, <3>3
  <2>3. CASE ~(e \in Of(o) /\ ticked)
    <3>1. book'[e] = old
      BY <1>5, <1>16, <2>1, <2>3
    <3>2. old.default \in BOOLEAN
      BY <2>1 DEF AddressRow
    <3> QED
      BY <2>1, <2>3, <3>1, <3>2
  <2> QED
    BY <2>2, <2>3
<1>6. book'[at] = kept
  BY <1>3, <1>16
<1>7. book' \in [Entries -> AddressRow]
  <2>1. \A e \in Entries : book'[e] \in AddressRow
    BY <1>4, <1>5, <1>6
  <2> QED
    BY <1>16, <2>1
<1>8. lastMade' \in 0..Cardinality(Entries) /\ lastMade' >= lastMade /\ at <= lastMade'
  BY <1>1, <1>2
<1>9. ASSUME NEW e \in Entries, book'[e].owner = Nobody \/ e > lastMade' PROVE book'[e] = NoEntry
  <2>1. e # at
    BY <1>1, <1>4, <1>6, <1>8, <1>9
  <2>2. book[e] = NoEntry
    <3>1. book[e].owner = Nobody \/ e > lastMade
      BY <1>1, <1>5, <1>8, <1>9, <2>1
    <3> QED
      BY <3>1, BookStands
  <2>3. e \notin Of(o)
    BY <1>1, <2>2 DEF Of, NoEntry
  <2> QED
    BY <1>5, <2>1, <2>2, <2>3
<1>10. ASSUME NEW p \in Owners, p # o, NEW e \in Entries, book[e].owner = p \/ book'[e].owner = p PROVE book'[e] = book[e]
  <2>1. e # at
    BY <1>1, <1>2, <1>4, <1>6, <1>10
  <2>2. e \notin Of(o)
    BY <1>5, <1>10, <2>1 DEF Of
  <2> QED
    BY <1>5, <2>1, <2>2
<1>11. Of(o)' = Of(o) \cup {at}
  BY <1>4, <1>5, <1>6 DEF Of
<1>12. Of(o) \subseteq Entries
  BY DEF Of
<1>13. Defaults(o)' = IF ticked THEN {at} ELSE Defaults(o) \ {at}
  <2>1. CASE ticked
    <3>1. \A e \in Of(o)' : book'[e].default <=> e = at
      BY <1>4, <1>5, <1>6, <1>11, <1>12, <2>1
    <3> QED
      BY <1>11, <2>1, <3>1 DEF Defaults
  <2>2. CASE ~ticked
    <3>1. \A e \in Of(o)' : book'[e].default <=> book[e].default /\ e # at
      BY <1>4, <1>5, <1>6, <1>11, <1>12, <2>2
    <3> QED
      BY <1>11, <2>2, <3>1 DEF Defaults
  <2> QED
    BY <2>1, <2>2
<1>14. entry = Unmade => at \notin Of(o) /\ FormFiled(o)' = FormFiled(o) \cup {at}
  <2>1. SUFFICES ASSUME entry = Unmade PROVE at \notin Of(o) /\ FormFiled(o)' = FormFiled(o) \cup {at}
    OBVIOUS
  <2>2. at \notin Of(o) /\ book'[at].filed = "form"
    BY <1>2, <1>4, <1>6, <2>1
  <2>3. \A e \in Of(o) : book'[e].filed = book[e].filed
    BY <1>5, <1>12, <2>2
  <2> QED
    BY <1>11, <2>2, <2>3 DEF FormFiled
<1>15. entry # Unmade => FormFiled(o)' = FormFiled(o)
  <2>1. SUFFICES ASSUME entry # Unmade PROVE FormFiled(o)' = FormFiled(o)
    OBVIOUS
  <2>2. at \in Of(o) /\ book'[at].filed = book[at].filed
    BY <1>4, <1>6, <2>1
  <2>3. \A e \in Of(o) : book'[e].filed = book[e].filed
    BY <1>5, <1>12, <2>2
  <2> QED
    BY <1>11, <2>2, <2>3 DEF FormFiled
<1> QED
  BY <1>7, <1>8, <1>9, <1>10, <1>11, <1>13, <1>14, <1>15 DEF SaveIsWritten

LEMMA SaveCommitted ==
    ASSUME BookInv, NEW k \in Keepers, CommitSave(k)
    PROVE  BookInv'
<1>1. PICK call : call = keeper[k] /\ call \in KeeperCall
  BY BookStands
<1>2. PICK o : o = call.owner /\ o \in Owners /\ call.at = "save" /\ Idle(k)
  BY <1>1, BookStands DEF CommitSave
<1>3. PICK at : at = IF call.entry = Unmade THEN lastMade + 1 ELSE call.entry
  OBVIOUS
<1>4. at \in Entries
  BY <1>1, <1>2, <1>3 DEF CommitSave, KeeperCall
<1>5. CASE ~MayWrite(call)
  <2>1. book' = book /\ lastMade' = lastMade /\ doubt' = doubt
    BY <1>1, <1>2, <1>5, BookStands DEF CommitSave
  <2>2. doubt' \in [Owners -> SUBSET Doubts] /\ doubt[o] \subseteq doubt'[o] /\ \A p \in Owners : p # o => doubt'[p] = doubt[p]
    BY <2>1, BookStands
  <2> QED
    BY <1>1, <1>2, <2>1, <2>2, KeeperLeaves
<1>6. CASE MayWrite(call)
  <2>1. PICK ticked \in BOOLEAN : ticked = ShouldDefault(call)
    BY DEF ShouldDefault
  <2>2. call.entry # Unmade => at = call.entry /\ at \in Of(o)
    BY <1>2, <1>3, <1>6 DEF MayWrite
  <2>3. call.entry = Unmade => at = lastMade + 1 /\ call.counted < MaxAddresses
    BY <1>3, <1>6 DEF MayWrite
  <2>4. book' = [[e \in Entries |-> IF e \in Of(o) /\ ticked THEN [book[e] EXCEPT !.default = FALSE] ELSE book[e]]
                    EXCEPT ![at] = [owner |-> o, default |-> ticked,
                                    filed |-> IF call.entry = Unmade THEN "form" ELSE book[at].filed]]
    BY <1>1, <1>2, <1>3, <1>6, <2>1 DEF CommitSave
  <2>5. lastMade' = IF call.entry = Unmade THEN at ELSE lastMade
    BY <1>1, <1>2, <1>3, <1>6 DEF CommitSave
  <2>6. doubt' = [doubt EXCEPT ![o] = IF ticked THEN (IF Busy(o) = {k} THEN {} ELSE @)
                                      ELSE IF at \in Defaults(o) THEN @ \cup {"unticked"} ELSE @]
    BY <1>1, <1>2, <1>3, <1>6, <2>1 DEF CommitSave
  <2>7. /\ book' \in [Entries -> AddressRow] /\ lastMade' \in 0..Cardinality(Entries)
        /\ \A e \in Entries : book'[e].owner = Nobody \/ e > lastMade' => book'[e] = NoEntry
        /\ \A p \in Owners : p # o => \A e \in Entries : book[e].owner = p \/ book'[e].owner = p => book'[e] = book[e]
        /\ Of(o)' = Of(o) \cup {at}
        /\ Defaults(o)' = IF ticked THEN {at} ELSE Defaults(o) \ {at}
        /\ call.entry = Unmade => at \notin Of(o) /\ FormFiled(o)' = FormFiled(o) \cup {at}
        /\ call.entry # Unmade => FormFiled(o)' = FormFiled(o)
    <3>1. PICK entry : entry = call.entry
      OBVIOUS
    <3>2. entry = Unmade => at = lastMade + 1
      BY <2>3, <3>1
    <3>3. entry # Unmade => at = entry /\ at \in Of(o)
      BY <2>2, <3>1
    <3>4. book' = WrittenBook(o, at, entry, ticked)
      BY <2>4, <3>1 DEF WrittenBook
    <3>5. lastMade' = IF entry = Unmade THEN at ELSE lastMade
      BY <2>5, <3>1
    <3>6. SaveIsWritten(o, at, entry, ticked)
      BY <1>2, <1>4, <3>2, <3>3, <3>4, <3>5, SaveWrites
    <3> QED
      BY <3>1, <3>6 DEF SaveIsWritten
  <2>8. /\ doubt' \in [Owners -> SUBSET Doubts] /\ \A p \in Owners : p # o => doubt'[p] = doubt[p]
        /\ doubt'[o] = IF ticked THEN (IF Busy(o) = {k} THEN {} ELSE doubt[o])
                       ELSE IF at \in Defaults(o) THEN doubt[o] \cup {"unticked"} ELSE doubt[o]
    BY <1>2, <2>6, BookStands DEF Doubts
  <2>9. /\ keeper' \in [Keepers -> KeeperCall] /\ \A l \in Keepers : l # k => keeper'[l] = keeper[l]
        /\ \A l \in Keepers : keeper'[l].at # "idle" <=> keeper'[l].owner \in Owners
        /\ Busy(o)' = Busy(o) \ {k} /\ k \in Busy(o) /\ \A l \in Busy(o) \ {k} : keeper'[l] = keeper[l]
        /\ \A p \in Owners : p # o => \A l \in Keepers : keeper[l].owner = p \/ keeper'[l].owner = p => keeper'[l] = keeper[l]
    BY <1>1, <1>2, KeeperRests
  <2>10. OwnerHolds(o)
    BY <1>2, BookStands
  <2>11. "crossed" \notin doubt'[o] => \A l \in Busy(o)' : keeper'[l].at \notin Removing
    <3>1. CASE Busy(o) = {k}
      BY <2>9, <3>1
    <3>2. CASE Busy(o) # {k}
      <4>1. SUFFICES ASSUME "crossed" \notin doubt'[o], NEW l \in Busy(o)', keeper'[l].at \in Removing PROVE FALSE
        OBVIOUS
      <4>2. StandApart(o)
        BY <2>8, <2>10, <3>2, <4>1 DEF OwnerHolds
      <4>3. l \in Busy(o) /\ l # k /\ keeper[l].at \in Removing
        BY <2>9, <4>1
      <4> QED
        BY <2>9, <4>2, <4>3 DEF StandApart
    <3> QED
      BY <3>1, <3>2
  <2>12. ASSUME "crossed" \notin doubt'[o] PROVE StandApart(o)' /\ BookUncrossed(o)'
    <3>1. \A e, f \in Defaults(o)' : e = f
      <4>1. CASE ticked
        BY <2>7, <4>1
      <4>2. CASE ~ticked
        BY <2>7, <2>8, <2>10, <2>12, <4>2 DEF OwnerHolds, BookUncrossed
      <4> QED
        BY <4>1, <4>2
    <3>2. StandApart(o)'
      BY <2>11, <2>12 DEF StandApart
    <3>3. Of(o)' # {}
      BY <2>7
    <3>4. BookUncrossed(o)'
      BY <2>11, <2>12, <3>1, <3>3 DEF BookUncrossed, Removing
    <3> QED
      BY <3>2, <3>4
  <2>13. DefaultFound(o)'
    <3>1. CASE ticked
      BY <2>7, <3>1 DEF DefaultFound
    <3>2. CASE ~ticked
      <4>1. SUFFICES ASSUME doubt'[o] = {} PROVE Defaults(o)' # {}
        BY DEF DefaultFound
      <4>2. doubt[o] = {} /\ at \notin Defaults(o)
        BY <2>8, <3>2, <4>1
      <4>3. call.counted # 0
        BY <2>1, <3>2 DEF ShouldDefault
      <4>4. StandApart(o) /\ BookUncrossed(o)
        BY <2>10, <4>2 DEF OwnerHolds
      <4>5. Of(o) # {}
        BY <1>1, <1>2, <2>9, <4>3, <4>4 DEF BookUncrossed
      <4>6. \A l \in Busy(o) : keeper[l].at \in {"save", "remove"}
        <5>1. SUFFICES ASSUME NEW l \in Busy(o) PROVE keeper[l].at \in {"save", "remove"}
          OBVIOUS
        <5>2. l \in Keepers /\ keeper[l].owner = o
          BY DEF Busy
        <5>3. keeper[l].at \in {"save"} \cup Removing
          BY <1>2, <5>2, BookStands DEF KeeperCall
        <5>4. keeper[l].at \notin Removing
          <6>1. keeper[l].at \in Removing => l = k
            BY <2>9, <4>4 DEF StandApart
          <6> QED
            BY <1>1, <1>2, <6>1 DEF Removing
        <5> QED
          BY <5>3, <5>4
      <4>7. Defaults(o) # {}
        BY <2>10, <4>2, <4>5, <4>6 DEF OwnerHolds, DefaultFound
      <4> QED
        BY <2>7, <3>2, <4>2, <4>7
    <3> QED
      BY <3>1, <3>2
  <2>14. RoomLeft(o)'
    <3>1. Adding(o)' \subseteq Adding(o)
      BY <2>9 DEF Adding
    <3>2. CASE call.entry # Unmade
      BY <1>2, <2>7, <2>10, <3>1, <3>2, RoomKept DEF OwnerHolds
    <3>3. CASE call.entry = Unmade
      <4>1. Adding(o)' = Adding(o) \ {k} /\ k \in Adding(o)
        BY <1>1, <1>2, <2>3, <2>9, <3>3 DEF Adding
      <4>2. Cardinality(Adding(o)') = Cardinality(Adding(o)) - 1
        BY <1>2, <4>1, BookSets, FS_RemoveElement
      <4>3. FormFiled(o)' = FormFiled(o) \cup {at} /\ at \notin FormFiled(o)
        BY <2>7, <3>3 DEF FormFiled
      <4>4. Cardinality(FormFiled(o)') = Cardinality(FormFiled(o)) + 1
        BY <1>2, <4>3, BookSets, FS_AddElement
      <4>5. PICK cap : cap = MaxAddresses + Cardinality(Keepers) - 1 /\ cap \in Int
        BY <1>2, BookSets, BookAssumption
      <4>6. Cardinality(FormFiled(o)) + Cardinality(Adding(o)) <= cap
        BY <2>10, <4>5 DEF OwnerHolds, RoomLeft
      <4>7. Cardinality(FormFiled(o)') + Cardinality(Adding(o)') <= cap
        BY <1>2, <4>2, <4>4, <4>5, <4>6, BookSets
      <4> QED
        BY <4>5, <4>7 DEF RoomLeft
    <3> QED
      BY <3>2, <3>3
  <2>15. OwnerHolds(o)'
    BY <2>12, <2>13, <2>14 DEF OwnerHolds
  <2>16. ASSUME NEW p \in Owners, p # o PROVE OwnerHolds(p)'
    <3>1. doubt'[p] = doubt[p]
      BY <2>8, <2>16
    <3>2. \A e \in Entries : book[e].owner = p \/ book'[e].owner = p => book'[e] = book[e]
      BY <2>7, <2>16
    <3>3. \A l \in Keepers : keeper[l].owner = p \/ keeper'[l].owner = p => keeper'[l] = keeper[l]
      BY <2>9, <2>16
    <3> QED
      BY <3>1, <3>2, <3>3, OthersKept
  <2> QED
    BY <2>7, <2>8, <2>9, <2>15, <2>16, BookNext1
<1> QED
  BY <1>5, <1>6

LEMMA BookStep ==
    ASSUME BookInv, BookNext \/ UNCHANGED bookVars
    PROVE  BookInv'
<1>1. CASE UNCHANGED bookVars
  <2>1. book' = book /\ lastMade' = lastMade /\ keeper' = keeper /\ doubt' = doubt
    BY <1>1 DEF bookVars
  <2>2. \A p \in Owners : OwnerHolds(p)'
    BY <2>1, OthersKept
  <2> QED
    BY <2>1, <2>2, BookStands, BookNext1
<1>2. CASE BookNext
  BY <1>2, FiledWithOrder, SaveOpened, RemovalOpened, SaveCommitted, EntryDropped, SurvivorFound, DefaultsCounted,
     Promoted, KeeperDied DEF BookNext
<1> QED
  BY <1>1, <1>2

\* One default, or the doubt that there is; and room.
LEMMA BookRight == ASSUME BookInv PROVE OneDefaultAddress /\ TwoTakeACrossing /\ BookHasRoom
<1>1. ASSUME NEW o \in Owners, "crossed" \notin doubt[o]
      PROVE  Cardinality(Defaults(o)) <= 1 /\ (Defaults(o) # {} => Cardinality(Defaults(o)) = 1)
  <2>1. \A e, f \in Defaults(o) : e = f
    BY <1>1, BookStands DEF OwnerHolds, BookUncrossed
  <2>2. CASE Defaults(o) = {}
    BY <2>2, FS_EmptySet
  <2>3. CASE Defaults(o) # {}
    <3>1. PICK e : e \in Defaults(o)
      BY <2>3
    <3>2. Defaults(o) = {e}
      BY <2>1, <3>1
    <3>3. Cardinality({e}) = 1
      BY FS_Singleton
    <3> QED
      BY <3>2, <3>3
  <2> QED
    BY <2>2, <2>3
<1>2. OneDefaultAddress
  <2>1. SUFFICES ASSUME NEW o \in Owners, doubt[o] = {}, Of(o) # {}, \A k \in Busy(o) : keeper[k].at \notin Removing
                 PROVE  Cardinality(Defaults(o)) = 1
    BY DEF OneDefaultAddress
  <2>2. \A k \in Busy(o) : keeper[k].at \in {"save", "remove"}
    <3>1. \A k \in Busy(o) : k \in Keepers /\ keeper[k].owner = o
      BY DEF Busy
    <3> QED
      BY <2>1, <3>1, BookStands DEF KeeperCall
  <2>3. Defaults(o) # {}
    BY <2>1, <2>2, BookStands DEF OwnerHolds, DefaultFound
  <2> QED
    BY <1>1, <2>1, <2>3
<1>3. TwoTakeACrossing
  <2>1. ASSUME NEW o \in Owners, Cardinality(Defaults(o)) > 1 PROVE "crossed" \in doubt[o]
    <3>1. IsFiniteSet(Defaults(o))
      <4>1. Defaults(o) \in SUBSET Of(o)
        BY DEF Defaults
      <4> QED
        BY <4>1, BookSets, FS_Subset
    <3>2. Cardinality(Defaults(o)) \in Nat
      BY <3>1, FS_CardinalityType
    <3> QED
      BY <1>1, <2>1, <3>2
  <2> QED
    BY <2>1 DEF TwoTakeACrossing
<1>4. BookHasRoom
  <2>1. ASSUME NEW o \in Owners PROVE Cardinality(FormFiled(o)) <= MaxAddresses + Cardinality(Keepers) - 1
    <3>1. PICK cap : cap = MaxAddresses + Cardinality(Keepers) - 1 /\ cap \in Int
      BY BookSets, BookAssumption
    <3>2. Cardinality(FormFiled(o)) + Cardinality(Adding(o)) <= cap
      BY <3>1, BookStands DEF OwnerHolds, RoomLeft
    <3>3. Cardinality(FormFiled(o)) \in Nat /\ Cardinality(Adding(o)) \in Nat
      BY BookSets
    <3> QED
      BY <3>1, <3>2, <3>3
  <2> QED
    BY <2>1 DEF BookHasRoom, FormFiled
<1> QED
  BY <1>2, <1>3, <1>4

-----------------------------------------------------------------------------
(* Consent: the newer answer wins, and is the one proved.                  *)

ConsentRecords == [choice : BannerAnswers, source : {"BANNER", "SIGNIN"}]

\* A record appended is the last of the history.
LEMMA LastOfAppended ==
    ASSUME NEW S, NEW s \in Seq(S), NEW e \in S
    PROVE  Append(s, e) \in Seq(S) /\ Append(s, e) # <<>> /\ Last(Append(s, e)) = e
BY AppendProperties DEF Last

LEMMA ConsentBegins == ConsentInit => ConsentInv
<1> SUFFICES ASSUME ConsentInit PROVE ConsentInv
  OBVIOUS
<1> USE ConsentAssumption
<1>1. Unanswered \in Replies
  BY DEF Unanswered, Replies
<1>2. IsFiniteSet(posts) /\ Cardinality(posts) = 0
  BY FS_EmptySet DEF ConsentInit
<1>3. settling \in [Devices -> [on : BOOLEAN, stored : Replies]] /\ cookie \in [Devices -> Replies]
  BY <1>1 DEF ConsentInit, NotSettling
<1>4. history \in Seq([choice : BannerAnswers, source : {"BANNER", "SIGNIN"}])
  BY DEF ConsentInit
<1>5. MostAnswers \in Nat /\ MostSignIns \in Nat
  OBVIOUS
<1>6. hour + Cardinality(posts) <= 2 * answers + 1
  BY <1>2 DEF ConsentInit
<1>7. /\ hour \in Nat \ {0} /\ said \in 0..hour - 1 /\ newest \in 0..hour - 1
      /\ answers \in 0..MostAnswers /\ signIns \in 0..MostSignIns
  BY <1>5 DEF ConsentInit
<1>8. /\ account \in Replies /\ signedIn \subseteq Devices /\ overtaken \in BOOLEAN
      /\ posts \subseteq [device : Devices, choice : BannerAnswers, known : BOOLEAN, given : 0..hour - 1]
  BY <1>1 DEF ConsentInit
<1>9. account.given < hour /\ \A d \in Devices : cookie[d].given < hour /\ settling[d].stored.given < hour
  BY DEF ConsentInit, NotSettling, Unanswered
<1>10. ConsentTyped
  BY <1>2, <1>3, <1>4, <1>6, <1>7, <1>8, <1>9 DEF ConsentTyped
<1> QED
  BY <1>10 DEF ConsentInit, ConsentInv, HistoryProvesTheAnswer, SignInIsAlone, FiledInTime, AccountIsAhead,
              TakenBackStays, Unanswered, NotSettling

LEMMA ConsentAnswered ==
    ASSUME ConsentInv, NEW d \in Devices, NEW choice \in BannerAnswers, ~settling[d].on, Answer(d, choice)
    PROVE  ConsentInv'
<1> DEFINE post == [device |-> d, choice |-> choice, known |-> d \in signedIn, given |-> hour]
           reply == [choice |-> choice, at |-> ClockOf(d), given |-> hour]
<1> USE ConsentAssumption
<1>1. reply \in Replies
  BY DEF ConsentInv, ConsentTyped, Replies, ClockOf
<1>2. /\ cookie' = [cookie EXCEPT ![d] = reply] /\ posts' = posts \cup {post}
      /\ said' \in {said, hour} /\ (d \in signedIn => said' = hour) /\ newest' = hour
      /\ hour' = hour + 1 /\ answers' = answers + 1 /\ answers < MostAnswers
      /\ UNCHANGED <<signedIn, account, history, settling, overtaken, signIns>>
  BY DEF Answer
<1>3. /\ IsFiniteSet(posts') /\ Cardinality(posts') <= Cardinality(posts) + 1
      /\ Cardinality(posts) \in Nat /\ Cardinality(posts') \in Nat
  <2> HIDE DEF post
  <2>1. IsFiniteSet(posts) /\ posts' = posts \cup {post}
    BY <1>2 DEF ConsentInv, ConsentTyped
  <2>2. IsFiniteSet(posts') /\ Cardinality(posts') = IF post \in posts THEN Cardinality(posts) ELSE Cardinality(posts) + 1
    BY <2>1, FS_AddElement
  <2>3. Cardinality(posts) \in Nat
    BY <2>1, FS_CardinalityType
  <2> QED
    BY <2>2, <2>3
<1>4. ConsentTyped'
  <2>1. post \in [device : Devices, choice : BannerAnswers, known : BOOLEAN, given : 0..hour' - 1]
    BY <1>2 DEF ConsentInv, ConsentTyped
  <2>2. posts \subseteq [device : Devices, choice : BannerAnswers, known : BOOLEAN, given : 0..hour' - 1]
    BY <1>2 DEF ConsentInv, ConsentTyped
  <2>3. cookie' \in [Devices -> Replies]
    BY <1>1, <1>2 DEF ConsentInv, ConsentTyped
  <2>4. hour' + Cardinality(posts') <= 2 * answers' + 1
    BY <1>2, <1>3 DEF ConsentInv, ConsentTyped
  <2>5. said' \in 0..hour' - 1 /\ newest' \in 0..hour' - 1 /\ hour' \in Nat \ {0} /\ answers' \in 0..MostAnswers
    BY <1>2 DEF ConsentInv, ConsentTyped
  <2>6. posts' \subseteq [device : Devices, choice : BannerAnswers, known : BOOLEAN, given : 0..hour' - 1]
    <3> HIDE DEF post
    <3> QED
      BY <1>2, <2>1, <2>2
  <2>7. account'.given < hour' /\ \A e \in Devices : cookie'[e].given < hour' /\ settling'[e].stored.given < hour'
    <3>1. /\ \A e \in Devices : cookie[e].given < hour /\ settling[e].stored.given < hour
          /\ \A e \in Devices : settling[e].stored.given \in Nat /\ cookie[e].given \in Nat
          /\ account.given < hour /\ account.given \in Nat /\ hour \in Nat /\ cookie \in [Devices -> Replies]
      BY DEF ConsentInv, ConsentTyped, Replies
    <3>2. reply.given < hour'
      BY <1>2, <3>1
    <3>3. \A e \in Devices : cookie'[e] = IF e = d THEN reply ELSE cookie[e]
      BY <1>2, <3>1
    <3> HIDE DEF reply
    <3> QED
      BY <1>2, <3>1, <3>2, <3>3
  <2> HIDE DEF post, reply
  <2> QED
    BY <1>2, <1>3, <2>3, <2>4, <2>5, <2>6, <2>7 DEF ConsentInv, ConsentTyped
<1>5. HistoryProvesTheAnswer' /\ SignInIsAlone'
  BY <1>2 DEF ConsentInv, HistoryProvesTheAnswer, SignInIsAlone
<1>6. ASSUME ~SignInOverlap, Skewed = {}
      PROVE  FiledInTime' /\ AccountIsAhead' /\ TakenBackStays'
  <2>1. reply.at = hour /\ reply.given = hour
    BY <1>6 DEF ClockOf, ConsentInv, ConsentTyped
  <2>2. FiledInTime /\ AccountIsAhead /\ TakenBackStays
    BY <1>6 DEF ConsentInv
  <2>3. \A e \in Devices : cookie'[e] = IF e = d THEN reply ELSE cookie[e]
    BY <1>2 DEF ConsentInv, ConsentTyped
  <2>4. FiledInTime'
    <3>1. \A e \in Devices : cookie'[e].given <= newest' /\ cookie'[e].at < hour'
      <4>1. SUFFICES ASSUME NEW e \in Devices PROVE cookie'[e].given <= newest' /\ cookie'[e].at < hour'
        OBVIOUS
      <4>2. cookie[e] \in Replies
        BY DEF ConsentInv, ConsentTyped
      <4>3. hour \in Nat /\ newest \in Nat /\ newest < hour /\ cookie[e].given <= newest /\ cookie[e].at < hour
        BY <2>2 DEF FiledInTime, ConsentInv, ConsentTyped
      <4>4. cookie[e].given \in Nat /\ cookie[e].at \in Nat
        BY <4>2 DEF Replies
      <4> HIDE DEF reply
      <4>5. CASE e = d
        BY <1>2, <2>1, <2>3, <4>3, <4>5
      <4>6. CASE e # d
        BY <1>2, <2>3, <4>3, <4>4, <4>6
      <4> QED
        BY <4>5, <4>6
    <3>2. \A p \in posts' : p.known => p.given <= said'
      <4>1. SUFFICES ASSUME NEW p \in posts', p.known PROVE p.given <= said'
        OBVIOUS
      <4>2. CASE p \in posts
        BY <1>2, <2>2, <4>1, <4>2, SMTT(30) DEF FiledInTime, ConsentInv, ConsentTyped
      <4>3. CASE p = post
        BY <1>2, <4>1, <4>3 DEF ConsentInv, ConsentTyped
      <4> QED
        BY <1>2, <4>2, <4>3
    <3>3. account'.at < hour' /\ account'.given <= account'.at /\ account'.given <= newest' /\ said' <= newest'
      <4>1. /\ account.at < hour /\ account.given <= account.at /\ account.given <= newest /\ said <= newest
            /\ account.at \in Nat /\ account.given \in Nat
        BY <2>2 DEF FiledInTime, ConsentInv, ConsentTyped, Replies
      <4>2. hour \in Nat /\ newest \in Nat /\ newest < hour /\ said \in Nat
        BY DEF ConsentInv, ConsentTyped
      <4>3. account' = account /\ newest' = hour /\ hour' = hour + 1 /\ (said' = hour \/ said' = said)
        BY <1>2
      <4> QED
        BY <4>1, <4>2, <4>3
    <3> QED
      BY <3>1, <3>2, <3>3 DEF FiledInTime
  <2>5. AccountIsAhead'
    <3>1. SUFFICES ASSUME NEW e \in Devices
                   PROVE  /\ cookie'[e].at = cookie'[e].given \/ cookie'[e].at <= account'.at
                          /\ ~overtaken' /\ cookie'[e].at <= account'.at => cookie'[e].given <= account'.given
      BY DEF AccountIsAhead
    <3>2. CASE e = d
      <4>1. cookie'[e] = reply /\ cookie'[e].at = hour /\ cookie'[e].given = hour
        BY <2>1, <2>3, <3>2
      <4>2. account'.at = account.at /\ account.at < hour /\ account.at \in Nat /\ hour \in Nat
        BY <1>2, <2>2 DEF FiledInTime, ConsentInv, ConsentTyped, Replies
      <4> HIDE DEF reply
      <4> QED
        BY <4>1, <4>2
    <3>3. CASE e # d
      BY <1>2, <2>2, <2>3, <3>3 DEF AccountIsAhead
    <3> QED
      BY <3>2, <3>3
  <2>6. TakenBackStays'
    <3>1. CASE d \in signedIn
      <4>1. post \in posts' /\ post.known
        BY <1>2, <3>1
      <4> QED
        BY <4>1 DEF TakenBackStays
    <3>2. CASE d \notin signedIn
      <4>1. said' = said
        BY <3>2 DEF Answer
      <4>2. (\A p \in posts' : ~p.known) => \A p \in posts : ~p.known
        BY <1>2
      <4> QED
        BY <1>2, <2>2, <4>1, <4>2 DEF TakenBackStays
    <3> QED
      BY <3>1, <3>2
  <2> QED
    BY <2>4, <2>5, <2>6
<1> QED
  BY <1>4, <1>5, <1>6 DEF ConsentInv

LEMMA ConsentRecorded ==
    ASSUME ConsentInv, NEW post, RecordBannerConsent(post)
    PROVE  ConsentInv'
<1> DEFINE asFiled == [choice |-> post.choice, at |-> hour, given |-> post.given]
           record == [choice |-> post.choice, source |-> "BANNER"]
<1>1. /\ post \in posts /\ posts' = posts \ {post} /\ account' = (IF post.known THEN asFiled ELSE account)
      /\ history' = (IF post.known THEN Append(history, record) ELSE history)
      /\ overtaken' = (overtaken \/ (post.known /\ post.given < newest))
      /\ hour' = hour + 1
      /\ UNCHANGED <<cookie, signedIn, settling, said, newest, answers, signIns>>
      /\ (post.known /\ ~SignInOverlap => \A d \in Devices : ~settling[d].on)
  BY DEF RecordBannerConsent, Answered, Recorded
<1>2. /\ post.choice \in BannerAnswers /\ post.known \in BOOLEAN /\ post.given \in 0..hour - 1
      /\ hour \in Nat \ {0}
  BY <1>1 DEF ConsentInv, ConsentTyped
<1>3. asFiled \in Replies /\ record \in ConsentRecords /\ history \in Seq(ConsentRecords)
  BY <1>2 DEF Replies, ConsentRecords, ConsentInv, ConsentTyped
<1>4. history' \in Seq(ConsentRecords) /\ (post.known => history' # <<>> /\ Last(history') = record)
  <2> HIDE DEF record
  <2> QED
    BY <1>1, <1>2, <1>3, LastOfAppended
<1>5. ConsentTyped'
  <2>1. IsFiniteSet(posts') /\ Cardinality(posts') = Cardinality(posts) - 1 /\ Cardinality(posts) \in Nat
    BY <1>1, FS_RemoveElement, FS_CardinalityType DEF ConsentInv, ConsentTyped
  <2>2. hour' + Cardinality(posts') <= 2 * answers' + 1
    BY <1>1, <2>1 DEF ConsentInv, ConsentTyped
  <2>3. posts' \subseteq [device : Devices, choice : BannerAnswers, known : BOOLEAN, given : 0..hour' - 1]
    BY <1>1 DEF ConsentInv, ConsentTyped
  <2>4. said' \in 0..hour' - 1 /\ newest' \in 0..hour' - 1 /\ hour' \in Nat \ {0}
    BY <1>1 DEF ConsentInv, ConsentTyped
  <2>5. account' \in Replies /\ overtaken' \in BOOLEAN
    BY <1>1, <1>2, <1>3 DEF ConsentInv, ConsentTyped
  <2>6. account'.given < hour' /\ \A e \in Devices : cookie'[e].given < hour' /\ settling'[e].stored.given < hour'
    <3>1. /\ \A e \in Devices : cookie[e].given < hour /\ settling[e].stored.given < hour
          /\ \A e \in Devices : settling[e].stored.given \in Nat /\ cookie[e].given \in Nat
          /\ account.given < hour /\ account.given \in Nat
      BY DEF ConsentInv, ConsentTyped, Replies
    <3> QED
      BY <1>1, <1>2, <3>1
  <2> QED
    BY <1>1, <1>4, <2>1, <2>2, <2>3, <2>4, <2>5, <2>6 DEF ConsentInv, ConsentTyped, ConsentRecords
<1>6. HistoryProvesTheAnswer'
  BY <1>1, <1>2, <1>4 DEF ConsentInv, HistoryProvesTheAnswer
<1>7. SignInIsAlone'
  BY <1>1, <1>2 DEF ConsentInv, SignInIsAlone
<1>8. ASSUME ~SignInOverlap, Skewed = {}
      PROVE  FiledInTime' /\ AccountIsAhead' /\ TakenBackStays'
  <2>1. FiledInTime /\ AccountIsAhead /\ TakenBackStays
    BY <1>8 DEF ConsentInv
  <2>2. /\ account.at \in Nat /\ account.given \in Nat /\ said \in Nat /\ newest \in Nat
        /\ \A d \in Devices : cookie[d].at \in Nat /\ cookie[d].given \in Nat
    BY DEF ConsentInv, ConsentTyped, Replies
  <2>3. CASE ~post.known
    <3>1. account' = account /\ (overtaken' <=> overtaken)
      BY <1>1, <2>3
    <3>2. (\A p \in posts' : ~p.known) => \A p \in posts : ~p.known
      BY <1>1, <2>3
    <3> QED
      BY <1>1, <1>2, <2>1, <2>2, <3>1, <3>2 DEF FiledInTime, AccountIsAhead, TakenBackStays
  <2>4. CASE post.known
    <3>1. account'.at = hour /\ account'.given = post.given /\ post.given <= said
      BY <1>1, <2>1, <2>4 DEF FiledInTime
    <3>2. ~overtaken' => post.given = said /\ said = newest
      <4>1. ~overtaken' => ~(post.given < newest)
        BY <1>1, <2>4
      <4>2. said <= newest
        BY <2>1 DEF FiledInTime
      <4> QED
        BY <1>2, <2>2, <3>1, <4>1, <4>2
    <3>3. FiledInTime'
      BY <1>1, <1>2, <2>1, <2>2, <3>1 DEF FiledInTime
    <3>4. AccountIsAhead'
      BY <1>1, <1>2, <2>1, <2>2, <3>1, <3>2 DEF FiledInTime, AccountIsAhead
    <3> QED
      BY <1>1, <3>1, <3>2, <3>3, <3>4 DEF TakenBackStays
  <2> QED
    BY <1>2, <2>3, <2>4
<1> QED
  BY <1>5, <1>6, <1>7, <1>8 DEF ConsentInv

LEMMA ConsentLost ==
    ASSUME ConsentInv, NEW post \in posts, LosePost(post)
    PROVE  ConsentInv'
<1>1. /\ posts' = posts \ {post} /\ overtaken' = (overtaken \/ post.known)
      /\ UNCHANGED <<cookie, signedIn, account, history, settling, said, newest, hour, answers, signIns>>
  BY DEF LosePost
<1>2. post.known \in BOOLEAN
  BY DEF ConsentInv, ConsentTyped
<1>3. ConsentTyped'
  <2>1. IsFiniteSet(posts') /\ Cardinality(posts') = Cardinality(posts) - 1 /\ Cardinality(posts) \in Nat
    BY <1>1, FS_RemoveElement, FS_CardinalityType DEF ConsentInv, ConsentTyped
  <2>2. hour' + Cardinality(posts') <= 2 * answers' + 1
    BY <1>1, <2>1 DEF ConsentInv, ConsentTyped
  <2> QED
    BY <1>1, <1>2, <2>1, <2>2 DEF ConsentInv, ConsentTyped
<1>4. HistoryProvesTheAnswer' /\ SignInIsAlone'
  BY <1>1 DEF ConsentInv, HistoryProvesTheAnswer, SignInIsAlone
<1>5. FiledInTime => FiledInTime'
  BY <1>1 DEF FiledInTime
<1>6. AccountIsAhead => AccountIsAhead'
  BY <1>1, <1>2 DEF AccountIsAhead
<1>7. TakenBackStays => TakenBackStays'
  <2>1. CASE post.known
    BY <1>1, <2>1 DEF TakenBackStays
  <2>2. CASE ~post.known
    <3>1. (\A p \in posts' : ~p.known) => \A p \in posts : ~p.known
      BY <1>1, <2>2
    <3> QED
      BY <1>1, <2>2, <3>1 DEF TakenBackStays
  <2> QED
    BY <1>2, <2>1, <2>2
<1> QED
  BY <1>3, <1>4, <1>5, <1>6, <1>7 DEF ConsentInv

LEMMA SignInOpened ==
    ASSUME ConsentInv, NEW d \in Devices, OpenSignIn(d)
    PROVE  ConsentInv'
<1> DEFINE begun == [on |-> TRUE, stored |-> account]
<1> USE ConsentAssumption
<1>1. /\ signIns < MostSignIns /\ signIns' = signIns + 1 /\ settling' = [settling EXCEPT ![d] = begun]
      /\ SignInOverlap \/ \A e \in Devices : ~settling[e].on
      /\ UNCHANGED <<cookie, signedIn, posts, account, history, said, overtaken, newest, hour, answers>>
  BY DEF OpenSignIn
<1>2. begun \in [on : BOOLEAN, stored : Replies] /\ begun.on /\ begun.stored = account
  BY DEF ConsentInv, ConsentTyped
<1>3. settling' \in [Devices -> [on : BOOLEAN, stored : Replies]]
      /\ \A e \in Devices : settling'[e] = IF e = d THEN begun ELSE settling[e]
  <2> HIDE DEF begun
  <2> QED
    BY <1>1, <1>2 DEF ConsentInv, ConsentTyped
<1>4. ConsentTyped'
  <2>1. account.given < hour /\ \A e \in Devices : cookie[e].given < hour /\ settling'[e].stored.given < hour
    BY <1>2, <1>3 DEF ConsentInv, ConsentTyped
  <2> QED
    BY <1>1, <1>3, <2>1 DEF ConsentInv, ConsentTyped
<1>5. HistoryProvesTheAnswer'
  BY <1>1 DEF ConsentInv, HistoryProvesTheAnswer
<1>6. SignInIsAlone'
  <2> HIDE DEF begun
  <2> QED
    BY <1>1, <1>2, <1>3 DEF ConsentInv, SignInIsAlone
<1>7. (FiledInTime => FiledInTime') /\ (AccountIsAhead => AccountIsAhead') /\ (TakenBackStays => TakenBackStays')
  BY <1>1 DEF FiledInTime, AccountIsAhead, TakenBackStays
<1> QED
  BY <1>4, <1>5, <1>6, <1>7 DEF ConsentInv

LEMMA SignedOut ==
    ASSUME ConsentInv, NEW d \in Devices, SignOut(d)
    PROVE  ConsentInv'
BY DEF SignOut, ConsentInv, ConsentTyped, HistoryProvesTheAnswer, SignInIsAlone, FiledInTime, AccountIsAhead,
       TakenBackStays

\* What a sign-in that settles makes of the device and of the account.
LEMMA SettledAs ==
    ASSUME ConsentInv, NEW d \in Devices, SettleSignIn(d)
    PROVE  /\ settling[d].on /\ settling' = [settling EXCEPT ![d] = NotSettling]
           /\ \A e \in Devices : settling'[e] = IF e = d THEN NotSettling ELSE settling[e]
           /\ cookie' = [cookie EXCEPT ![d] = HandedBack(d)]
           /\ \A e \in Devices : cookie'[e] = IF e = d THEN HandedBack(d) ELSE cookie[e]
           /\ account' = IF DeviceIsNewer(d) THEN cookie[d] ELSE account
           /\ said' = IF cookie[d].given > said THEN cookie[d].given ELSE said
           /\ HandedBack(d) \in {cookie[d], settling[d].stored}
           /\ DeviceIsNewer(d) => HandedBack(d) = cookie[d]
           /\ UNCHANGED <<posts, overtaken, newest, hour, answers, signIns>>
BY DEF SettleSignIn, HandedBack, ConsentInv, ConsentTyped

LEMMA SignInSettled ==
    ASSUME ConsentInv, NEW d \in Devices, SettleSignIn(d)
    PROVE  ConsentInv'
<1> DEFINE record == [choice |-> cookie[d].choice, source |-> "SIGNIN"]
<1>1. /\ history' = (IF DeviceIsNewer(d) THEN Append(history, record) ELSE history)
      /\ signedIn' = signedIn \cup {d}
  BY DEF SettleSignIn, Recorded
<1>2. /\ hour \in Nat \ {0} /\ cookie[d] \in Replies /\ account \in Replies /\ settling[d].stored \in Replies
      /\ history \in Seq(ConsentRecords)
  BY DEF ConsentInv, ConsentTyped, ConsentRecords
<1>3. HandedBack(d) \in Replies
  BY <1>2, SettledAs
<1>4. ASSUME DeviceIsNewer(d)
      PROVE  history' \in Seq(ConsentRecords) /\ history' # <<>> /\ Last(history') = record
  <2>1. record \in ConsentRecords
    BY <1>2, <1>4 DEF ConsentRecords, Replies, DeviceIsNewer
  <2> HIDE DEF record
  <2> QED
    BY <1>1, <1>2, <1>4, <2>1, LastOfAppended
<1>5. /\ settling' \in [Devices -> [on : BOOLEAN, stored : Replies]]
      /\ cookie' \in [Devices -> Replies] /\ account' \in Replies
  <2>1. NotSettling \in [on : BOOLEAN, stored : Replies]
    BY DEF NotSettling, Unanswered, Replies
  <2>2. settling' = [settling EXCEPT ![d] = NotSettling] /\ cookie' = [cookie EXCEPT ![d] = HandedBack(d)]
        /\ account' \in {cookie[d], account}
    BY SettledAs
  <2> QED
    BY <1>2, <1>3, <2>1, <2>2 DEF ConsentInv, ConsentTyped
<1>6. said \in Nat /\ newest \in Nat /\ said < hour /\ newest < hour
  BY DEF ConsentInv, ConsentTyped
<1>7. UNCHANGED <<posts, overtaken, newest, hour, answers, signIns>> /\ said' \in {said, cookie[d].given}
  BY SettledAs
<1>8. history' \in Seq(ConsentRecords) /\ signedIn' \subseteq Devices
  BY <1>1, <1>2, <1>4 DEF ConsentInv, ConsentTyped
<1>9. HistoryProvesTheAnswer'
  <2>1. CASE DeviceIsNewer(d)
    BY <1>4, <2>1, SettledAs DEF HistoryProvesTheAnswer
  <2>2. CASE ~DeviceIsNewer(d)
    BY <1>1, <2>2, SettledAs DEF HistoryProvesTheAnswer, ConsentInv
  <2> QED
    BY <2>1, <2>2
<1>10. SignInIsAlone'
  <2>1. SUFFICES ASSUME ~SignInOverlap PROVE \A e \in Devices : ~settling'[e].on
    BY DEF SignInIsAlone
  <2>2. \A e \in Devices : settling[e].on => e = d
    BY <2>1, SettledAs DEF ConsentInv, SignInIsAlone
  <2> QED
    BY <2>2, SettledAs DEF NotSettling
<1>11. ASSUME ~SignInOverlap, Skewed = {}
       PROVE  FiledInTime' /\ AccountIsAhead' /\ TakenBackStays'
  <2>1. FiledInTime /\ AccountIsAhead /\ TakenBackStays
    BY <1>11 DEF ConsentInv
  <2>2. settling[d].stored = account
    BY <1>11, SettledAs DEF ConsentInv, SignInIsAlone
  <2>3. /\ account.at \in Nat /\ account.given \in Nat
        /\ \A e \in Devices : cookie[e].at \in Nat /\ cookie[e].given \in Nat
    BY DEF ConsentInv, ConsentTyped, Replies
  <2>4. /\ \A e \in Devices : cookie[e].given <= newest /\ cookie[e].at < hour
        /\ account.at < hour /\ account.given <= account.at /\ account.given <= newest /\ said <= newest
        /\ \A post \in posts : post.known => post.given <= said
    BY <2>1 DEF FiledInTime
  <2>5. said <= said' /\ said' <= newest /\ said' \in Nat /\ cookie[d].given <= said'
    BY <1>6, <2>3, <2>4, SettledAs
  <2>6. \A e \in Devices : cookie'[e] \in {cookie[e], account}
    BY <2>2, SettledAs
  <2>7. \A post \in posts' : post.known => post.given <= said'
    <3>1. SUFFICES ASSUME NEW post \in posts, post.known PROVE post.given <= said'
      BY <1>7
    <3>2. post.given \in Nat /\ post.given <= said
      BY <2>4, <3>1 DEF ConsentInv, ConsentTyped
    <3> QED
      BY <1>6, <2>5, <3>2
  <2>8. CASE DeviceIsNewer(d)
    <3>1. account' = cookie[d] /\ cookie[d].at > account.at /\ cookie'[d] = cookie[d]
      BY <2>2, <2>8, SettledAs DEF DeviceIsNewer
    <3>2. cookie[d].at = cookie[d].given /\ \A e \in Devices : cookie'[e] = cookie[e]
      BY <2>1, <2>3, <3>1, SettledAs DEF AccountIsAhead
    <3>3. FiledInTime'
      <4>1. \A e \in Devices : cookie'[e].given <= newest' /\ cookie'[e].at < hour'
        BY <1>7, <2>4, <3>2
      <4>2. account'.at < hour' /\ account'.given <= account'.at /\ account'.given <= newest'
        BY <1>7, <2>3, <2>4, <3>1, <3>2
      <4> QED
        BY <1>7, <2>5, <2>7, <4>1, <4>2 DEF FiledInTime
    <3>4. AccountIsAhead'
      <4>1. SUFFICES ASSUME NEW e \in Devices
                     PROVE  /\ cookie[e].at = cookie[e].given \/ cookie[e].at <= cookie[d].at
                            /\ ~overtaken /\ cookie[e].at <= cookie[d].at => cookie[e].given <= cookie[d].given
        BY <1>7, <3>1, <3>2 DEF AccountIsAhead
      <4>2. \/ cookie[e].at = cookie[e].given
            \/ cookie[e].at <= account.at /\ (~overtaken => cookie[e].given <= account.given)
        BY <2>1 DEF AccountIsAhead
      <4> QED
        BY <2>3, <2>4, <3>1, <3>2, <4>2
    <3>5. TakenBackStays'
      BY <1>6, <1>7, <2>1, <2>3, <2>4, <3>1, <3>2, SettledAs DEF TakenBackStays
    <3> QED
      BY <3>3, <3>4, <3>5
  <2>9. CASE ~DeviceIsNewer(d)
    <3>1. account' = account /\ cookie[d].at <= account.at
      BY <2>2, <2>3, <2>9, SettledAs DEF DeviceIsNewer
    <3>2. FiledInTime'
      BY <1>7, <2>4, <2>5, <2>6, <2>7, <3>1 DEF FiledInTime
    <3>3. AccountIsAhead'
      <4>1. SUFFICES ASSUME NEW e \in Devices
                     PROVE  /\ cookie'[e].at = cookie'[e].given \/ cookie'[e].at <= account.at
                            /\ ~overtaken /\ cookie'[e].at <= account.at => cookie'[e].given <= account.given
        BY <1>7, <3>1 DEF AccountIsAhead
      <4>2. CASE cookie'[e] = account
        BY <2>3, <4>2
      <4>3. CASE cookie'[e] = cookie[e]
        BY <2>1, <4>3 DEF AccountIsAhead
      <4> QED
        BY <2>6, <4>2, <4>3
    <3>4. TakenBackStays'
      <4>1. SUFFICES ASSUME ~overtaken, \A post \in posts : ~post.known PROVE account.given = said'
        BY <1>7, <3>1 DEF TakenBackStays
      <4>2. account.given = said /\ cookie[d].given <= account.given
        BY <2>1, <3>1, <4>1 DEF TakenBackStays, AccountIsAhead
      <4>3. said' = said
        BY <1>6, <2>3, <4>2, SettledAs
      <4> QED
        BY <4>2, <4>3
    <3> QED
      BY <3>2, <3>3, <3>4
  <2> QED
    BY <2>8, <2>9
<1>12. ConsentTyped'
  <2>1. /\ account.given < hour /\ \A e \in Devices : cookie[e].given < hour /\ settling[e].stored.given < hour
        /\ \A e \in Devices : cookie[e].given \in Nat
    BY DEF ConsentInv, ConsentTyped, Replies
  <2>2. said' \in 0..hour - 1
    BY <1>2, <1>6, <1>7, <2>1
  <2>3. account'.given < hour
    BY <2>1, SettledAs
  <2>4. \A e \in Devices : settling'[e].stored.given < hour
    BY <1>2, <2>1, SettledAs DEF NotSettling, Unanswered
  <2>5. \A e \in Devices : cookie'[e].given < hour
    BY <2>1, SettledAs
  <2> QED
    BY <1>5, <1>7, <1>8, <2>2, <2>3, <2>4, <2>5 DEF ConsentInv, ConsentTyped, ConsentRecords
<1> QED
  BY <1>9, <1>10, <1>11, <1>12 DEF ConsentInv

LEMMA ConsentStep ==
    ASSUME ConsentInv, ConsentNext \/ UNCHANGED consentVars
    PROVE  ConsentInv'
<1>1. ASSUME UNCHANGED consentVars PROVE ConsentInv'
  BY <1>1 DEF consentVars, ConsentInv, ConsentTyped, HistoryProvesTheAnswer, SignInIsAlone, FiledInTime,
              AccountIsAhead, TakenBackStays
<1> QED
  BY <1>1, ConsentAnswered, ConsentRecorded, ConsentLost, SignInOpened, SignInSettled, SignedOut DEF ConsentNext

\* What a step does where a sign-in ends.
LEMMA SignInEnds ==
    ASSUME ConsentInv, ~SignInOverlap, ConsentNext, NEW d \in Devices, settling[d].on, ~settling'[d].on
    PROVE  /\ cookie'[d].choice = account'.choice \/ account'.at = 0
           /\ account'.at >= account.at /\ account'.at >= cookie[d].at
<1>1. SettleSignIn(d)
  <2>1. PICK e \in Devices : SettleSignIn(e) \/ OpenSignIn(e)
    BY DEF ConsentNext, Answer, SignOut, RecordBannerConsent, LosePost
  <2>2. settling \in [Devices -> [on : BOOLEAN, stored : Replies]]
    BY DEF ConsentInv, ConsentTyped
  <2>3. ~OpenSignIn(e)
    BY <2>2 DEF OpenSignIn
  <2>4. e = d
    BY <2>1, <2>2, <2>3, SettledAs
  <2> QED
    BY <2>1, <2>3, <2>4
<1>2. settling[d].stored = account /\ account.at \in Nat /\ cookie[d].at \in Nat
  BY DEF ConsentInv, ConsentTyped, SignInIsAlone, Replies
<1>3. CASE DeviceIsNewer(d)
  BY <1>1, <1>2, <1>3, SettledAs DEF DeviceIsNewer
<1>4. CASE ~DeviceIsNewer(d)
  <2>1. account' = account /\ cookie'[d] = HandedBack(d)
    BY <1>1, <1>4, SettledAs
  <2>2. HandedBack(d) = account \/ account.at = 0
    BY <1>2, <1>4 DEF HandedBack
  <2> QED
    BY <1>2, <1>4, <2>1, <2>2 DEF DeviceIsNewer
<1> QED
  BY <1>3, <1>4

-----------------------------------------------------------------------------
(* Support: threads are told, whoever writes at once.                      *)

LEMMA IdsAreFinite == IsFiniteSet(Ids) /\ Ids \subseteq Nat \ {0}
BY SupportAssumption, FS_Interval DEF Ids

LEMMA TopSaid ==
    ASSUME NEW S \in SUBSET Ids, S # {}
    PROVE  Max(S) \in S /\ \A x \in S : x <= Max(S)
<1>1. S \subseteq Int
  BY IdsAreFinite
<1>2. IsFiniteSet(S)
  BY IdsAreFinite, FS_Subset
<1> QED
  BY <1>1, <1>2, TopOf

LEMMA TopShown ==
    ASSUME NEW S \in SUBSET Ids
    PROVE  Max(S \cup {0}) \in S \cup {0} /\ \A x \in S : x <= Max(S \cup {0})
<1>1. S \cup {0} \subseteq Int
  BY IdsAreFinite
<1>2. IsFiniteSet(S)
  BY IdsAreFinite, FS_Subset
<1>3. IsFiniteSet(S \cup {0})
  BY <1>2, FS_AddElement
<1> QED
  BY <1>1, <1>3, TopOf

LEMMA SupportBegins == SupportInit => SupportInv
<1> SUFFICES ASSUME SupportInit PROVE SupportInv
  OBVIOUS
<1> USE SupportAssumption
<1>1. NoMessage \in [ticket : Tickets \cup {0}, from : Authors \cup {"none"}, text : BOOLEAN, beside : SUBSET Ids]
  BY DEF NoMessage
<1>2. SupportTypeOK
  BY <1>1 DEF SupportInit, SupportTypeOK, NoTicket, Quiet
<1>3. talker \in [Talkers -> TalkerType]
  BY DEF SupportInit, TalkerType, Quiet
<1>4. ticketHistory \in [Tickets -> [resolved : BOOLEAN, owed : BOOLEAN]] /\ minted = 1..0 /\ 0 \in 0..MostMessages
  BY DEF SupportInit
<1>5. SupportTyped
  BY <1>2, <1>3, <1>4 DEF SupportTyped
<1>6. Started = {} /\ Opening = {} /\ NeverResolved = {} /\ \A t \in Tickets : Said(t) = {}
  BY DEF SupportInit, Started, Opening, NeverResolved, OpenTickets, Said, NoTicket, NoMessage, Quiet
<1>7. TalkersHold /\ StillWritten
  BY DEF SupportInit, TalkersHold, StillWritten, Quiet
<1>8. MessagesHold /\ ThreadsHold
  BY <1>6 DEF SupportInit, MessagesHold, ThreadsHold, NoMessage, NoTicket
<1>9. RoomIsLeft
  <2>1. IsFiniteSet(Talkers) /\ Cardinality(Talkers) \in Nat
    BY FS_CardinalityType
  <2> QED
    BY <1>6, <2>1, FS_EmptySet DEF RoomIsLeft
<1>10. MissedWereInFlight /\ PreviewIsTheLast /\ UnansweredIsAwaited
  BY <1>6 DEF SupportInit, MissedWereInFlight, PreviewIsTheLast, UnansweredIsAwaited
<1> QED
  BY <1>5, <1>7, <1>8, <1>9, <1>10 DEF SupportInv

\* What the counts of the cap are counts of.
LEMMA RoomIsFinite ==
    /\ IsFiniteSet(Tickets) /\ IsFiniteSet(Talkers)
    /\ \A S \in SUBSET Tickets : IsFiniteSet(S) /\ Cardinality(S) \in Nat
    /\ \A S \in SUBSET Talkers : IsFiniteSet(S) /\ Cardinality(S) \in Nat /\ Cardinality(S) <= Cardinality(Talkers)
    /\ Cardinality(Talkers) \in Nat
BY SupportAssumption, FS_Subset, FS_CardinalityType

\* A message begins, of a conversation to open or of one that is there.
LEMMA MessageBegun ==
    ASSUME SupportInv, NEW w \in Talkers, NEW record,
           record.at \in {"start", "post"}, record.ticket \in Tickets \cup {0}, record.from \in Authors \cup {"none"},
           record = [at |-> record.at, ticket |-> record.ticket, from |-> record.from, id |-> 0, status |-> "none",
                     listed |-> {}],
           record.at = "post" => record.ticket \in Started /\ record.from \in Authors,
           record.at = "start" => Cardinality(OpenTickets) < OpenCap,
           Begin(w, record)
    PROVE  SupportInv'
<1>1. PICK i \in MintableIds : /\ minted' = minted \cup {i}
                               /\ talker' = [talker EXCEPT ![w] = [record EXCEPT !.id = i]]
                               /\ message' = [message EXCEPT ![i].beside = InFlight]
  BY DEF Begin
<1>2. talker[w] = Quiet /\ UNCHANGED <<ticket, screen, moves, ticketHistory>>
  BY DEF Begin
<1>3. PICK n \in 0..MostMessages : minted = 1..n
  BY DEF SupportInv, SupportTyped
<1>4. i = n + 1 /\ i \in Ids /\ i \notin minted /\ minted' = 1..i /\ minted' \subseteq Ids
  <2>1. Cardinality(1..n) = n
    BY <1>3, FS_Interval
  <2>2. i \in Ids /\ i = n + 1
    BY <1>3, <2>1 DEF MintableIds
  <2> QED
    BY <1>1, <1>3, <2>2, SupportAssumption DEF Ids
<1>5. PICK r : /\ r = [record EXCEPT !.id = i] /\ r \in TalkerType' /\ r.id = i /\ r.at = record.at
               /\ r.ticket = record.ticket /\ r.from = record.from
  <2>1. PICK r : r = [at |-> record.at, ticket |-> record.ticket, from |-> record.from, id |-> i,
                      status |-> "none", listed |-> {}]
    OBVIOUS
  <2>2. r = [record EXCEPT !.id = i]
    BY <2>1
  <2>3. i \in minted'
    BY <1>1
  <2>4. r \in TalkerType'
    BY <2>1, <2>3 DEF TalkerType
  <2> QED
    BY <2>1, <2>2, <2>4
<1>6. \A v \in Talkers : talker'[v] = IF v = w THEN r ELSE talker[v]
  BY <1>1, <1>5 DEF SupportInv, SupportTyped
<1>7. InFlight \subseteq minted
  BY DEF InFlight, SupportInv, SupportTyped, TalkerType
<1>8. /\ message' \in [Ids -> [ticket : Tickets \cup {0}, from : Authors \cup {"none"}, text : BOOLEAN, beside : SUBSET Ids]]
      /\ \A j \in Ids : /\ message'[j].ticket = message[j].ticket /\ message'[j].from = message[j].from
                        /\ message'[j].text = message[j].text
                        /\ message'[j].beside = IF j = i THEN InFlight ELSE message[j].beside
  <2>1. InFlight \in SUBSET Ids
    BY <1>4, <1>7, <1>1
  <2>2. message \in [Ids -> [ticket : Tickets \cup {0}, from : Authors \cup {"none"}, text : BOOLEAN, beside : SUBSET Ids]]
    BY DEF SupportInv, SupportTyped, SupportTypeOK
  <2> HIDE DEF InFlight
  <2> QED
    BY <1>1, <1>4, <2>1, <2>2
<1>9. /\ Started' = Started /\ \A t \in Tickets : Said(t)' = Said(t)
      /\ \A t \in Tickets : Said(t) \subseteq minted /\ i \notin Said(t)
  <2>1. Started' = Started
    BY <1>2 DEF Started
  <2>2. \A t \in Tickets : Said(t)' = Said(t)
    BY <1>8 DEF Said
  <2>3. 0 \notin Tickets
    BY SupportAssumption
  <2>4. \A t \in Tickets : Said(t) \subseteq minted
    BY <2>3 DEF Said, SupportInv, MessagesHold
  <2> QED
    BY <1>4, <2>1, <2>2, <2>4
<1>10. message[i].ticket = 0
  BY <1>4 DEF SupportInv, MessagesHold
<1>11. SupportTyped'
  <2>1. talker' \in [Talkers -> TalkerType']
    <3>1. \A v \in Talkers : talker[v] \in TalkerType'
      BY <1>1 DEF SupportInv, SupportTyped, TalkerType
    <3>2. DOMAIN talker' = Talkers /\ talker' = [v \in Talkers |-> talker'[v]]
      BY <1>1 DEF SupportInv, SupportTyped
    <3> QED
      BY <1>5, <1>6, <3>1, <3>2
  <2>2. \A v \in Talkers : /\ talker'[v].at \in {"idle", "start", "post", "status", "clear"}
                           /\ talker'[v].id \in minted' \cup {0}
    BY <2>1 DEF TalkerType
  <2>3. SupportTypeOK'
    BY <1>2, <1>4, <1>8, <2>2 DEF SupportInv, SupportTyped, SupportTypeOK
  <2>4. i \in 0..MostMessages /\ minted' = 1..i
    BY <1>4, SupportAssumption DEF Ids
  <2> QED
    BY <1>2, <2>1, <2>3, <2>4 DEF SupportInv, SupportTyped
<1>12. TalkersHold'
  <2>1. SUFFICES ASSUME NEW v \in Talkers
                 PROVE  LET h == talker'[v]
                        IN  /\ h.id # 0 <=> h.at \in {"start", "post"}
                            /\ h.id # 0 => message'[h.id].ticket = 0 /\ \A u \in Talkers \ {v} : talker'[u].id # h.id
                            /\ h.at = "post" => h.ticket \in Started /\ h.from \in Authors
                            /\ h.at = "status" => h.ticket \in Started /\ h.status \in TicketStatuses
                            /\ h.at = "clear" => \A k \in h.listed :
                                  /\ message'[k].ticket \in Started
                                  /\ ClearOverlap \/ (ticket[message'[k].ticket].status = "RESOLVED"
                                                      /\ ticket[message'[k].ticket].old)
    BY <1>2, <1>9 DEF TalkersHold
  <2>2. talker[v].id \in minted \cup {0} /\ talker[v].listed \in SUBSET Ids /\ i # 0 /\ i \notin minted
    BY <1>4 DEF SupportInv, SupportTyped, TalkerType
  <2>3. \A u \in Talkers : talker[u].id # i
    BY <1>4 DEF SupportInv, SupportTyped, TalkerType
  <2>4. CASE v = w
    <3>1. talker'[v] = r /\ r.id = i /\ r.at \in {"start", "post"}
      BY <1>5, <1>6, <2>4
    <3>2. message'[i].ticket = 0 /\ \A u \in Talkers \ {v} : talker'[u].id # i
      BY <1>4, <1>6, <1>8, <1>10, <2>3, <2>4
    <3>3. r.at = "post" => r.ticket \in Started /\ r.from \in Authors
      BY <1>5
    <3> QED
      BY <2>2, <3>1, <3>2, <3>3
  <2>5. CASE v # w
    <3>1. talker'[v] = talker[v] /\ \A u \in Talkers \ {v} : talker'[u].id \in {i, talker[u].id}
      BY <1>5, <1>6, <2>5
    <3>2. talker[v].id # 0 => talker[v].id \in Ids
      BY <1>1, <1>4, <2>2
    <3> QED
      BY <1>8, <2>2, <2>3, <3>1, <3>2 DEF SupportInv, TalkersHold
  <2> QED
    BY <2>4, <2>5
<1>13. MessagesHold'
  BY <1>1, <1>8, <1>9 DEF SupportInv, MessagesHold
<1>14. ThreadsHold'
  BY <1>2, <1>9 DEF SupportInv, ThreadsHold
<1>15. StillWritten'
  <2>1. SUFFICES ASSUME NEW v \in Talkers, talker'[v].id # 0, NEW j \in minted', j > talker'[v].id
                 PROVE  talker'[v].id \in message'[j].beside
    BY DEF StillWritten
  <2>2. v # w
    BY <1>4, <1>5, <1>6, <2>1
  <2>3. talker'[v] = talker[v] /\ talker[v].id \in InFlight
    BY <1>6, <2>1, <2>2 DEF InFlight
  <2>4. CASE j = i
    BY <1>8, <1>4, <2>3, <2>4
  <2>5. CASE j # i
    BY <1>1, <1>4, <1>8, <2>1, <2>3, <2>5 DEF SupportInv, StillWritten
  <2> QED
    BY <2>4, <2>5
<1>16. RoomIsLeft'
  <2>1. NeverResolved' = NeverResolved /\ NeverResolved \subseteq OpenTickets /\ OpenTickets \subseteq Tickets
    BY <1>2 DEF NeverResolved, OpenTickets, Started
  <2>2. /\ Cardinality(NeverResolved) \in Nat /\ Cardinality(OpenTickets) \in Nat /\ Cardinality(Talkers) \in Nat
        /\ Cardinality(NeverResolved) <= Cardinality(OpenTickets)
    BY <2>1, RoomIsFinite, FS_Subset
  <2>3. CASE record.at = "start"
    <3>1. Cardinality(Opening') <= Cardinality(Talkers) /\ Cardinality(Opening') \in Nat
      BY RoomIsFinite DEF Opening
    <3> QED
      BY <2>1, <2>2, <2>3, <3>1, SupportAssumption DEF RoomIsLeft
  <2>4. CASE record.at = "post"
    <3>1. Opening' = Opening
      BY <1>2, <1>5, <1>6, <2>4 DEF Opening, Quiet
    <3> QED
      BY <2>1, <3>1 DEF RoomIsLeft, SupportInv
  <2> QED
    BY <2>3, <2>4
<1>17. MissedWereInFlight'
  <2>1. SUFFICES ASSUME NEW t \in Tickets, NEW k \in Said(t) \ screen[t], k < LastShown(t)
                 PROVE  \E j \in screen[t] : k \in message'[j].beside
    BY <1>2, <1>9 DEF MissedWereInFlight, LastShown
  <2>2. PICK j \in screen[t] : k \in message[j].beside
    BY <2>1 DEF SupportInv, MissedWereInFlight
  <2>3. j \in Ids /\ j # i
    BY <1>9 DEF SupportInv, ThreadsHold, Said
  <2> QED
    BY <1>8, <2>2, <2>3
<1>18. PreviewIsTheLast'
  <2>1. SUFFICES ASSUME NEW t \in Started
                 PROVE  \/ ticket[t].from = message'[Max(Said(t))].from
                        \/ \E k \in Said(t) : k \in message'[Max(Said(t))].beside
    BY <1>2, <1>9 DEF PreviewIsTheLast, Started
  <2>2. t \in Tickets /\ Said(t) \in SUBSET Ids /\ Said(t) # {}
    BY DEF Started, Said, SupportInv, ThreadsHold
  <2>3. Max(Said(t)) \in Ids /\ Max(Said(t)) # i
    BY <1>9, <2>2, TopSaid
  <2>4. \/ ticket[t].from = message[Max(Said(t))].from
        \/ \E k \in Said(t) : k \in message[Max(Said(t))].beside
    BY DEF SupportInv, PreviewIsTheLast
  <2> QED
    BY <1>8, <2>3, <2>4
<1>19. UnansweredIsAwaited'
  BY <1>2 DEF SupportInv, UnansweredIsAwaited, Awaiting
<1> QED
  BY <1>11, <1>12, <1>13, <1>14, <1>15, <1>16, <1>17, <1>18, <1>19 DEF SupportInv

\* A message lands, in a conversation it opens or in one that is there.
LEMMA MessageLanded ==
    ASSUME SupportInv, NEW w \in Talkers, talker[w].at \in {"start", "post"}, NEW t \in Tickets, NEW from \in Authors,
           NEW status \in {"OPEN", "WAITING_ON_CUSTOMER"},
           talker[w].at = "start" => t \notin Started, talker[w].at = "post" => t \in Started,
           ClearOverlap \/ ~Clearing(t),
           ticketHistory' = [ticketHistory EXCEPT ![t].owed = from = "CUSTOMER"],
           Landed(w, t, from, status)
    PROVE  SupportInv'
<1> DEFINE asLeft == [status |-> status, from |-> from, old |-> FALSE]
<1>1. PICK i : i = talker[w].id
  OBVIOUS
<1>2. i \in minted /\ i \in Ids /\ i # 0 /\ message[i].ticket = 0 /\ \A v \in Talkers \ {w} : talker[v].id # i
  BY <1>1 DEF SupportInv, SupportTyped, SupportTypeOK, TalkersHold, TalkerType
<1>3. /\ ticket' = [ticket EXCEPT ![t] = asLeft] /\ talker' = [talker EXCEPT ![w] = Quiet]
      /\ message' = [message EXCEPT ![i].ticket = t, ![i].from = from, ![i].text = TRUE]
      /\ UNCHANGED <<minted, screen, moves>>
  BY <1>1 DEF Landed
<1>4. Quiet \in TalkerType /\ Quiet.id = 0 /\ Quiet.at = "idle"
  BY DEF Quiet, TalkerType
<1>5. talker' \in [Talkers -> TalkerType] /\ \A v \in Talkers : talker'[v] = IF v = w THEN Quiet ELSE talker[v]
  BY <1>3, <1>4 DEF SupportInv, SupportTyped
<1>6. /\ message' \in [Ids -> [ticket : Tickets \cup {0}, from : Authors \cup {"none"}, text : BOOLEAN, beside : SUBSET Ids]]
      /\ \A j \in Ids : /\ message'[j].ticket = IF j = i THEN t ELSE message[j].ticket
                        /\ message'[j].from = IF j = i THEN from ELSE message[j].from
                        /\ message'[j].text = (j = i \/ message[j].text)
                        /\ message'[j].beside = message[j].beside
  <2> DEFINE one == [message EXCEPT ![i].ticket = t]
             two == [one EXCEPT ![i].from = from]
             Kind == [ticket : Tickets \cup {0}, from : Authors \cup {"none"}, text : BOOLEAN, beside : SUBSET Ids]
  <2>1. message \in [Ids -> Kind]
    BY DEF SupportInv, SupportTyped, SupportTypeOK
  <2>2. /\ one \in [Ids -> Kind]
        /\ \A j \in Ids : /\ one[j].ticket = IF j = i THEN t ELSE message[j].ticket
                          /\ one[j].from = message[j].from /\ one[j].text = message[j].text
                          /\ one[j].beside = message[j].beside
    BY <1>2, <2>1
  <2>3. /\ two \in [Ids -> Kind]
        /\ \A j \in Ids : /\ two[j].ticket = one[j].ticket
                          /\ two[j].from = IF j = i THEN from ELSE one[j].from
                          /\ two[j].text = one[j].text /\ two[j].beside = one[j].beside
    <3> HIDE DEF one
    <3> QED
      BY <1>2, <2>2
  <2>4. message' = [two EXCEPT ![i].text = TRUE]
    BY <1>3
  <2>5. /\ message' \in [Ids -> Kind]
        /\ \A j \in Ids : /\ message'[j].ticket = two[j].ticket /\ message'[j].from = two[j].from
                          /\ message'[j].text <=> (j = i \/ two[j].text)
                          /\ message'[j].beside = two[j].beside
    <3> HIDE DEF two
    <3>0. PICK last : last = [two EXCEPT ![i].text = TRUE]
      OBVIOUS
    <3>01. \A k \in Kind : [k EXCEPT !.text = TRUE] \in Kind
      OBVIOUS
    <3>02. last \in [Ids -> Kind] /\ last[i] = [two[i] EXCEPT !.text = TRUE]
      <4> HIDE DEF Kind
      <4> QED
        BY <1>2, <2>3, <3>0, <3>01
    <3>1. message' \in [Ids -> Kind] /\ message'[i] = [two[i] EXCEPT !.text = TRUE]
      BY <2>4, <3>0, <3>02
    <3>2. \A j \in Ids : j # i => message'[j] = two[j]
      BY <2>3, <2>4
    <3>3. two[i] \in Kind
      BY <1>2, <2>3
    <3>4. /\ message'[i].ticket = two[i].ticket /\ message'[i].from = two[i].from /\ message'[i].text
          /\ message'[i].beside = two[i].beside
      BY <3>1, <3>3
    <3> QED
      BY <3>1, <3>2, <3>4
  <2> HIDE DEF one, two
  <2> QED
    BY <2>2, <2>3, <2>5
<1>7. /\ ticket' \in [Tickets -> [status : TicketStatuses \cup {"none"}, from : Authors \cup {"none"}, old : BOOLEAN]]
      /\ \A u \in Tickets : ticket'[u] = IF u = t THEN asLeft ELSE ticket[u]
      /\ asLeft.status = status /\ asLeft.from = from /\ asLeft.old = FALSE
  <2>1. asLeft \in [status : TicketStatuses \cup {"none"}, from : Authors \cup {"none"}, old : BOOLEAN]
    BY DEF TicketStatuses
  <2> HIDE DEF asLeft
  <2>2. ticket \in [Tickets -> [status : TicketStatuses \cup {"none"}, from : Authors \cup {"none"}, old : BOOLEAN]]
    BY DEF SupportInv, SupportTyped, SupportTypeOK
  <2>3. asLeft.status = status /\ asLeft.from = from /\ asLeft.old = FALSE
    BY DEF asLeft
  <2> QED
    BY <1>3, <2>1, <2>2, <2>3
<1> HIDE DEF asLeft
<1>8. /\ ticketHistory' \in [Tickets -> [resolved : BOOLEAN, owed : BOOLEAN]]
      /\ \A u \in Tickets : /\ ticketHistory'[u].resolved = ticketHistory[u].resolved
                            /\ ticketHistory'[u].owed = IF u = t THEN from = "CUSTOMER" ELSE ticketHistory[u].owed
  BY DEF SupportInv, SupportTyped
<1>9. /\ Started' = Started \cup {t} /\ Said(t)' = Said(t) \cup {i}
      /\ \A u \in Tickets \ {t} : Said(u)' = Said(u)
      /\ \A u \in Tickets : Said(u) \subseteq minted /\ i \notin Said(u)
  <2>1. Started' = Started \cup {t}
    BY <1>7 DEF Started, TicketStatuses
  <2>2. Said(t)' = Said(t) \cup {i}
    BY <1>2, <1>6 DEF Said
  <2>3. t # 0 /\ 0 \notin Tickets
    BY SupportAssumption
  <2>4. \A u \in Tickets \ {t} : Said(u)' = Said(u)
    BY <1>2, <1>6, <2>3 DEF Said
  <2>5. \A u \in Tickets : Said(u) \subseteq minted /\ i \notin Said(u)
    BY <1>2, <2>3 DEF Said, SupportInv, MessagesHold
  <2> QED
    BY <2>1, <2>2, <2>4, <2>5
<1>10. SupportTyped'
  <2>1. TalkerType' = TalkerType
    BY <1>3 DEF TalkerType
  <2>2. \A v \in Talkers : /\ talker'[v].at \in {"idle", "start", "post", "status", "clear"}
                           /\ talker'[v].id \in minted' \cup {0}
    BY <1>3, <1>5 DEF TalkerType
  <2>3. SupportTypeOK'
    BY <1>3, <1>6, <1>7, <2>2 DEF SupportInv, SupportTyped, SupportTypeOK
  <2> QED
    BY <1>3, <1>5, <1>8, <2>1, <2>3 DEF SupportInv, SupportTyped
<1>11. TalkersHold'
  <2>1. SUFFICES ASSUME NEW v \in Talkers
                 PROVE  LET h == talker'[v]
                        IN  /\ h.id # 0 <=> h.at \in {"start", "post"}
                            /\ h.id # 0 => message'[h.id].ticket = 0 /\ \A u \in Talkers \ {v} : talker'[u].id # h.id
                            /\ h.at = "post" => h.ticket \in Started' /\ h.from \in Authors
                            /\ h.at = "status" => h.ticket \in Started' /\ h.status \in TicketStatuses
                            /\ h.at = "clear" => \A k \in h.listed :
                                  /\ message'[k].ticket \in Started'
                                  /\ ClearOverlap \/ (ticket'[message'[k].ticket].status = "RESOLVED"
                                                      /\ ticket'[message'[k].ticket].old)
    BY DEF TalkersHold
  <2>2. CASE v = w
    BY <1>4, <1>5, <2>2
  <2>3. CASE v # w
    <3>1. talker'[v] = talker[v] /\ \A u \in Talkers : talker'[u].id \in {0, talker[u].id}
      BY <1>4, <1>5, <2>3
    <3>2. talker[v].id # 0 => talker[v].id \in Ids /\ talker[v].id # i /\ message'[talker[v].id].ticket = 0
      BY <1>2, <1>6, <2>3 DEF SupportInv, SupportTyped, SupportTypeOK, TalkersHold
    <3>3. ASSUME talker[v].at = "clear", NEW k \in talker[v].listed
          PROVE  /\ message'[k].ticket \in Started'
                 /\ ClearOverlap \/ (ticket'[message'[k].ticket].status = "RESOLVED" /\ ticket'[message'[k].ticket].old)
      <4>1. k \in Ids /\ message[k].ticket \in Started
        BY <3>3 DEF SupportInv, SupportTyped, TalkerType, TalkersHold
      <4>2. message[k].ticket \in Tickets /\ 0 \notin Tickets
        BY <4>1, SupportAssumption DEF Started
      <4>3. k # i /\ message'[k].ticket = message[k].ticket
        BY <1>2, <1>6, <4>1, <4>2
      <4>4. ClearOverlap \/ message[k].ticket # t
        BY <3>3 DEF Clearing
      <4>5. ClearOverlap \/ ticket'[message[k].ticket] = ticket[message[k].ticket]
        BY <1>7, <4>2, <4>4
      <4>6. ClearOverlap \/ (ticket[message[k].ticket].status = "RESOLVED" /\ ticket[message[k].ticket].old)
        BY <3>3 DEF SupportInv, TalkersHold
      <4> QED
        BY <1>9, <4>1, <4>3, <4>5, <4>6
    <3>4. /\ talker[v].id # 0 <=> talker[v].at \in {"start", "post"}
          /\ talker[v].id # 0 => \A u \in Talkers \ {v} : talker[u].id # talker[v].id
          /\ talker[v].at = "post" => talker[v].ticket \in Started /\ talker[v].from \in Authors
          /\ talker[v].at = "status" => talker[v].ticket \in Started /\ talker[v].status \in TicketStatuses
      BY DEF SupportInv, TalkersHold
    <3> QED
      BY <1>9, <3>1, <3>2, <3>3, <3>4
  <2> QED
    BY <2>2, <2>3
<1>12. MessagesHold'
  BY <1>2, <1>3, <1>6, <1>9 DEF SupportInv, MessagesHold
<1>13. ThreadsHold'
  <2>1. SUFFICES ASSUME NEW u \in Tickets
                 PROVE  /\ screen[u] \subseteq Said(u)'
                        /\ u \in Started' => Said(u)' # {} /\ ticket'[u].from \in Authors
                        /\ u \notin Started' => ~ticketHistory'[u].owed
                        /\ ticket'[u].status = "RESOLVED" => ticketHistory'[u].resolved
    BY <1>3 DEF ThreadsHold
  <2>2. CASE u = t
    BY <1>7, <1>8, <1>9, <2>2 DEF SupportInv, ThreadsHold
  <2>3. CASE u # t
    BY <1>7, <1>8, <1>9, <2>3 DEF SupportInv, ThreadsHold
  <2> QED
    BY <2>2, <2>3
<1>14. StillWritten'
  <2>1. SUFFICES ASSUME NEW v \in Talkers, talker'[v].id # 0, NEW j \in minted, j > talker'[v].id
                 PROVE  talker'[v].id \in message'[j].beside
    BY <1>3 DEF StillWritten
  <2>2. talker'[v] = talker[v] /\ j \in Ids
    BY <1>4, <1>5, <2>1 DEF SupportInv, SupportTyped, SupportTypeOK
  <2> QED
    BY <1>6, <2>1, <2>2 DEF SupportInv, StillWritten
<1>15. RoomIsLeft'
  <2>1. NeverResolved \subseteq Tickets /\ Opening \subseteq Talkers
    BY DEF NeverResolved, OpenTickets, Started, Opening
  <2>2. /\ IsFiniteSet(NeverResolved) /\ Cardinality(NeverResolved) \in Nat
        /\ IsFiniteSet(Opening) /\ Cardinality(Opening) \in Nat
    BY <2>1, RoomIsFinite
  <2>3. CASE talker[w].at = "start"
    <3>1. t \notin NeverResolved /\ w \in Opening
      BY <2>3 DEF NeverResolved, OpenTickets, Opening
    <3>2. NeverResolved' \subseteq NeverResolved \cup {t} /\ Opening' = Opening \ {w}
      BY <1>4, <1>5, <1>7, <1>8, <1>9 DEF NeverResolved, OpenTickets, Opening, Started
    <3>3. Cardinality(NeverResolved') <= Cardinality(NeverResolved) + 1 /\ Cardinality(NeverResolved') \in Nat
      <4>1. IsFiniteSet(NeverResolved \cup {t}) /\ Cardinality(NeverResolved \cup {t}) = Cardinality(NeverResolved) + 1
        BY <2>2, <3>1, FS_AddElement
      <4>2. Cardinality(NeverResolved') <= Cardinality(NeverResolved \cup {t}) /\ IsFiniteSet(NeverResolved')
        BY <3>2, <4>1, FS_Subset
      <4> QED
        BY <4>1, <4>2, FS_CardinalityType
    <3>4. Cardinality(Opening') = Cardinality(Opening) - 1
      BY <2>2, <3>1, <3>2, FS_RemoveElement
    <3> QED
      BY <2>2, <3>3, <3>4, RoomIsFinite, SupportAssumption DEF RoomIsLeft, SupportInv
  <2>4. CASE talker[w].at = "post"
    <3>1. Opening' = Opening
      BY <1>4, <1>5, <2>4 DEF Opening
    <3>2. NeverResolved' \subseteq NeverResolved
      <4>1. SUFFICES ASSUME NEW u \in NeverResolved' PROVE u \in NeverResolved
        OBVIOUS
      <4>2. u \in Tickets /\ u \in Started /\ ~ticketHistory[u].resolved
        BY <1>8, <1>9, <2>4 DEF NeverResolved, OpenTickets, Started
      <4>3. ticket[u].status # "RESOLVED"
        BY <4>2 DEF SupportInv, ThreadsHold
      <4> QED
        BY <4>2, <4>3 DEF NeverResolved, OpenTickets
    <3>3. Cardinality(NeverResolved') <= Cardinality(NeverResolved) /\ Cardinality(NeverResolved') \in Nat
      BY <2>2, <3>2, FS_Subset, FS_CardinalityType
    <3> QED
      BY <2>2, <3>1, <3>3, RoomIsFinite, SupportAssumption DEF RoomIsLeft, SupportInv
  <2> QED
    BY <2>3, <2>4
<1>16. MissedWereInFlight'
  <2>1. SUFFICES ASSUME NEW u \in Tickets, NEW k \in Said(u)' \ screen[u], k < LastShown(u)
                 PROVE  \E j \in screen[u] : k \in message'[j].beside
    BY <1>3 DEF MissedWereInFlight, LastShown
  <2>2. screen[u] \subseteq Said(u) /\ screen[u] \subseteq Ids /\ Said(u) \subseteq minted
    BY <1>9 DEF SupportInv, ThreadsHold, Said
  <2>3. CASE k \in Said(u)
    <3>1. PICK j \in screen[u] : k \in message[j].beside
      BY <2>1, <2>3 DEF SupportInv, MissedWereInFlight
    <3> QED
      BY <1>6, <2>2, <3>1
  <2>4. CASE k \notin Said(u)
    <3>1. k = i
      BY <1>9, <2>1, <2>4
    <3>2. LastShown(u) \in screen[u] \cup {0}
      BY <2>2, TopShown DEF LastShown
    <3>3. LastShown(u) \in screen[u] /\ LastShown(u) > i
      BY <1>2, <2>1, <3>1, <3>2, IdsAreFinite
    <3>4. i \in message[LastShown(u)].beside
      BY <1>1, <1>2, <2>2, <3>3 DEF SupportInv, StillWritten
    <3> QED
      BY <1>6, <2>2, <3>1, <3>3, <3>4
  <2> QED
    BY <2>3, <2>4
<1>17. PreviewIsTheLast'
  <2>1. SUFFICES ASSUME NEW u \in Started'
                 PROVE  \/ ticket'[u].from = message'[Max(Said(u)')].from
                        \/ \E k \in Said(u)' : k \in message'[Max(Said(u)')].beside
    BY DEF PreviewIsTheLast
  <2>2. u \in Tickets /\ Said(u) \subseteq Ids
    BY <1>9 DEF Started, Said
  <2>3. CASE u # t
    <3>1. Said(u)' = Said(u) /\ ticket'[u] = ticket[u] /\ u \in Started
      BY <1>7, <1>9, <2>1, <2>2, <2>3
    <3>2. Said(u) # {}
      BY <2>2, <3>1 DEF SupportInv, ThreadsHold
    <3>3. Max(Said(u)) \in Ids /\ Max(Said(u)) # i
      BY <1>9, <2>2, <3>2, TopSaid
    <3>4. \/ ticket[u].from = message[Max(Said(u))].from
          \/ \E k \in Said(u) : k \in message[Max(Said(u))].beside
      BY <3>1 DEF SupportInv, PreviewIsTheLast
    <3> QED
      BY <1>6, <3>1, <3>3, <3>4
  <2>4. CASE u = t
    <3>1. Said(u)' = Said(t) \cup {i} /\ Said(t) \cup {i} \in SUBSET Ids
      BY <1>2, <1>9, <2>2, <2>4
    <3>2. PICK m : m = Max(Said(u)')
      OBVIOUS
    <3>3. m \in Said(t) \cup {i} /\ i <= m
      BY <3>1, <3>2, TopSaid
    <3>4. CASE m = i
      BY <1>2, <1>6, <1>7, <2>4, <3>2, <3>4
    <3>5. CASE m # i
      <4>1. m \in Ids /\ m \in minted /\ m > i
        BY <1>2, <1>9, <3>1, <3>3, <3>5, IdsAreFinite
      <4>2. i \in message[m].beside
        BY <1>1, <1>2, <4>1 DEF SupportInv, StillWritten
      <4> QED
        BY <1>6, <3>1, <3>2, <4>1, <4>2
    <3> QED
      BY <3>4, <3>5
  <2> QED
    BY <2>3, <2>4
<1>18. UnansweredIsAwaited'
  <2>1. SUFFICES ASSUME NEW u \in Tickets, ticketHistory'[u].owed
                 PROVE  ticket'[u].status # "RESOLVED" /\ ticket'[u].from = "CUSTOMER"
    BY DEF UnansweredIsAwaited, Awaiting
  <2> QED
    BY <1>7, <1>8, <2>1 DEF SupportInv, UnansweredIsAwaited, Awaiting
<1> QED
  BY <1>10, <1>11, <1>12, <1>13, <1>14, <1>15, <1>16, <1>17, <1>18 DEF SupportInv

\* What only reads, sets a status or clears words leaves the threads as they are told.
LEMMA ThreadsStay ==
    ASSUME SupportInv,
           \A j \in Ids : /\ message'[j].ticket = message[j].ticket /\ message'[j].from = message[j].from
                          /\ message'[j].beside = message[j].beside,
           \A t \in Tickets : /\ ticket'[t].status # "none" <=> ticket[t].status # "none"
                              /\ ticket'[t].from = ticket[t].from,
           \A v \in Talkers : talker'[v].id = talker[v].id,
           UNCHANGED <<minted, screen>>
    PROVE  /\ Started' = Started /\ \A t \in Tickets : Said(t)' = Said(t)
           /\ MissedWereInFlight' /\ PreviewIsTheLast' /\ StillWritten'
<1>1. Started' = Started /\ \A t \in Tickets : Said(t)' = Said(t)
  BY DEF Started, Said
<1>2. MissedWereInFlight'
  <2>1. SUFFICES ASSUME NEW t \in Tickets, NEW k \in Said(t) \ screen[t], k < LastShown(t)
                 PROVE  \E j \in screen[t] : k \in message'[j].beside
    BY <1>1 DEF MissedWereInFlight, LastShown
  <2>2. PICK j \in screen[t] : k \in message[j].beside
    BY <2>1 DEF SupportInv, MissedWereInFlight
  <2>3. j \in Ids
    BY DEF SupportInv, ThreadsHold, Said
  <2> QED
    BY <2>2, <2>3
<1>3. PreviewIsTheLast'
  <2>1. SUFFICES ASSUME NEW t \in Started
                 PROVE  \/ ticket'[t].from = message'[Max(Said(t))].from
                        \/ \E k \in Said(t) : k \in message'[Max(Said(t))].beside
    BY <1>1 DEF PreviewIsTheLast, Started
  <2>2. t \in Tickets /\ Said(t) \in SUBSET Ids /\ Said(t) # {}
    BY DEF Started, Said, SupportInv, ThreadsHold
  <2>3. Max(Said(t)) \in Ids
    BY <2>2, TopSaid
  <2>4. \/ ticket[t].from = message[Max(Said(t))].from
        \/ \E k \in Said(t) : k \in message[Max(Said(t))].beside
    BY DEF SupportInv, PreviewIsTheLast
  <2> QED
    BY <2>2, <2>3, <2>4
<1>4. StillWritten'
  BY DEF StillWritten, SupportInv, SupportTyped, SupportTypeOK
<1> QED
  BY <1>1, <1>2, <1>3, <1>4

\* A talker that writes no message takes up, or is done with, what it does.
LEMMA TalkerTurned ==
    ASSUME SupportInv, NEW w \in Talkers, talker[w].at \notin {"start", "post"}, NEW r \in TalkerType,
           r.id = 0, r.at \in {"idle", "status", "clear"}, talker' = [talker EXCEPT ![w] = r], UNCHANGED minted
    PROVE  /\ talker' \in [Talkers -> TalkerType] /\ TalkerType' = TalkerType
           /\ \A v \in Talkers : talker'[v] = IF v = w THEN r ELSE talker[v]
           /\ \A v \in Talkers : talker'[v].id = talker[v].id
           /\ Opening' = Opening
<1>1. talker \in [Talkers -> TalkerType] /\ talker[w].id = 0
  BY DEF SupportInv, SupportTyped, TalkersHold
<1>2. talker' \in [Talkers -> TalkerType] /\ \A v \in Talkers : talker'[v] = IF v = w THEN r ELSE talker[v]
  BY <1>1
<1>3. TalkerType' = TalkerType
  BY DEF TalkerType
<1>4. Opening' = Opening
  BY <1>2 DEF Opening
<1> QED
  BY <1>1, <1>2, <1>3, <1>4

LEMMA TalkerTook ==
    ASSUME SupportInv, NEW w \in Talkers, talker[w] = Quiet, NEW r \in TalkerType,
           r.id = 0, r.at \in {"status", "clear"}, talker' = [talker EXCEPT ![w] = r],
           r.at = "status" => r.ticket \in Started /\ r.status \in TicketStatuses,
           r.at = "clear" => \A i \in r.listed : /\ message[i].ticket \in Started
                                                 /\ ticket[message[i].ticket].status = "RESOLVED"
                                                 /\ ticket[message[i].ticket].old,
           UNCHANGED <<ticket, message, minted, screen, ticketHistory>>, moves' \in 0..MostMoves
    PROVE  SupportInv'
<1>1. talker[w].at = "idle"
  BY DEF Quiet
<1>2. /\ talker' \in [Talkers -> TalkerType] /\ TalkerType' = TalkerType
      /\ \A v \in Talkers : talker'[v] = IF v = w THEN r ELSE talker[v]
      /\ \A v \in Talkers : talker'[v].id = talker[v].id
      /\ Opening' = Opening
  BY <1>1, TalkerTurned
<1>3. /\ Started' = Started /\ \A t \in Tickets : Said(t)' = Said(t)
      /\ MissedWereInFlight' /\ PreviewIsTheLast' /\ StillWritten'
  BY <1>2, ThreadsStay
<1>4. SupportTyped'
  <2>1. \A v \in Talkers : /\ talker'[v].at \in {"idle", "start", "post", "status", "clear"}
                           /\ talker'[v].id \in minted' \cup {0}
    BY <1>2 DEF TalkerType
  <2>2. SupportTypeOK'
    BY <2>1 DEF SupportInv, SupportTyped, SupportTypeOK
  <2> QED
    BY <1>2, <2>2 DEF SupportInv, SupportTyped
<1>5. TalkersHold'
  <2>1. \A v \in Talkers : talker'[v].id # 0 =>
            message[talker'[v].id].ticket = 0 /\ \A u \in Talkers \ {v} : talker'[u].id # talker'[v].id
    BY <1>2 DEF SupportInv, TalkersHold
  <2>2. \A v \in Talkers : talker'[v].id # 0 <=> talker'[v].at \in {"start", "post"}
    BY <1>2 DEF SupportInv, TalkersHold
  <2>3. \A v \in Talkers :
            /\ talker'[v].at = "post" => talker'[v].ticket \in Started /\ talker'[v].from \in Authors
            /\ talker'[v].at = "status" => talker'[v].ticket \in Started /\ talker'[v].status \in TicketStatuses
    BY <1>2 DEF SupportInv, TalkersHold
  <2>4. \A v \in Talkers : talker'[v].at = "clear" => \A i \in talker'[v].listed :
            /\ message[i].ticket \in Started
            /\ ClearOverlap \/ (ticket[message[i].ticket].status = "RESOLVED" /\ ticket[message[i].ticket].old)
    BY <1>2 DEF SupportInv, TalkersHold
  <2> QED
    BY <1>3, <2>1, <2>2, <2>3, <2>4 DEF TalkersHold
<1>6. MessagesHold' /\ ThreadsHold'
  BY <1>3 DEF SupportInv, MessagesHold, ThreadsHold
<1>7. RoomIsLeft'
  BY <1>2, <1>3 DEF SupportInv, RoomIsLeft, NeverResolved, OpenTickets
<1>8. UnansweredIsAwaited'
  BY DEF SupportInv, UnansweredIsAwaited, Awaiting
<1> QED
  BY <1>3, <1>4, <1>5, <1>6, <1>7, <1>8 DEF SupportInv

LEMMA StatusBegun ==
    ASSUME SupportInv, NEW w \in Talkers, NEW t \in Tickets, NEW status \in TicketStatuses, OpenStatus(w, t, status)
    PROVE  SupportInv'
<1> DEFINE r == [Quiet EXCEPT !.at = "status", !.ticket = t, !.status = status]
<1>1. r \in TalkerType /\ r.id = 0 /\ r.at = "status" /\ r.ticket = t /\ r.status = status
  BY DEF Quiet, TalkerType
<1>2. moves' \in 0..MostMoves
  BY SupportAssumption DEF OpenStatus, SupportInv, SupportTyped, SupportTypeOK
<1>3. /\ talker[w] = Quiet /\ t \in Started /\ talker' = [talker EXCEPT ![w] = r]
      /\ UNCHANGED <<ticket, message, minted, screen, ticketHistory>>
  BY DEF OpenStatus
<1> HIDE DEF r
<1> QED
  BY <1>1, <1>2, <1>3, TalkerTook

LEMMA ClosedListed ==
    ASSUME SupportInv, NEW w \in Talkers, ListClosed(w)
    PROVE  SupportInv'
<1> DEFINE r == [Quiet EXCEPT !.at = "clear", !.listed = ClosedLongAgo]
<1>1. ClosedLongAgo \in SUBSET Ids
  BY DEF ClosedLongAgo
<1>2. r \in TalkerType /\ r.id = 0 /\ r.at = "clear" /\ r.listed = ClosedLongAgo
  BY <1>1 DEF Quiet, TalkerType
<1>3. \A i \in ClosedLongAgo : /\ message[i].ticket \in Started
                               /\ ticket[message[i].ticket].status = "RESOLVED" /\ ticket[message[i].ticket].old
  BY DEF ClosedLongAgo, SupportInv, MessagesHold
<1>4. /\ talker[w] = Quiet /\ talker' = [talker EXCEPT ![w] = r] /\ moves' \in 0..MostMoves
      /\ UNCHANGED <<ticket, message, minted, screen, ticketHistory>>
  BY DEF ListClosed, SupportInv, SupportTyped, SupportTypeOK
<1> HIDE DEF r
<1> QED
  BY <1>2, <1>3, <1>4, TalkerTook

LEMMA StatusSet ==
    ASSUME SupportInv, NEW w \in Talkers, CommitStatus(w)
    PROVE  SupportInv'
<1>1. PICK t, status : t = talker[w].ticket /\ status = talker[w].status
  OBVIOUS
<1>2. /\ talker[w].at = "status" /\ (ClearOverlap \/ ~Clearing(t))
      /\ ticket' = [ticket EXCEPT ![t].status = status]
      /\ ticketHistory' = [ticketHistory EXCEPT ![t].resolved = @ \/ status = "RESOLVED",
                                                ![t].owed = @ /\ status # "RESOLVED"]
      /\ talker' = [talker EXCEPT ![w] = Quiet]
      /\ UNCHANGED <<message, minted, screen, moves>>
  BY <1>1 DEF CommitStatus
<1>3. t \in Started /\ t \in Tickets /\ status \in TicketStatuses
  BY <1>1, <1>2 DEF SupportInv, TalkersHold, Started
<1>4. Quiet \in TalkerType /\ Quiet.id = 0 /\ Quiet.at = "idle"
  BY DEF Quiet, TalkerType
<1>5. /\ talker' \in [Talkers -> TalkerType] /\ TalkerType' = TalkerType
      /\ \A v \in Talkers : talker'[v] = IF v = w THEN Quiet ELSE talker[v]
      /\ \A v \in Talkers : talker'[v].id = talker[v].id
      /\ Opening' = Opening
  BY <1>2, <1>4, TalkerTurned
<1>6. /\ ticket' \in [Tickets -> [status : TicketStatuses \cup {"none"}, from : Authors \cup {"none"}, old : BOOLEAN]]
      /\ \A u \in Tickets : /\ ticket'[u].from = ticket[u].from /\ ticket'[u].old = ticket[u].old
                            /\ ticket'[u].status = IF u = t THEN status ELSE ticket[u].status
  BY <1>2, <1>3 DEF SupportInv, SupportTyped, SupportTypeOK
<1>7. /\ ticketHistory' \in [Tickets -> [resolved : BOOLEAN, owed : BOOLEAN]]
      /\ \A u \in Tickets : /\ ticketHistory'[u].resolved <=> ticketHistory[u].resolved \/ (u = t /\ status = "RESOLVED")
                            /\ ticketHistory'[u].owed <=> ticketHistory[u].owed /\ ~(u = t /\ status = "RESOLVED")
  <2> DEFINE one == [ticketHistory EXCEPT ![t].resolved = @ \/ status = "RESOLVED"]
  <2>1. ticketHistory \in [Tickets -> [resolved : BOOLEAN, owed : BOOLEAN]]
    BY DEF SupportInv, SupportTyped
  <2>2. /\ one \in [Tickets -> [resolved : BOOLEAN, owed : BOOLEAN]]
        /\ \A u \in Tickets : /\ one[u].resolved <=> ticketHistory[u].resolved \/ (u = t /\ status = "RESOLVED")
                              /\ one[u].owed = ticketHistory[u].owed
    BY <1>3, <2>1
  <2>3. ticketHistory' = [one EXCEPT ![t].owed = @ /\ status # "RESOLVED"]
    BY <1>2
  <2> HIDE DEF one
  <2> QED
    BY <1>3, <2>2, <2>3
<1>8. \A u \in Tickets : ticket'[u].status # "none" <=> ticket[u].status # "none"
  BY <1>3, <1>6 DEF Started, TicketStatuses
<1>9. /\ Started' = Started /\ \A u \in Tickets : Said(u)' = Said(u)
      /\ MissedWereInFlight' /\ PreviewIsTheLast' /\ StillWritten'
  BY <1>2, <1>5, <1>6, <1>8, ThreadsStay
<1>10. SupportTyped'
  <2>1. \A v \in Talkers : /\ talker'[v].at \in {"idle", "start", "post", "status", "clear"}
                           /\ talker'[v].id \in minted' \cup {0}
    BY <1>2, <1>5 DEF TalkerType
  <2>2. SupportTypeOK'
    BY <1>2, <1>6, <2>1 DEF SupportInv, SupportTyped, SupportTypeOK
  <2> QED
    BY <1>2, <1>5, <1>7, <2>2 DEF SupportInv, SupportTyped
<1>11. TalkersHold'
  <2>1. \A v \in Talkers : talker'[v].id # 0 =>
            message[talker'[v].id].ticket = 0 /\ \A u \in Talkers \ {v} : talker'[u].id # talker'[v].id
    BY <1>5 DEF SupportInv, TalkersHold
  <2>2. \A v \in Talkers : talker'[v].id # 0 <=> talker'[v].at \in {"start", "post"}
    BY <1>4, <1>5 DEF SupportInv, TalkersHold
  <2>3. \A v \in Talkers :
            /\ talker'[v].at = "post" => talker'[v].ticket \in Started /\ talker'[v].from \in Authors
            /\ talker'[v].at = "status" => talker'[v].ticket \in Started /\ talker'[v].status \in TicketStatuses
    BY <1>4, <1>5 DEF SupportInv, TalkersHold
  <2>4. ASSUME NEW v \in Talkers, talker'[v].at = "clear", NEW i \in talker'[v].listed
        PROVE  /\ message[i].ticket \in Started
               /\ ClearOverlap \/ (ticket'[message[i].ticket].status = "RESOLVED" /\ ticket'[message[i].ticket].old)
    <3>1. talker'[v] = talker[v]
      BY <1>4, <1>5, <2>4
    <3>2. /\ message[i].ticket \in Started
          /\ ClearOverlap \/ (ticket[message[i].ticket].status = "RESOLVED" /\ ticket[message[i].ticket].old)
      BY <2>4, <3>1 DEF SupportInv, TalkersHold
    <3>3. ClearOverlap \/ message[i].ticket # t
      BY <1>2, <2>4, <3>1 DEF Clearing
    <3> QED
      BY <1>6, <3>2, <3>3 DEF Started
  <2> QED
    BY <1>2, <1>9, <2>1, <2>2, <2>3, <2>4 DEF TalkersHold
<1>12. MessagesHold'
  BY <1>2, <1>9 DEF SupportInv, MessagesHold
<1>13. ThreadsHold'
  BY <1>2, <1>3, <1>6, <1>7, <1>9 DEF SupportInv, ThreadsHold
<1>14. RoomIsLeft'
  <2>1. NeverResolved' \subseteq NeverResolved
    <3>1. SUFFICES ASSUME NEW u \in NeverResolved' PROVE u \in NeverResolved
      OBVIOUS
    <3>2. u \in Tickets /\ u \in Started /\ ~ticketHistory[u].resolved
      BY <1>7, <1>9 DEF NeverResolved, OpenTickets, Started
    <3>3. ticket[u].status # "RESOLVED"
      BY <3>2 DEF SupportInv, ThreadsHold
    <3> QED
      BY <3>2, <3>3 DEF NeverResolved, OpenTickets
  <2>2. NeverResolved \subseteq Tickets /\ Opening \subseteq Talkers
    BY DEF NeverResolved, OpenTickets, Started, Opening
  <2>3. /\ IsFiniteSet(NeverResolved) /\ Cardinality(NeverResolved) \in Nat /\ Cardinality(Opening) \in Nat
    BY <2>2, RoomIsFinite
  <2>4. Cardinality(NeverResolved') <= Cardinality(NeverResolved) /\ Cardinality(NeverResolved') \in Nat
    BY <2>1, <2>3, FS_Subset, FS_CardinalityType
  <2> QED
    BY <1>5, <2>3, <2>4, RoomIsFinite, SupportAssumption DEF RoomIsLeft, SupportInv
<1>15. UnansweredIsAwaited'
  BY <1>3, <1>6, <1>7 DEF SupportInv, UnansweredIsAwaited, Awaiting
<1> QED
  BY <1>9, <1>10, <1>11, <1>12, <1>13, <1>14, <1>15 DEF SupportInv

LEMMA ThreadPolled ==
    ASSUME SupportInv, NEW t \in Tickets, Poll(t)
    PROVE  SupportInv'
<1> DEFINE fresh == {i \in Said(t) : i > LastShown(t)}
<1>1. /\ screen' = [screen EXCEPT ![t] = @ \cup fresh]
      /\ UNCHANGED <<ticket, message, minted, talker, moves, ticketHistory>>
  BY DEF Poll
<1>2. screen \in [Tickets -> SUBSET Ids] /\ fresh \subseteq Said(t) /\ Said(t) \subseteq Ids
  BY DEF SupportInv, SupportTyped, SupportTypeOK, Said
<1>3. /\ screen' \in [Tickets -> SUBSET Ids]
      /\ \A u \in Tickets : screen'[u] = IF u = t THEN screen[t] \cup fresh ELSE screen[u]
  <2> HIDE DEF fresh
  <2> QED
    BY <1>1, <1>2
<1>4. Started' = Started /\ TalkerType' = TalkerType /\ \A u \in Tickets : Said(u)' = Said(u)
  BY <1>1 DEF Started, Said, TalkerType
<1>5. SupportTyped'
  BY <1>1, <1>3, <1>4 DEF SupportInv, SupportTyped, SupportTypeOK
<1>6. TalkersHold' /\ MessagesHold' /\ StillWritten' /\ RoomIsLeft' /\ UnansweredIsAwaited'
  BY <1>1, <1>4 DEF SupportInv, TalkersHold, MessagesHold, StillWritten, RoomIsLeft, NeverResolved, OpenTickets, Opening,
                    UnansweredIsAwaited, Awaiting
<1>7. ThreadsHold'
  BY <1>1, <1>2, <1>3, <1>4 DEF SupportInv, ThreadsHold
<1>8. PreviewIsTheLast'
  BY <1>1, <1>4 DEF SupportInv, PreviewIsTheLast, Started
<1>9. MissedWereInFlight'
  <2>1. SUFFICES ASSUME NEW u \in Tickets, NEW k \in Said(u) \ screen'[u], k < Max(screen'[u] \cup {0})
                 PROVE  \E j \in screen'[u] : k \in message[j].beside
    BY <1>1, <1>4 DEF MissedWereInFlight, LastShown
  <2>2. CASE u # t
    <3>1. screen'[u] = screen[u]
      BY <1>3, <2>2
    <3> QED
      BY <2>1, <3>1 DEF SupportInv, MissedWereInFlight, LastShown
  <2>3. CASE u = t
    <3>1. screen'[t] = screen[t] \cup fresh /\ screen[t] \in SUBSET Ids
      BY <1>2, <1>3
    <3>2. k \in Said(t) \ screen[t] /\ k \notin fresh /\ k \in Nat \ {0}
      BY <1>2, <2>1, <2>3, <3>1, IdsAreFinite
    <3>3. LastShown(t) \in screen[t] \cup {0} /\ LastShown(t) \in Nat
      <4>1. PICK top : top = Max(screen[t] \cup {0})
        OBVIOUS
      <4>2. top \in screen[t] \cup {0}
        BY <3>1, <4>1, TopShown
      <4>3. top \in Nat
        <5>1. \A x \in Ids \cup {0} : x \in Nat
          BY IdsAreFinite
        <5> QED
          BY <3>1, <4>2, <5>1
      <4> QED
        BY <4>1, <4>2, <4>3 DEF LastShown
    <3>4. k < LastShown(t)
      BY <3>2, <3>3
    <3>5. PICK j \in screen[t] : k \in message[j].beside
      BY <3>2, <3>4 DEF SupportInv, MissedWereInFlight
    <3> QED
      BY <2>3, <3>1, <3>5
  <2> QED
    BY <2>2, <2>3
<1> QED
  BY <1>5, <1>6, <1>7, <1>8, <1>9 DEF SupportInv

LEMMA TicketAged ==
    ASSUME SupportInv, NEW t \in Tickets, GrowOld(t)
    PROVE  SupportInv'
<1>1. /\ ticket' = [ticket EXCEPT ![t].old = TRUE] /\ moves < MostMoves /\ moves' = moves + 1
      /\ UNCHANGED <<message, minted, talker, screen, ticketHistory>>
  BY DEF GrowOld
<1>2. /\ ticket' \in [Tickets -> [status : TicketStatuses \cup {"none"}, from : Authors \cup {"none"}, old : BOOLEAN]]
      /\ \A u \in Tickets : /\ ticket'[u].from = ticket[u].from /\ ticket'[u].status = ticket[u].status
                            /\ ticket'[u].old <=> ticket[u].old \/ u = t
  <2>1. ticket \in [Tickets -> [status : TicketStatuses \cup {"none"}, from : Authors \cup {"none"}, old : BOOLEAN]]
    BY DEF SupportInv, SupportTyped, SupportTypeOK
  <2>2. PICK x, y : x = ticket[t] /\ y = [x EXCEPT !.old = TRUE]
    OBVIOUS
  <2>3. x \in [status : TicketStatuses \cup {"none"}, from : Authors \cup {"none"}, old : BOOLEAN]
    BY <2>1, <2>2
  <2>4. /\ y \in [status : TicketStatuses \cup {"none"}, from : Authors \cup {"none"}, old : BOOLEAN]
        /\ y.status = x.status /\ y.from = x.from /\ y.old
    BY <2>2, <2>3
  <2>5. ticket' = [ticket EXCEPT ![t] = y]
    BY <1>1, <2>1, <2>2
  <2> QED
    BY <2>1, <2>2, <2>4, <2>5
<1>3. /\ Started' = Started /\ \A u \in Tickets : Said(u)' = Said(u)
      /\ MissedWereInFlight' /\ PreviewIsTheLast' /\ StillWritten'
  BY <1>1, <1>2, ThreadsStay
<1>4. SupportTyped'
  <2>1. moves' \in 0..MostMoves
    BY <1>1, SupportAssumption DEF SupportInv, SupportTyped, SupportTypeOK
  <2>2. TalkerType' = TalkerType
    BY <1>1 DEF TalkerType
  <2> QED
    BY <1>1, <1>2, <2>1, <2>2 DEF SupportInv, SupportTyped, SupportTypeOK
<1>5. TalkersHold'
  BY <1>1, <1>2, <1>3 DEF SupportInv, TalkersHold, Started
<1>6. MessagesHold' /\ ThreadsHold'
  BY <1>1, <1>2, <1>3 DEF SupportInv, MessagesHold, ThreadsHold
<1>7. RoomIsLeft'
  <2>1. NeverResolved' = NeverResolved /\ Opening' = Opening
    BY <1>1, <1>2, <1>3 DEF NeverResolved, OpenTickets, Opening, Started
  <2> QED
    BY <2>1 DEF SupportInv, RoomIsLeft
<1>8. UnansweredIsAwaited'
  BY <1>1, <1>2 DEF SupportInv, UnansweredIsAwaited, Awaiting
<1> QED
  BY <1>3, <1>4, <1>5, <1>6, <1>7, <1>8 DEF SupportInv

\* What retention clears.
LEMMA ClearedWords ==
    ASSUME SupportInv, NEW w \in Talkers, ClearListed(w)
    PROVE  /\ message' \in [Ids -> [ticket : Tickets \cup {0}, from : Authors \cup {"none"}, text : BOOLEAN, beside : SUBSET Ids]]
           /\ \A j \in Ids : /\ message'[j].ticket = message[j].ticket /\ message'[j].from = message[j].from
                             /\ message'[j].beside = message[j].beside
                             /\ message'[j].text <=> message[j].text /\ j \notin talker[w].listed
<1>1. message \in [Ids -> [ticket : Tickets \cup {0}, from : Authors \cup {"none"}, text : BOOLEAN, beside : SUBSET Ids]]
  BY DEF SupportInv, SupportTyped, SupportTypeOK
<1>2. message' = [i \in Ids |-> IF i \in talker[w].listed THEN [message[i] EXCEPT !.text = FALSE] ELSE message[i]]
  BY DEF ClearListed
<1>3. \A j \in Ids : message'[j] = IF j \in talker[w].listed THEN [message[j] EXCEPT !.text = FALSE] ELSE message[j]
  BY <1>2
<1>4. \A j \in Ids : /\ message'[j].ticket = message[j].ticket /\ message'[j].from = message[j].from
                     /\ message'[j].beside = message[j].beside
                     /\ message'[j].text = IF j \in talker[w].listed THEN FALSE ELSE message[j].text
                     /\ message'[j] \in [ticket : Tickets \cup {0}, from : Authors \cup {"none"}, text : BOOLEAN,
                                         beside : SUBSET Ids]
  BY <1>1, <1>3
<1> QED
  BY <1>1, <1>2, <1>4

LEMMA ListedCleared ==
    ASSUME SupportInv, NEW w \in Talkers, ClearListed(w)
    PROVE  SupportInv'
<1>1. /\ talker[w].at = "clear" /\ talker' = [talker EXCEPT ![w] = Quiet]
      /\ UNCHANGED <<ticket, minted, screen, moves, ticketHistory>>
  BY DEF ClearListed
<1>2. Quiet \in TalkerType /\ Quiet.id = 0 /\ Quiet.at = "idle"
  BY DEF Quiet, TalkerType
<1>3. /\ talker' \in [Talkers -> TalkerType] /\ TalkerType' = TalkerType
      /\ \A v \in Talkers : talker'[v] = IF v = w THEN Quiet ELSE talker[v]
      /\ \A v \in Talkers : talker'[v].id = talker[v].id
      /\ Opening' = Opening
  BY <1>1, <1>2, TalkerTurned
<1>4. /\ Started' = Started /\ \A u \in Tickets : Said(u)' = Said(u)
      /\ MissedWereInFlight' /\ PreviewIsTheLast' /\ StillWritten'
  BY <1>1, <1>3, ClearedWords, ThreadsStay
<1>5. SupportTyped'
  <2>1. \A v \in Talkers : /\ talker'[v].at \in {"idle", "start", "post", "status", "clear"}
                           /\ talker'[v].id \in minted' \cup {0}
    BY <1>1, <1>3 DEF TalkerType
  <2>2. SupportTypeOK'
    BY <1>1, <2>1, ClearedWords DEF SupportInv, SupportTyped, SupportTypeOK
  <2> QED
    BY <1>1, <1>3, <2>2 DEF SupportInv, SupportTyped
<1>6. TalkersHold'
  <2>0. \A v \in Talkers : talker[v].id \in Ids \cup {0} /\ talker[v].listed \subseteq Ids
    BY DEF SupportInv, SupportTyped, SupportTypeOK, TalkerType
  <2>1. \A v \in Talkers : talker'[v].id # 0 =>
            message'[talker'[v].id].ticket = 0 /\ \A u \in Talkers \ {v} : talker'[u].id # talker'[v].id
    BY <1>3, <2>0, ClearedWords DEF SupportInv, TalkersHold
  <2>2. \A v \in Talkers : talker'[v].id # 0 <=> talker'[v].at \in {"start", "post"}
    BY <1>2, <1>3 DEF SupportInv, TalkersHold
  <2>3. \A v \in Talkers :
            /\ talker'[v].at = "post" => talker'[v].ticket \in Started /\ talker'[v].from \in Authors
            /\ talker'[v].at = "status" => talker'[v].ticket \in Started /\ talker'[v].status \in TicketStatuses
    BY <1>2, <1>3 DEF SupportInv, TalkersHold
  <2>4. ASSUME NEW v \in Talkers, talker'[v].at = "clear", NEW i \in talker'[v].listed
        PROVE  /\ message'[i].ticket \in Started
               /\ ClearOverlap \/ (ticket[message'[i].ticket].status = "RESOLVED" /\ ticket[message'[i].ticket].old)
    <3>1. talker'[v] = talker[v]
      BY <1>2, <1>3, <2>4
    <3>2. message'[i].ticket = message[i].ticket
      BY <2>0, <2>4, <3>1, ClearedWords
    <3> QED
      BY <2>4, <3>1, <3>2 DEF SupportInv, TalkersHold
  <2> QED
    BY <1>1, <1>4, <2>1, <2>2, <2>3, <2>4 DEF TalkersHold
<1>7. MessagesHold'
  BY <1>1, <1>4, ClearedWords DEF SupportInv, MessagesHold
<1>8. ThreadsHold'
  BY <1>1, <1>4 DEF SupportInv, ThreadsHold
<1>9. RoomIsLeft' /\ UnansweredIsAwaited'
  BY <1>1, <1>3, <1>4 DEF SupportInv, RoomIsLeft, NeverResolved, OpenTickets, UnansweredIsAwaited, Awaiting
<1> QED
  BY <1>4, <1>5, <1>6, <1>7, <1>8, <1>9 DEF SupportInv

LEMMA SupportStep ==
    ASSUME SupportInv, SupportNext \/ UNCHANGED supportVars
    PROVE  SupportInv'
<1>1. ASSUME NEW w \in Talkers, OpenStart(w) PROVE SupportInv'
  <2> DEFINE record == [Quiet EXCEPT !.at = "start"]
  <2>1. /\ record = [at |-> "start", ticket |-> 0, from |-> "none", id |-> 0, status |-> "none", listed |-> {}]
        /\ Begin(w, record) /\ Cardinality(OpenTickets) < OpenCap
    BY <1>1 DEF OpenStart, Quiet
  <2>2. record.at = "start" /\ record.ticket = 0 /\ record.from = "none"
    BY <2>1
  <2> HIDE DEF record
  <2> QED
    BY <2>1, <2>2, MessageBegun
<1>2. ASSUME NEW w \in Talkers, NEW t \in Tickets, NEW from \in Authors, OpenPost(w, t, from) PROVE SupportInv'
  <2> DEFINE record == [Quiet EXCEPT !.at = "post", !.ticket = t, !.from = from]
  <2>1. /\ record = [at |-> "post", ticket |-> t, from |-> from, id |-> 0, status |-> "none", listed |-> {}]
        /\ Begin(w, record) /\ t \in Started
    <3>1. Begin(w, record) /\ t \in Started
      BY <1>2 DEF OpenPost
    <3>2. Quiet = [at |-> "idle", ticket |-> 0, from |-> "none", id |-> 0, status |-> "none", listed |-> {}]
      BY DEF Quiet
    <3>3. PICK q : q = [at |-> "idle", ticket |-> 0, from |-> "none", id |-> 0, status |-> "none", listed |-> {}]
      OBVIOUS
    <3>4. record = [at |-> "post", ticket |-> t, from |-> from, id |-> 0, status |-> "none", listed |-> {}]
      <4>1. record = [q EXCEPT !.at = "post", !.ticket = t, !.from = from]
        BY <3>2, <3>3
      <4> HIDE DEF record
      <4> QED
        BY <3>3, <4>1
    <3> QED
      BY <3>1, <3>4
  <2>2. record.at = "post" /\ record.ticket = t /\ record.from = from
    BY <2>1
  <2> HIDE DEF record
  <2> QED
    BY <2>1, <2>2, MessageBegun
<1>3. ASSUME NEW w \in Talkers, CommitStart(w) PROVE SupportInv'
  <2>1. PICK t \in Tickets \ Started : /\ talker[w].at = "start" /\ Landed(w, t, "CUSTOMER", "OPEN")
                                       /\ ticketHistory' = [ticketHistory EXCEPT ![t].owed = TRUE]
    BY <1>3 DEF CommitStart
  <2>2. ~Clearing(t)
    BY <2>1 DEF Clearing, SupportInv, TalkersHold
  <2>3. ticketHistory' = [ticketHistory EXCEPT ![t].owed = "CUSTOMER" = "CUSTOMER"]
    BY <2>1
  <2> QED
    BY <2>1, <2>2, <2>3, MessageLanded DEF Authors
<1>4. ASSUME NEW w \in Talkers, CommitPost(w) PROVE SupportInv'
  <2>1. PICK t, from : t = talker[w].ticket /\ from = talker[w].from
    OBVIOUS
  <2>2. /\ talker[w].at = "post" /\ (ClearOverlap \/ ~Clearing(t)) /\ Landed(w, t, from, AfterPost(t, from))
        /\ ticketHistory' = [ticketHistory EXCEPT ![t].owed = from = "CUSTOMER"]
    BY <1>4, <2>1 DEF CommitPost
  <2>3. t \in Started /\ t \in Tickets /\ from \in Authors
    BY <2>1, <2>2 DEF SupportInv, TalkersHold, Started
  <2>4. AfterPost(t, from) \in {"OPEN", "WAITING_ON_CUSTOMER"}
    BY DEF AfterPost
  <2> QED
    BY <2>2, <2>3, <2>4, MessageLanded
<1>5. ASSUME UNCHANGED supportVars PROVE SupportInv'
  <2>1. UNCHANGED <<ticket, message, minted, talker, screen, moves, ticketHistory>>
    BY <1>5 DEF supportVars
  <2>2. Started' = Started /\ TalkerType' = TalkerType /\ \A u \in Tickets : Said(u)' = Said(u)
    BY <2>1 DEF Started, Said, TalkerType
  <2>3. SupportTyped' /\ TalkersHold' /\ MessagesHold' /\ StillWritten' /\ RoomIsLeft' /\ UnansweredIsAwaited'
    BY <2>1, <2>2 DEF SupportInv, SupportTyped, SupportTypeOK, TalkersHold, MessagesHold, StillWritten, RoomIsLeft,
                      NeverResolved, OpenTickets, Opening, UnansweredIsAwaited, Awaiting
  <2>4. ThreadsHold' /\ PreviewIsTheLast' /\ MissedWereInFlight'
    BY <2>1, <2>2 DEF SupportInv, ThreadsHold, PreviewIsTheLast, MissedWereInFlight, LastShown, Started
  <2> QED
    BY <2>3, <2>4 DEF SupportInv
<1> QED
  BY <1>1, <1>2, <1>3, <1>4, <1>5, StatusBegun, StatusSet, ClosedListed, ListedCleared, ThreadPolled, TicketAged
     DEF SupportNext

\* Only retention takes words, those of closed and old conversations.
LEMMA WordsTaken ==
    ASSUME SupportInv, ~ClearOverlap, SupportNext, NEW i \in Ids, message[i].text, ~message'[i].text
    PROVE  ticket[message[i].ticket].status = "RESOLVED" /\ ticket[message[i].ticket].old
<1>0. message \in [Ids -> [ticket : Tickets \cup {0}, from : Authors \cup {"none"}, text : BOOLEAN, beside : SUBSET Ids]]
  BY DEF SupportInv, SupportTyped, SupportTypeOK
<1>1. ASSUME NEW w \in Talkers, NEW record, Begin(w, record) PROVE FALSE
  BY <1>0, <1>1 DEF Begin
<1>2. ASSUME NEW w \in Talkers, NEW t, NEW from, NEW status, Landed(w, t, from, status) PROVE FALSE
  <2>1. message' = [message EXCEPT ![talker[w].id].ticket = t, ![talker[w].id].from = from, ![talker[w].id].text = TRUE]
    BY <1>2 DEF Landed
  <2>2. message'[i].text = message[i].text \/ message'[i].text = TRUE
    BY <1>0, <2>1
  <2> QED
    BY <2>2
<1>3. ASSUME NEW w \in Talkers, ClearListed(w)
      PROVE  ticket[message[i].ticket].status = "RESOLVED" /\ ticket[message[i].ticket].old
  <2>1. i \in talker[w].listed /\ talker[w].at = "clear"
    BY <1>3, ClearedWords DEF ClearListed
  <2> QED
    BY <2>1 DEF SupportInv, TalkersHold
<1>4. ASSUME UNCHANGED message PROVE FALSE
  BY <1>4
<1> QED
  BY <1>1, <1>2, <1>3, <1>4 DEF SupportNext, OpenStart, OpenPost, CommitStart, CommitPost, OpenStatus, CommitStatus, Poll,
                                GrowOld, ListClosed

-----------------------------------------------------------------------------
(* The catalogue: orders, first days and decisions outlast crossing calls.  *)

WareKind == [status : WareStatuses \cup {"none", "deleted"}, published : 0..MaxStamps, scheduled : Schedules, sold : BOOLEAN]
RowKind == [gen : Nat, there : BOOLEAN, active : BOOLEAN, ordered : BOOLEAN]

\* A product changes as those who read it are told.
FairTo(w, wn, r, rn, news) ==
    /\ w.status = "deleted" => wn.status = "deleted"
    /\ w.status # "none" => wn.status # "none"
    /\ wn.status # "deleted" => wn.published = w.published \/ "published" \in news
    /\ wn.status \in {"ACTIVE", "ARCHIVED"} => w.status \in {"ACTIVE", "ARCHIVED", "none"} \/ "moved" \in news
    /\ \A k \in RowKeys : /\ r[k].gen <= rn[k].gen
                          /\ rn[k].gen = r[k].gen /\ rn[k].there => r[k].there
                          /\ rn[k].there /\ rn[k].ordered => /\ rn[k].gen = r[k].gen
                                                             /\ r[k].ordered \/ "ordered" \in news

Fairly(w, wn, r, rn, news) ==
    \A q \in Wares : /\ w[q] \in WareKind /\ wn[q] \in WareKind
                     /\ r[q] \in [RowKeys -> RowKind] /\ rn[q] \in [RowKeys -> RowKind]
                     /\ FairTo(w[q], wn[q], r[q], rn[q], news[q])

\* An editor goes on as it was, and is told the news of what it read.
GoesOn(c, d, news) ==
    /\ d \in EditType
    /\ d.at = c.at /\ d.ware = c.ware /\ d.on = c.on /\ d.off = c.off /\ d.status = c.status /\ d.scheduled = c.scheduled
    /\ d.had = c.had /\ d.spared = c.spared /\ d.known = c.known /\ d.listed = c.listed
    /\ c.missed \subseteq d.missed
    /\ \A q \in Wares : c.ware = q \/ q \in c.listed => \A f \in news[q] : <<q, f>> \in d.missed

LEMMA EditorStays ==
    ASSUME NEW w, NEW wn, NEW r, NEW rn, NEW news, NEW c \in EditType, NEW d,
           Fairly(w, wn, r, rn, news), EditorHolds(c, w, r), GoesOn(c, d, news)
    PROVE  EditorHolds(d, wn, rn)
<1>1. /\ d \in EditType /\ d.at = c.at /\ d.ware = c.ware /\ d.on = c.on /\ d.off = c.off /\ d.status = c.status
      /\ d.scheduled = c.scheduled /\ d.had = c.had /\ d.spared = c.spared /\ d.known = c.known /\ d.listed = c.listed
      /\ c.missed \subseteq d.missed
  BY DEF GoesOn
<1>2. \A q \in Wares : c.ware = q \/ q \in c.listed => \A f \in news[q] : <<q, f>> \in d.missed
  BY DEF GoesOn
<1>3. \A q \in Wares : FairTo(w[q], wn[q], r[q], rn[q], news[q])
  BY DEF Fairly
<1>4. c.at \in {"save", "create", "status"} /\ wn[c.ware].status # "deleted" =>
         d.known[c.ware] = wn[c.ware].published \/ <<c.ware, "published">> \in d.missed
  <2> SUFFICES ASSUME c.at \in {"save", "create", "status"}, wn[c.ware].status # "deleted"
               PROVE  d.known[c.ware] = wn[c.ware].published \/ <<c.ware, "published">> \in d.missed
    OBVIOUS
  <2>1. c.ware \in Wares /\ FairTo(w[c.ware], wn[c.ware], r[c.ware], rn[c.ware], news[c.ware])
    BY <1>3 DEF EditorHolds
  <2>2. w[c.ware].status # "deleted" /\ (wn[c.ware].published = w[c.ware].published \/ "published" \in news[c.ware])
    BY <2>1 DEF FairTo
  <2>3. c.known[c.ware] = w[c.ware].published \/ <<c.ware, "published">> \in c.missed
    BY <2>2 DEF EditorHolds
  <2> QED
    BY <1>1, <1>2, <2>1, <2>2, <2>3
<1>5. c.at = "publish" => \A q \in c.listed :
          /\ wn[q].status # "none"
          /\ wn[q].status # "deleted" => d.known[q] = wn[q].published \/ <<q, "published">> \in d.missed
          /\ wn[q].status \in {"ACTIVE", "ARCHIVED"} => <<q, "moved">> \in d.missed
  <2> SUFFICES ASSUME c.at = "publish", NEW q \in c.listed
               PROVE  /\ wn[q].status # "none"
                      /\ wn[q].status # "deleted" => d.known[q] = wn[q].published \/ <<q, "published">> \in d.missed
                      /\ wn[q].status \in {"ACTIVE", "ARCHIVED"} => <<q, "moved">> \in d.missed
    OBVIOUS
  <2>1. q \in Wares /\ FairTo(w[q], wn[q], r[q], rn[q], news[q])
    BY <1>3 DEF EditType
  <2>2. \A f \in news[q] : <<q, f>> \in d.missed
    BY <1>2, <2>1
  <2>3. /\ w[q].status # "none"
        /\ w[q].status # "deleted" => c.known[q] = w[q].published \/ <<q, "published">> \in c.missed
        /\ w[q].status \in {"ACTIVE", "ARCHIVED"} => <<q, "moved">> \in c.missed
    BY DEF EditorHolds
  <2> QED
    BY <1>1, <2>1, <2>2, <2>3 DEF FairTo
<1>6. c.at \in {"save", "create"} => \A k \in RowKeys :
          /\ d.had[k] <= rn[c.ware][k].gen
          /\ d.had[k] = rn[c.ware][k].gen /\ rn[c.ware][k].there /\ rn[c.ware][k].ordered /\ k \notin c.on \cup c.off =>
                k \in d.spared \/ <<c.ware, "ordered">> \in d.missed
  <2> SUFFICES ASSUME c.at \in {"save", "create"}, NEW k \in RowKeys
               PROVE  /\ d.had[k] <= rn[c.ware][k].gen
                      /\ d.had[k] = rn[c.ware][k].gen /\ rn[c.ware][k].there /\ rn[c.ware][k].ordered
                            /\ k \notin c.on \cup c.off => k \in d.spared \/ <<c.ware, "ordered">> \in d.missed
    OBVIOUS
  <2>1. c.ware \in Wares /\ FairTo(w[c.ware], wn[c.ware], r[c.ware], rn[c.ware], news[c.ware])
    BY <1>3 DEF EditorHolds
  <2>2. PICK x, y, h : x = r[c.ware][k] /\ y = rn[c.ware][k] /\ h = c.had[k]
    OBVIOUS
  <2>3. x.gen \in Nat /\ y.gen \in Nat /\ h \in Nat
    BY <2>1, <2>2 DEF Fairly, RowKind, EditType
  <2>4. /\ x.gen <= y.gen /\ (y.gen = x.gen /\ y.there => x.there)
        /\ y.there /\ y.ordered => y.gen = x.gen /\ (x.ordered \/ "ordered" \in news[c.ware])
    BY <2>1, <2>2 DEF FairTo
  <2>5. /\ h <= x.gen
        /\ h = x.gen /\ x.there /\ x.ordered /\ k \notin c.on \cup c.off => k \in c.spared \/ <<c.ware, "ordered">> \in c.missed
    BY <2>2 DEF EditorHolds
  <2>6. h <= y.gen
    BY <2>3, <2>4, <2>5
  <2>7. "ordered" \in news[c.ware] => <<c.ware, "ordered">> \in d.missed
    BY <1>2, <2>1
  <2> QED
    BY <1>1, <2>2, <2>4, <2>5, <2>6, <2>7
<1>7. c.at = "delete" => \A k \in RowKeys :
          rn[c.ware][k].there /\ rn[c.ware][k].ordered => <<c.ware, "ordered">> \in d.missed
  <2> SUFFICES ASSUME c.at = "delete", NEW k \in RowKeys, rn[c.ware][k].there, rn[c.ware][k].ordered
               PROVE  <<c.ware, "ordered">> \in d.missed
    OBVIOUS
  <2>1. c.ware \in Wares /\ FairTo(w[c.ware], wn[c.ware], r[c.ware], rn[c.ware], news[c.ware])
    BY <1>3 DEF EditorHolds
  <2>2. r[c.ware][k].there /\ (r[c.ware][k].ordered \/ "ordered" \in news[c.ware])
    BY <2>1 DEF FairTo
  <2>3. r[c.ware][k].there /\ r[c.ware][k].ordered => <<c.ware, "ordered">> \in c.missed
    BY DEF EditorHolds
  <2> QED
    BY <1>1, <1>2, <2>1, <2>2, <2>3
<1>8. /\ c.at \in {"save", "create", "status", "delete"} => c.ware \in Wares
      /\ c.at \in {"save", "create", "status"} => c.status \in WareStatuses
      /\ c.at \in {"save", "create"} /\ c.status = "ACTIVE" => c.scheduled = "none"
  BY DEF EditorHolds
<1> QED
  BY <1>1, <1>4, <1>5, <1>6, <1>7, <1>8 DEF EditorHolds

LEMMA Unread == NoEdit \in EditType /\ NoEdit.at = "idle" /\ \A w, r : EditorHolds(NoEdit, w, r)
<1>1. NoEdit \in EditType
  <2>1. [k \in RowKeys |-> 0] \in [RowKeys -> Nat] /\ [p \in Wares |-> 0] \in [Wares -> 0..MaxStamps]
    BY CatalogueAssumption
  <2>2. PICK f, g : f = [k \in RowKeys |-> 0] /\ g = [p \in Wares |-> 0]
    OBVIOUS
  <2>3. f \in [RowKeys -> Nat] /\ g \in [Wares -> 0..MaxStamps]
    BY <2>1, <2>2
  <2>4. [at |-> "idle", ware |-> "none", on |-> {}, off |-> {}, status |-> "none", scheduled |-> "none",
         had |-> f, spared |-> {}, known |-> g, listed |-> {}, missed |-> {}] \in EditType
    BY <2>3 DEF EditType
  <2> QED
    BY <2>2, <2>4 DEF NoEdit
<1>2. NoEdit.at = "idle"
  BY DEF NoEdit
<1> QED
  BY <1>1, <1>2 DEF EditorHolds

LEMMA CatalogueBegins == CatalogueInit => CatalogueInv
<1> SUFFICES ASSUME CatalogueInit PROVE CatalogueInv
  OBVIOUS
<1>1. MaxStamps \in Nat \ {0} /\ MaxEditorCalls \in Nat
  BY CatalogueAssumption
<1>2. \A p \in Wares : ware[p] \in WareKind /\ ware[p].status # "ACTIVE" /\ ware[p].published = 0 /\ ~ware[p].sold
  <2>1. NoWare \in WareKind /\ NoWare.status = "none" /\ NoWare.published = 0 /\ ~NoWare.sold
    BY <1>1 DEF NoWare, WareKind, WareStatuses, Schedules
  <2>2. PICK w : w = [NoWare EXCEPT !.status = "DRAFT"]
    OBVIOUS
  <2>3. w \in WareKind /\ w.status = "DRAFT" /\ w.published = 0 /\ ~w.sold
    BY <2>1, <2>2 DEF WareKind, WareStatuses
  <2>4. \A p \in Wares : ware[p] = w \/ ware[p] = NoWare
    BY <2>2 DEF CatalogueInit
  <2> QED
    BY <2>1, <2>3, <2>4
<1>3. \A p \in Wares : row[p] \in [RowKeys -> RowKind] /\ \A k \in RowKeys : ~row[p][k].ordered /\ (row[p][k].there => row[p][k].gen > 0)
  <2>1. PICK a, b, c : a = [NoRow EXCEPT !.gen = 1] /\ b = [a EXCEPT !.there = TRUE] /\ c = [b EXCEPT !.active = TRUE]
    OBVIOUS
  <2>2. NoRow \in RowKind /\ ~NoRow.there /\ ~NoRow.ordered
    BY DEF NoRow, RowKind
  <2>3. a \in RowKind /\ a.gen = 1 /\ ~a.ordered
    BY <2>1, <2>2 DEF RowKind
  <2>4. b \in RowKind /\ b.gen = 1 /\ ~b.ordered
    BY <2>1, <2>3 DEF RowKind
  <2>5. c \in RowKind /\ c.gen = 1 /\ ~c.ordered
    BY <2>1, <2>4 DEF RowKind
  <2>6. \A p \in Wares : row[p] = [k \in RowKeys |-> IF p \in Entered THEN c ELSE NoRow]
    BY <2>1 DEF CatalogueInit
  <2>7. 1 > 0
    OBVIOUS
  <2> QED
    BY <2>2, <2>5, <2>6, <2>7
<1>4. ware \in [Wares -> WareKind] /\ row \in [Wares -> [RowKeys -> RowKind]]
  BY <1>2, <1>3 DEF CatalogueInit
<1>5. editor \in [Editors -> EditType] /\ \A e \in Editors : editor[e].at = "idle" /\ EditorHolds(editor[e], ware, row)
  BY Unread DEF CatalogueInit
<1>6. CatalogueTyped
  <2>1. \A p \in Wares, k \in RowKeys : row[p][k].gen \in Nat /\ (row[p][k].there => row[p][k].gen > 0)
    BY <1>3 DEF RowKind
  <2>2. calls \in 0..MaxEditorCalls /\ stamp \in 1..MaxStamps
    BY <1>1 DEF CatalogueInit
  <2> QED
    BY <1>4, <1>5, <2>1, <2>2 DEF CatalogueTyped, CatalogueTypeOK, WareKind, RowKind
<1> QED
  BY <1>2, <1>3, <1>5, <1>6 DEF CatalogueInv, LiveIsNotScheduled, WaresHold

\* What the invariant comes to in a step that is fair.
LEMMA CatalogueKept ==
    ASSUME CatalogueInv, NEW news, Fairly(ware, ware', row, row', news),
           ware' \in [Wares -> WareKind], row' \in [Wares -> [RowKeys -> RowKind]], editor' \in [Editors -> EditType],
           \A e \in Editors : GoesOn(editor[e], editor'[e], news) \/ EditorHolds(editor'[e], ware', row'),
           \A p \in Wares, k \in RowKeys : row'[p][k].there => row'[p][k].gen > 0,
           LiveIsNotScheduled', WaresHold', calls' \in 0..MaxEditorCalls, stamp' \in 1..MaxStamps
    PROVE  CatalogueInv'
<1>1. \A e \in Editors : EditorHolds(editor'[e], ware', row')
  <2> SUFFICES ASSUME NEW e \in Editors, GoesOn(editor[e], editor'[e], news) PROVE EditorHolds(editor'[e], ware', row')
    OBVIOUS
  <2>1. editor[e] \in EditType /\ EditorHolds(editor[e], ware, row)
    BY DEF CatalogueInv, CatalogueTyped
  <2> QED
    BY <2>1, EditorStays
<1>2. \A e \in Editors : editor'[e].at \in {"idle", "save", "create", "status", "delete", "publish"}
  BY DEF EditType
<1>3. \A p \in Wares, k \in RowKeys : row'[p][k].gen \in Nat
  BY DEF RowKind
<1>4. CatalogueTypeOK'
  BY <1>2, <1>3 DEF CatalogueTypeOK, WareKind
<1>5. CatalogueTyped'
  BY <1>4 DEF CatalogueTyped, RowKind
<1> QED
  BY <1>1, <1>5 DEF CatalogueInv

\* What the typed state is, and that nothing is news where nothing moves.
LEMMA CatalogueStands ==
    ASSUME CatalogueInv
    PROVE  /\ ware \in [Wares -> WareKind] /\ row \in [Wares -> [RowKeys -> RowKind]] /\ editor \in [Editors -> EditType]
           /\ calls \in 0..MaxEditorCalls /\ stamp \in 1..MaxStamps
           /\ \A p \in Wares, k \in RowKeys : row[p][k].there => row[p][k].gen > 0
           /\ LiveIsNotScheduled /\ WaresHold
           /\ \A e \in Editors : editor[e] \in EditType /\ EditorHolds(editor[e], ware, row)
BY DEF CatalogueInv, CatalogueTyped, CatalogueTypeOK, WareKind, RowKind

LEMMA NoNews ==
    ASSUME CatalogueInv, UNCHANGED <<ware, row>>
    PROVE  /\ Fairly(ware, ware', row, row', [q \in Wares |-> {}])
           /\ \A c \in EditType : GoesOn(c, c, [q \in Wares |-> {}])
           /\ LiveIsNotScheduled' /\ WaresHold'
<1>1. \A p \in Wares : row[p] \in [RowKeys -> RowKind] /\ \A k \in RowKeys : row[p][k].gen \in Nat
  BY CatalogueStands DEF RowKind
<1>2. \A p \in Wares : ware[p] \in WareKind /\ row[p] \in [RowKeys -> RowKind]
  BY CatalogueStands
<1>3. \A q \in Wares : FairTo(ware[q], ware'[q], row[q], row'[q], {})
  BY <1>1 DEF FairTo
<1>4. Fairly(ware, ware', row, row', [q \in Wares |-> {}])
  BY <1>2, <1>3 DEF Fairly
<1>5. \A c \in EditType : GoesOn(c, c, [q \in Wares |-> {}])
  BY DEF GoesOn
<1>6. LiveIsNotScheduled' /\ WaresHold'
  BY CatalogueStands DEF LiveIsNotScheduled, WaresHold
<1> QED
  BY <1>4, <1>5, <1>6

\* An editor reads what it will rely on, or gives up: nothing else moves.
LEMMA EditorTurned ==
    ASSUME CatalogueInv, NEW e \in Editors, NEW c \in EditType, EditorHolds(c, ware, row),
           editor' = [editor EXCEPT ![e] = c], UNCHANGED <<ware, row, stamp>>, calls' \in 0..MaxEditorCalls
    PROVE  CatalogueInv'
<1>1. editor' \in [Editors -> EditType] /\ \A v \in Editors : editor'[v] = IF v = e THEN c ELSE editor[v]
  BY CatalogueStands
<1>2. EditorHolds(c, ware', row')
  OBVIOUS
<1>3. \A v \in Editors : GoesOn(editor[v], editor'[v], [q \in Wares |-> {}]) \/ EditorHolds(editor'[v], ware', row')
  BY <1>1, <1>2, NoNews, CatalogueStands
<1>4. /\ Fairly(ware, ware', row, row', [q \in Wares |-> {}]) /\ LiveIsNotScheduled' /\ WaresHold'
  BY NoNews
<1>5. /\ ware' \in [Wares -> WareKind] /\ row' \in [Wares -> [RowKeys -> RowKind]] /\ stamp' \in 1..MaxStamps
      /\ \A p \in Wares, k \in RowKeys : row'[p][k].there => row'[p][k].gen > 0
  BY CatalogueStands
<1> QED
  BY <1>1, <1>3, <1>4, <1>5, CatalogueKept

LEMMA ToldTells ==
    ASSUME CatalogueInv, NEW e, NEW then \in EditType, NEW p \in Wares, NEW facts \in SUBSET NewsKinds,
           editor' = Told(e, then, p, facts)
    PROVE  /\ editor' \in [Editors -> EditType]
           /\ e \in Editors => editor'[e] = then
           /\ \A v \in Editors \ {e} : GoesOn(editor[v], editor'[v], [q \in Wares |-> IF q = p THEN facts ELSE {}])
<1>1. \A v \in Editors : editor[v] \in EditType
  BY CatalogueStands
<1>2. \A c \in EditType : /\ [c EXCEPT !.missed = @ \cup {<<p, f>> : f \in facts}] \in EditType
                          /\ GoesOn(c, [c EXCEPT !.missed = @ \cup {<<p, f>> : f \in facts}], [q \in Wares |-> IF q = p THEN facts ELSE {}])
  <2> SUFFICES ASSUME NEW c \in EditType
               PROVE  /\ [c EXCEPT !.missed = @ \cup {<<p, f>> : f \in facts}] \in EditType
                      /\ GoesOn(c, [c EXCEPT !.missed = @ \cup {<<p, f>> : f \in facts}], [q \in Wares |-> IF q = p THEN facts ELSE {}])
    OBVIOUS
  <2>1. PICK more : more = c.missed \cup {<<p, f>> : f \in facts}
    OBVIOUS
  <2>2. more \in SUBSET (Wares \X NewsKinds) /\ c.missed \subseteq more /\ \A f \in facts : <<p, f>> \in more
    BY <2>1 DEF EditType
  <2>3. PICK d : d = [c EXCEPT !.missed = more]
    OBVIOUS
  <2>4. d \in EditType
    BY <2>2, <2>3 DEF EditType
  <2>5. /\ d.at = c.at /\ d.ware = c.ware /\ d.on = c.on /\ d.off = c.off /\ d.status = c.status /\ d.scheduled = c.scheduled
        /\ d.had = c.had /\ d.spared = c.spared /\ d.known = c.known /\ d.listed = c.listed /\ d.missed = more
    BY <2>3 DEF EditType
  <2>6. GoesOn(c, d, [q \in Wares |-> IF q = p THEN facts ELSE {}])
    BY <2>2, <2>4, <2>5 DEF GoesOn
  <2> QED
    BY <2>1, <2>3, <2>4, <2>6
<1>3. \A c \in EditType : c.ware # p /\ p \notin c.listed => GoesOn(c, c, [q \in Wares |-> IF q = p THEN facts ELSE {}])
  BY DEF GoesOn
<1> QED
  BY <1>1, <1>2, <1>3 DEF Told

LEMMA ProductSaveOpened ==
    ASSUME CatalogueInv, NEW e \in Editors, NEW p \in Wares, NEW on \in SUBSET RowKeys, NEW off \in SUBSET RowKeys,
           NEW s \in WareStatuses, NEW d \in {"none", "later"}, OpenProductSave(e, p, on, off, s, d)
    PROVE  CatalogueInv'
<1>1. PICK had, spared, kind : /\ had = [k \in RowKeys |-> IF row[p][k].there THEN row[p][k].gen ELSE 0]
                               /\ spared = Referenced(p, RowsThere(p) \ (on \cup off))
                               /\ kind = IF Kept(p) THEN "save" ELSE "create"
  OBVIOUS
<1>2. PICK q : q = [at |-> "idle", ware |-> "none", on |-> {}, off |-> {}, status |-> "none", scheduled |-> "none",
                    had |-> [k \in RowKeys |-> 0], spared |-> {}, known |-> [w \in Wares |-> 0], listed |-> {}, missed |-> {}]
  OBVIOUS
<1>3. PICK c : c = [q EXCEPT !.at = kind, !.ware = p, !.on = on, !.off = off, !.status = s, !.scheduled = d,
                             !.had = had, !.spared = spared, !.known = Dates]
  OBVIOUS
<1>4. editor' = [editor EXCEPT ![e] = c]
  <2>1. NoEdit = q
    BY <1>2 DEF NoEdit
  <2> QED
    BY <1>1, <1>3, <2>1 DEF OpenProductSave
<1>5. had \in [RowKeys -> Nat] /\ spared \in SUBSET RowKeys /\ Dates \in [Wares -> 0..MaxStamps] /\ kind \in {"save", "create"}
  BY <1>1, CatalogueStands DEF Referenced, RowsThere, Dates, WareKind, RowKind
<1>6. /\ c \in EditType /\ c.ware = p /\ c.status = s /\ c.scheduled = d /\ c.at = kind /\ c.known = Dates /\ c.had = had
      /\ c.spared = spared /\ c.on = on /\ c.off = off
  <2>1. q \in EditType
    BY <1>2, Unread DEF NoEdit
  <2>2. PICK x : x = [q EXCEPT !.at = kind, !.ware = p, !.on = on]
    OBVIOUS
  <2>3. x \in EditType /\ x.at = kind /\ x.ware = p /\ x.on = on
    BY <1>5, <2>1, <2>2 DEF EditType
  <2>4. PICK y : y = [x EXCEPT !.off = off, !.status = s, !.scheduled = d]
    OBVIOUS
  <2>5. y \in EditType /\ y.at = kind /\ y.ware = p /\ y.on = on /\ y.off = off /\ y.status = s /\ y.scheduled = d
    BY <2>3, <2>4 DEF EditType
  <2>6. c = [y EXCEPT !.had = had, !.spared = spared, !.known = Dates]
    BY <1>3, <2>2, <2>4
  <2> QED
    BY <1>5, <2>5, <2>6 DEF EditType
<1>7. EditorHolds(c, ware, row)
  <2>1. c.ware = p /\ c.status = s /\ c.scheduled = d /\ c.at = kind /\ c.known = Dates /\ c.had = had
        /\ c.spared = spared /\ c.on = on /\ c.off = off
    BY <1>6
  <2>2. s = "ACTIVE" => d = "none"
    BY DEF OpenProductSave
  <2>3. Dates[p] = ware[p].published
    BY DEF Dates
  <2>4. \A k \in RowKeys : row[p][k].gen \in Nat /\ had[k] <= row[p][k].gen
    BY <1>1, CatalogueStands DEF RowKind
  <2>5. \A k \in RowKeys : row[p][k].there /\ row[p][k].ordered /\ k \notin on \cup off => k \in spared
    BY <1>1 DEF Referenced, RowsThere
  <2> QED
    BY <1>5, <2>1, <2>2, <2>3, <2>4, <2>5 DEF EditorHolds
<1>8. UNCHANGED <<ware, row, stamp>> /\ calls' \in 0..MaxEditorCalls
  BY CatalogueStands, CatalogueAssumption DEF OpenProductSave, Calls
<1> QED
  BY <1>4, <1>6, <1>7, <1>8, EditorTurned

LEMMA StatusChangeOpened ==
    ASSUME CatalogueInv, NEW e \in Editors, NEW p \in Wares, NEW s \in WareStatuses, OpenStatusChange(e, p, s)
    PROVE  CatalogueInv'
<1>2. PICK q : q = [at |-> "idle", ware |-> "none", on |-> {}, off |-> {}, status |-> "none", scheduled |-> "none",
                    had |-> [k \in RowKeys |-> 0], spared |-> {}, known |-> [w \in Wares |-> 0], listed |-> {}, missed |-> {}]
  OBVIOUS
<1>3. PICK c : c = [q EXCEPT !.at = "status", !.ware = p, !.status = s, !.known = Dates]
  OBVIOUS
<1>4. editor' = [editor EXCEPT ![e] = c]
  <2>1. NoEdit = q
    BY <1>2 DEF NoEdit
  <2> QED
    BY <1>3, <2>1 DEF OpenStatusChange
<1>5. Dates \in [Wares -> 0..MaxStamps] /\ Dates[p] = ware[p].published
  BY CatalogueStands DEF Dates, WareKind
<1>6. c \in EditType /\ c.at = "status" /\ c.ware = p /\ c.status = s /\ c.known = Dates
  BY <1>2, <1>3, <1>5 DEF EditType
<1>7. EditorHolds(c, ware, row)
  BY <1>5, <1>6 DEF EditorHolds
<1>8. UNCHANGED <<ware, row, stamp>> /\ calls' \in 0..MaxEditorCalls
  BY CatalogueStands, CatalogueAssumption DEF OpenStatusChange, Calls
<1> QED
  BY <1>4, <1>6, <1>7, <1>8, EditorTurned

LEMMA DeleteOpened ==
    ASSUME CatalogueInv, NEW e \in Editors, NEW p \in Wares, OpenDelete(e, p)
    PROVE  CatalogueInv'
<1>2. PICK q : q = [at |-> "idle", ware |-> "none", on |-> {}, off |-> {}, status |-> "none", scheduled |-> "none",
                    had |-> [k \in RowKeys |-> 0], spared |-> {}, known |-> [w \in Wares |-> 0], listed |-> {}, missed |-> {}]
  OBVIOUS
<1>3. PICK c : c = [q EXCEPT !.at = "delete", !.ware = p]
  OBVIOUS
<1>4. editor' = [editor EXCEPT ![e] = c]
  <2>1. NoEdit = q
    BY <1>2 DEF NoEdit
  <2> QED
    BY <1>3, <2>1 DEF OpenDelete
<1>5. q \in EditType
  BY <1>2, Unread DEF NoEdit
<1>6. c \in EditType /\ c.at = "delete" /\ c.ware = p
  BY <1>3, <1>5 DEF EditType
<1>7. EditorHolds(c, ware, row)
  <2>1. ~ware[p].sold
    BY DEF OpenDelete
  <2>2. \A k \in RowKeys : ~(row[p][k].there /\ row[p][k].ordered)
    BY <2>1, CatalogueStands DEF WaresHold
  <2> QED
    BY <1>6, <2>2 DEF EditorHolds
<1>8. UNCHANGED <<ware, row, stamp>> /\ calls' \in 0..MaxEditorCalls
  BY CatalogueStands, CatalogueAssumption DEF OpenDelete, Calls
<1> QED
  BY <1>4, <1>6, <1>7, <1>8, EditorTurned

LEMMA DueListed ==
    ASSUME CatalogueInv, NEW e \in Editors, ListDue(e)
    PROVE  CatalogueInv'
<1>2. PICK q : q = [at |-> "idle", ware |-> "none", on |-> {}, off |-> {}, status |-> "none", scheduled |-> "none",
                    had |-> [k \in RowKeys |-> 0], spared |-> {}, known |-> [w \in Wares |-> 0], listed |-> {}, missed |-> {}]
  OBVIOUS
<1>3. PICK c : c = [q EXCEPT !.at = "publish", !.listed = DueWares, !.known = Dates]
  OBVIOUS
<1>4. editor' = [editor EXCEPT ![e] = c]
  <2>1. NoEdit = q
    BY <1>2 DEF NoEdit
  <2> QED
    BY <1>3, <2>1 DEF ListDue
<1>5. Dates \in [Wares -> 0..MaxStamps] /\ \A p \in Wares : Dates[p] = ware[p].published
  BY CatalogueStands DEF Dates, WareKind
<1>6. DueWares \in SUBSET Wares /\ \A p \in DueWares : ware[p].status = "DRAFT"
  BY DEF DueWares
<1>7. c \in EditType /\ c.at = "publish" /\ c.listed = DueWares /\ c.known = Dates
  BY <1>2, <1>3, <1>5, <1>6 DEF EditType
<1>8. EditorHolds(c, ware, row)
  BY <1>5, <1>6, <1>7 DEF EditorHolds
<1>9. UNCHANGED <<ware, row, stamp>> /\ calls' \in 0..MaxEditorCalls
  BY CatalogueStands DEF ListDue
<1> QED
  BY <1>4, <1>7, <1>8, <1>9, EditorTurned

\* What a change of status and first day does to one product.
Rewritten(w, wn, status, date) ==
    /\ w.status # "deleted" /\ wn \in WareKind /\ wn.status = status /\ status \in WareStatuses
    /\ wn.published = date /\ wn.sold = w.sold

LEMMA StampIsFair ==
    ASSUME CatalogueInv, NEW q \in Wares, NEW wn, NEW status, NEW date, Rewritten(ware[q], wn, status, date),
           NEW rn, \A k \in RowKeys : rn[k] = row[q][k]
    PROVE  FairTo(ware[q], wn, row[q], rn, News(q, status, date))
<1>1. \A k \in RowKeys : row[q][k].gen \in Nat
  BY CatalogueStands DEF RowKind
<1> QED
  BY <1>1 DEF FairTo, Rewritten, News, WareStatuses

LEMMA SavesFit ==
    ASSUME CatalogueInv, NEW e \in Editors, CommitProductSave(e), SaveFits(e)
    PROVE  \E p \in Wares, status \in WareStatuses, date \in 0..MaxStamps :
              /\ p = editor[e].ware /\ date = FirstPublished(status, editor[e].known[p])
              /\ Rewritten(ware[p], ware'[p], status, date) /\ (status = "ACTIVE" => ware'[p].scheduled = "none")
              /\ \A q \in Wares \ {p} : ware'[q] = ware[q] /\ row'[q] = row[q]
              /\ ware' \in [Wares -> WareKind]
              /\ row' = [row EXCEPT ![p] = [k \in RowKeys |-> SavedRow(editor[e], k)]]
              /\ editor' = Told(e, NoEdit, p, News(p, status, date))
<1>1. PICK c, p, status, date : /\ c = editor[e] /\ p = c.ware /\ status = c.status
                                /\ date = FirstPublished(status, c.known[p])
  OBVIOUS
<1>2. /\ c \in EditType /\ c.at \in {"save", "create"} /\ p \in Wares /\ status \in WareStatuses
      /\ status = "ACTIVE" => c.scheduled = "none"
  BY <1>1, CatalogueStands DEF CommitProductSave, EditorHolds
<1>3. c.known[p] \in 0..MaxStamps /\ date \in 0..MaxStamps /\ c.scheduled \in Schedules
  BY <1>1, <1>2, CatalogueStands, CatalogueAssumption DEF EditType, FirstPublished, Schedules
<1>4. PICK wn : wn = [status |-> status, scheduled |-> c.scheduled, published |-> date, sold |-> ware[p].sold]
  OBVIOUS
<1>5. /\ ware' = [ware EXCEPT ![p] = wn] /\ row' = [row EXCEPT ![p] = [k \in RowKeys |-> SavedRow(c, k)]]
      /\ editor' = Told(e, NoEdit, p, News(p, status, date))
  BY <1>1, <1>4 DEF CommitProductSave
<1>6. wn \in WareKind /\ wn.status = status /\ wn.published = date /\ wn.sold = ware[p].sold /\ wn.scheduled = c.scheduled
  BY <1>2, <1>3, <1>4, CatalogueStands DEF WareKind
<1>7. ware[p].status # "deleted"
  BY <1>1, <1>2 DEF SaveFits, Kept, WareStatuses
<1>8. /\ ware'[p] = wn /\ ware' \in [Wares -> WareKind]
      /\ \A q \in Wares \ {p} : ware'[q] = ware[q] /\ row'[q] = row[q]
  BY <1>2, <1>5, <1>6, CatalogueStands
<1>9. Rewritten(ware[p], ware'[p], status, date) /\ (status = "ACTIVE" => ware'[p].scheduled = "none")
  BY <1>2, <1>6, <1>7, <1>8 DEF Rewritten
<1> QED
  BY <1>1, <1>2, <1>3, <1>5, <1>8, <1>9

\* What the action properties ask of a step.
OrdersOutlast ==
    \A p \in Wares, k \in RowKeys :
        row[p][k].there /\ row[p][k].ordered /\ ~row'[p][k].there
        => \E e \in Editors : EditorEnds(e) /\ <<p, "ordered">> \in editor[e].missed

FirstDaysOutlast ==
    \A p \in Wares :
        ware[p].published # 0 /\ ware'[p].status # "deleted" /\ ware'[p].published # ware[p].published
        => \E e \in Editors : EditorEnds(e) /\ <<p, "published">> \in editor[e].missed

DraftsAlone ==
    \A p \in Wares, e \in Editors :
        editor[e].at = "publish" /\ EditorEnds(e) /\ ware'[p] # ware[p] /\ ware[p].status # "DRAFT"
        => <<p, "moved">> \in editor[e].missed

DecisionsOutlast == OrdersOutlast /\ FirstDaysOutlast /\ DraftsAlone

LEMMA NothingCrossed == ASSUME UNCHANGED <<ware, row>> PROVE DecisionsOutlast
BY DEF DecisionsOutlast, OrdersOutlast, FirstDaysOutlast, DraftsAlone

LEMMA GoingOnEndsNothing ==
    ASSUME NEW e, NEW news, GoesOn(editor[e], editor'[e], news) PROVE ~EditorEnds(e)
BY DEF GoesOn, EditorEnds

\* What a save makes of a row.
LEMMA RowSaved ==
    ASSUME CatalogueInv, NEW e \in Editors, CommitProductSave(e), SaveFits(e), NEW k \in RowKeys,
           NEW r, r = row[editor[e].ware][k], NEW s, s = SavedRow(editor[e], k)
    PROVE  /\ s \in RowKind /\ r.gen <= s.gen /\ (s.there => s.gen > 0)
           /\ s.gen = r.gen /\ s.there => r.there
           /\ s.there /\ s.ordered => s.gen = r.gen /\ r.ordered /\ r.there
           /\ r.there /\ r.ordered /\ ~s.there => <<editor[e].ware, "ordered">> \in editor[e].missed
<1>1. PICK c : c = editor[e]
  OBVIOUS
<1>2. PICK h : h = c.had[k]
  OBVIOUS
<1>3. c \in EditType /\ c.at \in {"save", "create"} /\ c.ware \in Wares /\ h \in Nat
  <2>1. c \in EditType /\ c.at \in {"save", "create"} /\ EditorHolds(c, ware, row)
    BY <1>1, CatalogueStands DEF CommitProductSave
  <2>2. c.ware \in Wares
    BY <2>1 DEF EditorHolds
  <2>3. h \in Nat
    BY <1>2, <2>1 DEF EditType
  <2> QED
    BY <2>1, <2>2, <2>3
<1>4. r \in RowKind /\ (r.there => r.gen > 0)
  BY <1>1, <1>3, CatalogueStands
<1>5. k \in c.on \cup c.off => h = IF r.there THEN r.gen ELSE 0
  BY <1>1, <1>2 DEF SaveFits
<1>6. s = IF k \in c.on \cup c.off
          THEN IF h = 0 THEN [gen |-> r.gen + 1, there |-> TRUE, active |-> k \in c.on, ordered |-> FALSE]
               ELSE [r EXCEPT !.active = k \in c.on]
          ELSE IF h # r.gen \/ ~r.there THEN r
          ELSE IF k \in c.spared THEN [r EXCEPT !.active = FALSE]
          ELSE [r EXCEPT !.there = FALSE]
  BY <1>1, <1>2 DEF SavedRow
<1>7. h = r.gen /\ r.there /\ r.ordered /\ k \notin c.on \cup c.off => k \in c.spared \/ <<c.ware, "ordered">> \in c.missed
  BY <1>1, <1>2, <1>3, CatalogueStands DEF EditorHolds
<1>8. CASE k \in c.on \cup c.off /\ h = 0
  <2>1. ~r.there /\ s = [gen |-> r.gen + 1, there |-> TRUE, active |-> k \in c.on, ordered |-> FALSE]
    BY <1>4, <1>5, <1>6, <1>8
  <2> QED
    BY <1>4, <2>1 DEF RowKind
<1>9. CASE k \in c.on \cup c.off /\ h # 0
  <2>1. r.there /\ s = [r EXCEPT !.active = k \in c.on]
    BY <1>5, <1>6, <1>9
  <2>2. s \in RowKind /\ s.gen = r.gen /\ s.there = r.there /\ s.ordered = r.ordered
    <3>1. \A a \in BOOLEAN : [r EXCEPT !.active = a] \in RowKind
      BY <1>4, SMT DEF RowKind
    <3>2. (k \in c.on) \in BOOLEAN
      BY SMT
    <3>3. s \in RowKind
      BY <2>1, <3>1, <3>2, Zenon
    <3>4. s.gen = r.gen /\ s.there = r.there /\ s.ordered = r.ordered
      BY <1>4, <2>1, Zenon DEF RowKind
    <3> QED
      BY <3>3, <3>4
  <2> QED
    BY <1>4, <2>1, <2>2 DEF RowKind
<1>10. CASE k \notin c.on \cup c.off /\ (h # r.gen \/ ~r.there)
  <2>1. s = r /\ r.gen \in Nat
    BY <1>4, <1>6, <1>10 DEF RowKind
  <2>2. r.there /\ r.ordered => s.there
    BY <2>1
  <2> QED
    BY <1>4, <2>1, <2>2
<1>11. CASE k \notin c.on \cup c.off /\ h = r.gen /\ r.there /\ k \in c.spared
  <2>1. s = [r EXCEPT !.active = FALSE]
    BY <1>6, <1>11
  <2>2. s \in RowKind /\ s.gen = r.gen /\ s.there = r.there /\ s.ordered = r.ordered
    BY <1>4, <2>1 DEF RowKind
  <2> QED
    BY <1>4, <1>11, <2>2 DEF RowKind
<1>12. CASE k \notin c.on \cup c.off /\ h = r.gen /\ r.there /\ k \notin c.spared
  <2>1. s = [r EXCEPT !.there = FALSE]
    BY <1>6, <1>12
  <2>2. s \in RowKind /\ s.gen = r.gen /\ ~s.there
    BY <1>4, <2>1 DEF RowKind
  <2>3. r.ordered => <<c.ware, "ordered">> \in c.missed
    BY <1>7, <1>12
  <2> QED
    BY <1>1, <1>4, <2>2, <2>3 DEF RowKind
<1> QED
  BY <1>8, <1>9, <1>10, <1>11, <1>12

LEMMA NewsIsNews == ASSUME NEW p, NEW s, NEW d PROVE News(p, s, d) \in SUBSET NewsKinds
BY DEF News, NewsKinds

\* A call ends without writing anything.
LEMMA GaveUp ==
    ASSUME CatalogueInv, NEW e \in Editors, editor' = [editor EXCEPT ![e] = NoEdit], UNCHANGED <<ware, row, calls, stamp>>
    PROVE  CatalogueInv' /\ DecisionsOutlast
<1>1. calls' \in 0..MaxEditorCalls
  BY CatalogueStands
<1>2. CatalogueInv'
  BY <1>1, Unread, EditorTurned
<1> QED
  BY <1>2, NothingCrossed

LEMMA ProductSaved ==
    ASSUME CatalogueInv, NEW e \in Editors, CommitProductSave(e)
    PROVE  CatalogueInv' /\ DecisionsOutlast
<1>1. CASE ~SaveFits(e)
  BY <1>1, GaveUp DEF CommitProductSave
<1>2. CASE SaveFits(e)
  <2>1. PICK p \in Wares, status \in WareStatuses, date \in 0..MaxStamps :
              /\ p = editor[e].ware /\ date = FirstPublished(status, editor[e].known[p])
              /\ Rewritten(ware[p], ware'[p], status, date) /\ (status = "ACTIVE" => ware'[p].scheduled = "none")
              /\ \A q \in Wares \ {p} : ware'[q] = ware[q] /\ row'[q] = row[q]
              /\ ware' \in [Wares -> WareKind]
              /\ row' = [row EXCEPT ![p] = [k \in RowKeys |-> SavedRow(editor[e], k)]]
              /\ editor' = Told(e, NoEdit, p, News(p, status, date))
    BY <1>2, SavesFit
  <2> DEFINE news == [q \in Wares |-> IF q = p THEN News(p, status, date) ELSE {}]
  <2>2. UNCHANGED <<calls, stamp>> /\ editor[e].at \in {"save", "create"}
    BY DEF CommitProductSave
  <2>3. \A k \in RowKeys : /\ row'[p][k] \in RowKind /\ row[p][k].gen <= row'[p][k].gen /\ (row'[p][k].there => row'[p][k].gen > 0)
                           /\ row'[p][k].gen = row[p][k].gen /\ row'[p][k].there => row[p][k].there
                           /\ row'[p][k].there /\ row'[p][k].ordered =>
                                 row'[p][k].gen = row[p][k].gen /\ row[p][k].ordered /\ row[p][k].there
                           /\ row[p][k].there /\ row[p][k].ordered /\ ~row'[p][k].there =>
                                 <<p, "ordered">> \in editor[e].missed
    <3> SUFFICES ASSUME NEW k \in RowKeys
                 PROVE  /\ row'[p][k] \in RowKind /\ row[p][k].gen <= row'[p][k].gen /\ (row'[p][k].there => row'[p][k].gen > 0)
                        /\ row'[p][k].gen = row[p][k].gen /\ row'[p][k].there => row[p][k].there
                        /\ row'[p][k].there /\ row'[p][k].ordered =>
                              row'[p][k].gen = row[p][k].gen /\ row[p][k].ordered /\ row[p][k].there
                        /\ row[p][k].there /\ row[p][k].ordered /\ ~row'[p][k].there =>
                              <<p, "ordered">> \in editor[e].missed
      OBVIOUS
    <3>1. row'[p][k] = SavedRow(editor[e], k)
      BY <2>1, CatalogueStands
    <3>2. PICK r, s : r = row[p][k] /\ s = SavedRow(editor[e], k)
      OBVIOUS
    <3>3. r = row[editor[e].ware][k]
      BY <2>1, <3>2
    <3> QED
      BY <1>2, <2>1, <3>1, <3>2, <3>3, RowSaved
  <2>4. row'[p] = [k \in RowKeys |-> SavedRow(editor[e], k)] /\ row' \in [Wares -> [RowKeys -> RowKind]]
    <3>1. row'[p] = [k \in RowKeys |-> SavedRow(editor[e], k)]
      BY <2>1, CatalogueStands
    <3>2. row'[p] \in [RowKeys -> RowKind]
      BY <2>3, <3>1
    <3>3. row' = [row EXCEPT ![p] = row'[p]]
      BY <2>1, <3>1
    <3> QED
      BY <3>1, <3>2, <3>3, CatalogueStands
  <2>5. FairTo(ware[p], ware'[p], row[p], row'[p], News(p, status, date))
    BY <2>1, <2>3 DEF FairTo, Rewritten, News, WareStatuses
  <2>6. \A q \in Wares \ {p} : FairTo(ware[q], ware'[q], row[q], row'[q], {})
    BY <2>1, CatalogueStands DEF FairTo, RowKind
  <2>7. Fairly(ware, ware', row, row', news)
    BY <2>1, <2>4, <2>5, <2>6, CatalogueStands DEF Fairly
  <2>8. /\ editor' \in [Editors -> EditType] /\ editor'[e] = NoEdit
        /\ \A v \in Editors \ {e} : GoesOn(editor[v], editor'[v], news)
    <3>1. PICK facts, then : facts = News(p, status, date) /\ then = NoEdit
      OBVIOUS
    <3>2. then \in EditType /\ facts \in SUBSET NewsKinds /\ editor' = Told(e, then, p, facts)
      BY <2>1, <3>1, Unread, NewsIsNews
    <3>3. /\ editor' \in [Editors -> EditType] /\ editor'[e] = then
          /\ \A v \in Editors \ {e} : GoesOn(editor[v], editor'[v], [q \in Wares |-> IF q = p THEN facts ELSE {}])
      BY <3>2, ToldTells
    <3> QED
      BY <3>1, <3>3
  <2>9. LiveIsNotScheduled'
    BY <2>1, CatalogueStands DEF LiveIsNotScheduled, Rewritten
  <2>10. WaresHold'
    <3>1. \A q \in Wares \ {p} : /\ ware'[q].status = "none" => ware'[q].published = 0 /\ ~ware'[q].sold
                                 /\ \A k \in RowKeys : row'[q][k].there /\ row'[q][k].ordered => ware'[q].sold
      BY <2>1, CatalogueStands DEF WaresHold
    <3>2. ware'[p].status # "none"
      BY <2>1 DEF Rewritten, WareStatuses
    <3>3. \A k \in RowKeys : row'[p][k].there /\ row'[p][k].ordered => ware'[p].sold
      BY <2>1, <2>3, CatalogueStands DEF Rewritten, WaresHold
    <3> QED
      BY <3>1, <3>2, <3>3 DEF WaresHold
  <2>11. CatalogueInv'
    <3>1. \A v \in Editors : GoesOn(editor[v], editor'[v], news) \/ EditorHolds(editor'[v], ware', row')
      BY <2>8, Unread
    <3>2. \A q \in Wares, k \in RowKeys : row'[q][k].there => row'[q][k].gen > 0
      BY <2>1, <2>3, CatalogueStands
    <3>3. calls' \in 0..MaxEditorCalls /\ stamp' \in 1..MaxStamps
      BY <2>2, CatalogueStands
    <3> HIDE DEF news
    <3> QED
      BY <2>1, <2>4, <2>7, <2>8, <2>9, <2>10, <3>1, <3>2, <3>3, CatalogueKept
  <2>12. EditorEnds(e)
    BY <2>2, <2>8, Unread DEF EditorEnds
  <2>13. OrdersOutlast
    BY <2>1, <2>3, <2>12 DEF OrdersOutlast
  <2>14. FirstDaysOutlast
    <3>1. ware[p].published # 0 /\ ware'[p].published # ware[p].published => <<p, "published">> \in editor[e].missed
      BY <2>1, <2>2, CatalogueStands DEF EditorHolds, Rewritten, FirstPublished
    <3> QED
      BY <2>1, <2>12, <3>1 DEF FirstDaysOutlast
  <2>15. DraftsAlone
    BY <2>2, <2>8, GoingOnEndsNothing DEF DraftsAlone
  <2> QED
    BY <2>11, <2>13, <2>14, <2>15 DEF DecisionsOutlast
<1> QED
  BY <1>1, <1>2

LEMMA WareStamped ==
    ASSUME CatalogueInv, NEW e \in Editors, NEW p \in Wares, NEW status \in WareStatuses, NEW date, NEW wn,
           Rewritten(ware[p], wn, status, date), status = "ACTIVE" => wn.scheduled = "none",
           date = FirstPublished(status, editor[e].known[p]),
           \/ editor[e].at = "status" /\ p = editor[e].ware
           \/ editor[e].at = "publish" /\ p \in editor[e].listed,
           NEW then \in EditType, EditorHolds(then, ware', row'), then.at = "idle" \/ then.listed # editor[e].listed,
           ware' = [ware EXCEPT ![p] = wn], editor' = Told(e, then, p, News(p, status, date)),
           UNCHANGED <<row, calls, stamp>>
    PROVE  CatalogueInv' /\ DecisionsOutlast
<1> DEFINE news == [q \in Wares |-> IF q = p THEN News(p, status, date) ELSE {}]
<1>1. /\ ware' \in [Wares -> WareKind] /\ ware'[p] = wn /\ \A q \in Wares \ {p} : ware'[q] = ware[q]
  BY CatalogueStands DEF Rewritten
<1>2. FairTo(ware[p], ware'[p], row[p], row'[p], News(p, status, date))
  <2>1. \A k \in RowKeys : row'[p][k] = row[p][k]
    OBVIOUS
  <2> QED
    BY <1>1, <2>1, StampIsFair
<1>3. \A q \in Wares \ {p} : FairTo(ware[q], ware'[q], row[q], row'[q], {})
  BY <1>1, CatalogueStands DEF FairTo, RowKind
<1>4. Fairly(ware, ware', row, row', news)
  BY <1>1, <1>2, <1>3, CatalogueStands DEF Fairly
<1>5. /\ editor' \in [Editors -> EditType] /\ editor'[e] = then
      /\ \A v \in Editors \ {e} : GoesOn(editor[v], editor'[v], news)
  BY NewsIsNews, ToldTells
<1>6. LiveIsNotScheduled'
  BY <1>1, CatalogueStands DEF LiveIsNotScheduled, Rewritten
<1>7. WaresHold'
  <2>1. ware'[p].status # "none" /\ ware'[p].sold = ware[p].sold
    BY <1>1 DEF Rewritten, WareStatuses
  <2> QED
    BY <1>1, <2>1, CatalogueStands DEF WaresHold
<1>8. CatalogueInv'
  <2>1. \A v \in Editors : GoesOn(editor[v], editor'[v], news) \/ EditorHolds(editor'[v], ware', row')
    BY <1>5
  <2>2. /\ row' \in [Wares -> [RowKeys -> RowKind]] /\ calls' \in 0..MaxEditorCalls /\ stamp' \in 1..MaxStamps
        /\ \A q \in Wares, k \in RowKeys : row'[q][k].there => row'[q][k].gen > 0
    BY CatalogueStands
  <2> HIDE DEF news
  <2> QED
    BY <1>1, <1>4, <1>5, <1>6, <1>7, <2>1, <2>2, CatalogueKept
<1>9. EditorEnds(e)
  BY <1>5 DEF EditorEnds
<1>10. OrdersOutlast
  BY DEF OrdersOutlast
<1>11. FirstDaysOutlast
  <2>1. ware[p].status # "deleted" /\ ware'[p].published = date
    BY <1>1 DEF Rewritten
  <2>2. editor[e].known[p] = ware[p].published \/ <<p, "published">> \in editor[e].missed
    BY <2>1, CatalogueStands DEF EditorHolds
  <2>3. ware[p].published # 0 /\ ware'[p].published # ware[p].published => <<p, "published">> \in editor[e].missed
    BY <2>1, <2>2 DEF FirstPublished
  <2> QED
    BY <1>1, <1>9, <2>3 DEF FirstDaysOutlast
<1>12. DraftsAlone
  <2>1. editor[e].at = "publish" /\ ware[p].status # "DRAFT" => <<p, "moved">> \in editor[e].missed
    <3>1. ware[p].status # "deleted" /\ ware[p].status \in WareStatuses \cup {"none", "deleted"}
      BY CatalogueStands DEF Rewritten, WareKind
    <3> QED
      BY <3>1, CatalogueStands DEF EditorHolds, WareStatuses
  <2> QED
    BY <1>1, <1>5, <2>1, GoingOnEndsNothing DEF DraftsAlone
<1> QED
  BY <1>8, <1>10, <1>11, <1>12 DEF DecisionsOutlast

LEMMA StatusChanged ==
    ASSUME CatalogueInv, NEW e \in Editors, CommitStatusChange(e)
    PROVE  CatalogueInv' /\ DecisionsOutlast
<1>1. PICK p, status, date : p = editor[e].ware /\ status = editor[e].status /\ date = FirstPublished(status, editor[e].known[p])
  OBVIOUS
<1>2. p \in Wares /\ status \in WareStatuses /\ editor[e].at = "status" /\ editor[e] \in EditType
  BY <1>1, CatalogueStands DEF CommitStatusChange, EditorHolds
<1>3. CASE ~Kept(p)
  BY <1>1, <1>3, GaveUp DEF CommitStatusChange
<1>4. CASE Kept(p)
  <2>1. PICK a : a = [ware[p] EXCEPT !.status = status]
    OBVIOUS
  <2>2. PICK b : b = [a EXCEPT !.published = date]
    OBVIOUS
  <2>3. PICK wn : wn = [b EXCEPT !.scheduled = IF status = "ACTIVE" THEN "none" ELSE @]
    OBVIOUS
  <2>4. date \in 0..MaxStamps /\ ware[p] \in WareKind
    BY <1>1, <1>2, CatalogueStands, CatalogueAssumption DEF EditType, FirstPublished
  <2>5. a \in WareKind /\ a.status = status /\ a.sold = ware[p].sold /\ a.scheduled = ware[p].scheduled
    BY <1>2, <2>1, <2>4 DEF WareKind
  <2>6. b \in WareKind /\ b.status = status /\ b.sold = ware[p].sold /\ b.published = date /\ b.scheduled = ware[p].scheduled
    BY <2>2, <2>4, <2>5 DEF WareKind
  <2>7. wn \in WareKind /\ wn.status = status /\ wn.sold = ware[p].sold /\ wn.published = date /\ (status = "ACTIVE" => wn.scheduled = "none")
    BY <2>3, <2>6 DEF WareKind, Schedules
  <2>8. ware' = [ware EXCEPT ![p] = wn]
    <3>1. ware' = [[[ware EXCEPT ![p].status = status] EXCEPT ![p].published = date]
                        EXCEPT ![p].scheduled = IF status = "ACTIVE" THEN "none" ELSE @]
      BY <1>1, <1>4 DEF CommitStatusChange
    <3> QED
      BY <1>2, <2>1, <2>2, <2>3, <3>1, CatalogueStands
  <2>9. Rewritten(ware[p], wn, status, date)
    BY <1>2, <1>4, <2>7 DEF Rewritten, Kept, WareStatuses
  <2>10. editor' = Told(e, NoEdit, p, News(p, status, date)) /\ UNCHANGED <<row, calls, stamp>>
    BY <1>1, <1>4 DEF CommitStatusChange
  <2> QED
    BY <1>1, <1>2, <2>7, <2>8, <2>9, <2>10, Unread, WareStamped
<1> QED
  BY <1>3, <1>4

LEMMA ListedPublished ==
    ASSUME CatalogueInv, NEW e \in Editors, PublishListed(e)
    PROVE  CatalogueInv' /\ DecisionsOutlast
<1>1. PICK p \in editor[e].listed :
          LET rest == [editor[e] EXCEPT !.listed = @ \ {p}]
          IN  IF Kept(p)
              THEN /\ ware' = [ware EXCEPT ![p].status = "ACTIVE", ![p].scheduled = "none",
                                           ![p].published = FirstPublished("ACTIVE", rest.known[p])]
                   /\ editor' = Told(e, IF rest.listed = {} THEN NoEdit ELSE rest, p, News(p, "ACTIVE", FirstPublished("ACTIVE", rest.known[p])))
              ELSE editor' = [editor EXCEPT ![e] = NoEdit] /\ UNCHANGED ware
  BY DEF PublishListed
<1>2. editor[e].at = "publish" /\ UNCHANGED <<row, calls, stamp>>
  BY DEF PublishListed
<1>3. PICK c, rest, date : c = editor[e] /\ rest = [c EXCEPT !.listed = @ \ {p}] /\ date = FirstPublished("ACTIVE", c.known[p])
  OBVIOUS
<1>4. c \in EditType /\ p \in Wares /\ c.at = "publish" /\ EditorHolds(c, ware, row)
  BY <1>2, <1>3, CatalogueStands DEF EditType
<1>5. /\ rest \in EditType /\ rest.at = "publish" /\ rest.known = c.known /\ rest.listed = c.listed \ {p} /\ rest.missed = c.missed
  BY <1>3, <1>4 DEF EditType
<1>6. CASE ~Kept(p)
  BY <1>1, <1>2, <1>6, GaveUp
<1>7. CASE Kept(p)
  <2>1. PICK then : then = IF rest.listed = {} THEN NoEdit ELSE rest
    OBVIOUS
  <2>2. PICK a : a = [ware[p] EXCEPT !.status = "ACTIVE"]
    OBVIOUS
  <2>3. PICK b : b = [a EXCEPT !.scheduled = "none"]
    OBVIOUS
  <2>4. PICK wn : wn = [b EXCEPT !.published = date]
    OBVIOUS
  <2>5. date \in 0..MaxStamps /\ ware[p] \in WareKind
    BY <1>3, <1>4, CatalogueStands, CatalogueAssumption DEF EditType, FirstPublished
  <2>6. a \in WareKind /\ a.status = "ACTIVE" /\ a.sold = ware[p].sold
    BY <2>2, <2>5 DEF WareKind, WareStatuses
  <2>7. b \in WareKind /\ b.status = "ACTIVE" /\ b.sold = ware[p].sold /\ b.scheduled = "none"
    BY <2>3, <2>6 DEF WareKind, Schedules
  <2>8. wn \in WareKind /\ wn.status = "ACTIVE" /\ wn.sold = ware[p].sold /\ wn.scheduled = "none" /\ wn.published = date
    BY <2>4, <2>5, <2>7 DEF WareKind
  <2>9. ware' = [ware EXCEPT ![p] = wn] /\ editor' = Told(e, then, p, News(p, "ACTIVE", date))
    <3>1. /\ ware' = [[[ware EXCEPT ![p].status = "ACTIVE"] EXCEPT ![p].scheduled = "none"] EXCEPT ![p].published = date]
          /\ editor' = Told(e, then, p, News(p, "ACTIVE", date))
      BY <1>1, <1>3, <1>5, <1>7, <2>1
    <3> QED
      BY <1>4, <2>2, <2>3, <2>4, <3>1, CatalogueStands
  <2>10. "ACTIVE" \in WareStatuses /\ Rewritten(ware[p], wn, "ACTIVE", date)
    BY <1>7, <2>8 DEF Rewritten, Kept, WareStatuses
  <2>11. then \in EditType /\ (then.at = "idle" \/ then.listed # editor[e].listed)
    BY <1>3, <1>5, <2>1, Unread
  <2>12. EditorHolds(then, ware', row')
    <3>1. CASE rest.listed = {}
      BY <2>1, <3>1, Unread
    <3>2. CASE rest.listed # {}
      <4>1. EditorHolds(rest, ware, row)
        BY <1>4, <1>5 DEF EditorHolds
      <4>2. \A q \in rest.listed : ware'[q] = ware[q]
        BY <1>4, <1>5, <2>9, CatalogueStands DEF EditType
      <4>3. EditorHolds(rest, ware', row')
        BY <1>5, <4>1, <4>2 DEF EditorHolds
      <4> QED
        BY <2>1, <3>2, <4>3
    <3> QED
      BY <3>1, <3>2
  <2> QED
    BY <1>1, <1>2, <1>3, <1>4, <2>8, <2>9, <2>10, <2>11, <2>12, WareStamped
<1> QED
  BY <1>6, <1>7

LEMMA BulkIsSet ==
    ASSUME CatalogueInv, NEW ps \in SUBSET Wares, NEW status \in WareStatuses, BulkSetStatus(ps, status)
    PROVE  CatalogueInv' /\ DecisionsOutlast
<1> DEFINE date(q) == FirstPublished(status, ware[q].published)
           news == [q \in Wares |-> IF q \in ps /\ Kept(q) THEN News(q, status, date(q)) ELSE {}]
<1>1. /\ ware' = [p \in Wares |->
             IF p \in ps /\ Kept(p)
             THEN [ware[p] EXCEPT !.status = status, !.published = FirstPublished(status, @),
                                  !.scheduled = BulkSchedule(status, @)]
             ELSE ware[p]]
      /\ UNCHANGED <<row, stamp>> /\ calls' \in 0..MaxEditorCalls
  <2>1. calls' \in 0..MaxEditorCalls
    <3>1. Calls
      BY DEF BulkSetStatus
    <3> QED
      BY <3>1, CatalogueStands, CatalogueAssumption DEF Calls
  <2> QED
    BY <2>1 DEF BulkSetStatus
<1>2. \A q \in Wares : /\ ware'[q] \in WareKind /\ ware'[q].sold = ware[q].sold
                       /\ q \in ps /\ Kept(q) => /\ ware'[q].status = status /\ ware'[q].published = date(q)
                                                 /\ status = "ACTIVE" => ware'[q].scheduled = "none"
                       /\ ~(q \in ps /\ Kept(q)) => ware'[q] = ware[q]
  <2> SUFFICES ASSUME NEW q \in Wares
               PROVE  /\ ware'[q] \in WareKind /\ ware'[q].sold = ware[q].sold
                      /\ q \in ps /\ Kept(q) => /\ ware'[q].status = status /\ ware'[q].published = date(q)
                                                /\ status = "ACTIVE" => ware'[q].scheduled = "none"
                      /\ ~(q \in ps /\ Kept(q)) => ware'[q] = ware[q]
    OBVIOUS
  <2>1. PICK w, d, on : w = ware[q] /\ d = date(q) /\ on = BulkSchedule(status, w.scheduled)
    OBVIOUS
  <2>2. w \in WareKind /\ d \in 0..MaxStamps /\ on \in Schedules /\ (status = "ACTIVE" => on = "none")
    BY <2>1, CatalogueStands, CatalogueAssumption DEF WareKind, FirstPublished, BulkSchedule, Schedules
  <2>3. q \in ps /\ Kept(q) => ware'[q] = [w EXCEPT !.status = status, !.published = d, !.scheduled = on]
    BY <1>1, <2>1
  <2>4. PICK wn : wn = [w EXCEPT !.status = status, !.published = d, !.scheduled = on]
    OBVIOUS
  <2>5. wn \in WareKind /\ wn.sold = w.sold /\ wn.status = status /\ wn.published = d /\ wn.scheduled = on
    BY <2>2, <2>4 DEF WareKind
  <2>6. ~(q \in ps /\ Kept(q)) => ware'[q] = w
    BY <1>1, <2>1
  <2> QED
    BY <2>1, <2>2, <2>3, <2>4, <2>5, <2>6
<1>3. \A q \in Wares : FairTo(ware[q], ware'[q], row[q], row'[q], news[q])
  <2> SUFFICES ASSUME NEW q \in Wares PROVE FairTo(ware[q], ware'[q], row[q], row'[q], news[q])
    OBVIOUS
  <2>1. CASE q \in ps /\ Kept(q)
    <3>1. Rewritten(ware[q], ware'[q], status, date(q))
      BY <1>2, <2>1 DEF Rewritten, Kept, WareStatuses
    <3>2. \A k \in RowKeys : row'[q][k] = row[q][k]
      BY <1>1
    <3>3. FairTo(ware[q], ware'[q], row[q], row'[q], News(q, status, date(q)))
      BY <3>1, <3>2, StampIsFair
    <3> QED
      BY <2>1, <3>3
  <2>2. CASE ~(q \in ps /\ Kept(q))
    <3>1. ware'[q] = ware[q] /\ row'[q] = row[q] /\ news[q] = {}
      BY <1>1, <1>2, <2>2
    <3> QED
      BY <3>1, CatalogueStands DEF FairTo, RowKind
  <2> QED
    BY <2>1, <2>2
<1>4. ware' \in [Wares -> WareKind]
  BY <1>1, <1>2
<1>5. Fairly(ware, ware', row, row', news)
  BY <1>1, <1>3, <1>4, CatalogueStands DEF Fairly
<1>6. editor' \in [Editors -> EditType] /\ \A v \in Editors : GoesOn(editor[v], editor'[v], news)
  <2>1. \A v \in Editors : editor'[v] \in EditType /\ GoesOn(editor[v], editor'[v], news)
    <3> SUFFICES ASSUME NEW v \in Editors PROVE editor'[v] \in EditType /\ GoesOn(editor[v], editor'[v], news)
      OBVIOUS
    <3>1. PICK c, extra : /\ c = editor[v]
                          /\ extra = UNION {{<<p, f>> : f \in News(p, status, FirstPublished(status, ware[p].published))} :
                                            p \in {q \in ps : Kept(q) /\ (c.ware = q \/ q \in c.listed)}}
      OBVIOUS
    <3>2. editor'[v] = [c EXCEPT !.missed = @ \cup extra]
      BY <3>1 DEF BulkSetStatus
    <3>3. extra \in SUBSET (Wares \X NewsKinds)
      BY <3>1, NewsIsNews
    <3>4. \A q \in Wares : c.ware = q \/ q \in c.listed => \A f \in news[q] : <<q, f>> \in extra
      BY <3>1
    <3>5. c \in EditType
      BY <3>1, CatalogueStands
    <3>6. PICK d : d = [c EXCEPT !.missed = @ \cup extra]
      OBVIOUS
    <3>7. /\ d \in EditType /\ d.at = c.at /\ d.ware = c.ware /\ d.on = c.on /\ d.off = c.off /\ d.status = c.status
          /\ d.scheduled = c.scheduled /\ d.had = c.had /\ d.spared = c.spared /\ d.known = c.known /\ d.listed = c.listed
          /\ d.missed = c.missed \cup extra
      BY <3>3, <3>5, <3>6 DEF EditType
    <3>8. GoesOn(c, d, news)
      <4> HIDE DEF news
      <4> QED
        BY <3>4, <3>7 DEF GoesOn
    <3> QED
      BY <3>1, <3>2, <3>6, <3>7, <3>8
  <2> QED
    BY <2>1 DEF BulkSetStatus
<1>7. LiveIsNotScheduled'
  BY <1>2, CatalogueStands DEF LiveIsNotScheduled
<1>8. WaresHold'
  <2>1. \A q \in Wares : ware'[q].status = "none" => ware'[q] = ware[q]
    BY <1>2 DEF WareStatuses
  <2> QED
    <3>1. row' = row /\ \A q \in Wares : ware'[q].sold = ware[q].sold
      BY <1>1, <1>2
    <3>2. WaresHold
      BY CatalogueStands
    <3> QED
      BY <2>1, <3>1, <3>2 DEF WaresHold
<1>9. CatalogueInv'
  <2>1. /\ row' \in [Wares -> [RowKeys -> RowKind]] /\ stamp' \in 1..MaxStamps
        /\ \A q \in Wares, k \in RowKeys : row'[q][k].there => row'[q][k].gen > 0
    BY <1>1, CatalogueStands
  <2> HIDE DEF news
  <2> QED
    BY <1>1, <1>4, <1>5, <1>6, <1>7, <1>8, <2>1, CatalogueKept
<1>10. OrdersOutlast
  BY <1>1 DEF OrdersOutlast
<1>11. FirstDaysOutlast
  <2>1. \A q \in Wares : ware[q].published # 0 => ware'[q].published = ware[q].published
    BY <1>2 DEF FirstPublished
  <2> QED
    BY <2>1 DEF FirstDaysOutlast
<1>12. DraftsAlone
  <2> HIDE DEF news
  <2> QED
    BY <1>6, GoingOnEndsNothing DEF DraftsAlone
<1> QED
  BY <1>9, <1>10, <1>11, <1>12 DEF DecisionsOutlast

LEMMA DeletionDone ==
    ASSUME CatalogueInv, NEW e \in Editors, CommitDelete(e)
    PROVE  CatalogueInv' /\ DecisionsOutlast
<1> DEFINE news == [q \in Wares |-> {}]
<1>1. PICK p, gone : p = editor[e].ware /\ gone = [NoWare EXCEPT !.status = "deleted"]
  OBVIOUS
<1>2. /\ editor[e].at = "delete" /\ ware' = [ware EXCEPT ![p] = gone]
      /\ row' = [row EXCEPT ![p] = [k \in RowKeys |-> [row[p][k] EXCEPT !.there = FALSE]]]
      /\ editor' = [editor EXCEPT ![e] = NoEdit] /\ UNCHANGED <<calls, stamp>>
  BY <1>1 DEF CommitDelete
<1>3. p \in Wares /\ \A k \in RowKeys : row[p][k].there /\ row[p][k].ordered => <<p, "ordered">> \in editor[e].missed
  BY <1>1, <1>2, CatalogueStands DEF EditorHolds
<1>4. gone \in WareKind /\ gone.status = "deleted"
  <2>1. NoWare \in WareKind
    BY CatalogueAssumption DEF WareKind, NoWare, WareStatuses, Schedules
  <2> QED
    BY <1>1, <2>1 DEF WareKind
<1>5. /\ ware' \in [Wares -> WareKind] /\ ware'[p] = gone
      /\ \A q \in Wares \ {p} : ware'[q] = ware[q] /\ row'[q] = row[q]
  BY <1>2, <1>3, <1>4, CatalogueStands
<1>6. \A k \in RowKeys : /\ row'[p][k] \in RowKind /\ row'[p][k].gen = row[p][k].gen /\ ~row'[p][k].there
                         /\ row'[p][k].gen \in Nat
  <2> SUFFICES ASSUME NEW k \in RowKeys
               PROVE  /\ row'[p][k] \in RowKind /\ row'[p][k].gen = row[p][k].gen /\ ~row'[p][k].there
                      /\ row'[p][k].gen \in Nat
    OBVIOUS
  <2>1. PICK r, s : r = row[p][k] /\ s = [r EXCEPT !.there = FALSE]
    OBVIOUS
  <2>2. r \in RowKind /\ row'[p][k] = s
    BY <1>2, <1>3, <2>1, CatalogueStands
  <2>3. s \in RowKind /\ s.gen = r.gen /\ ~s.there /\ s.gen \in Nat
    BY <2>1, <2>2 DEF RowKind
  <2> QED
    BY <2>1, <2>2, <2>3
<1>7. row' \in [Wares -> [RowKeys -> RowKind]]
  <2>1. row'[p] = [k \in RowKeys |-> [row[p][k] EXCEPT !.there = FALSE]]
    BY <1>2, <1>3, CatalogueStands
  <2>2. row'[p] \in [RowKeys -> RowKind]
    BY <1>6, <2>1
  <2>3. row' = [row EXCEPT ![p] = row'[p]]
    BY <1>2, <2>1
  <2> QED
    BY <1>3, <2>2, <2>3, CatalogueStands
<1>8. FairTo(ware[p], ware'[p], row[p], row'[p], {})
  BY <1>4, <1>5, <1>6 DEF FairTo
<1>9. \A q \in Wares \ {p} : FairTo(ware[q], ware'[q], row[q], row'[q], {})
  BY <1>5, CatalogueStands DEF FairTo, RowKind
<1>10. Fairly(ware, ware', row, row', news)
  BY <1>5, <1>7, <1>8, <1>9, CatalogueStands DEF Fairly
<1>11. /\ editor' \in [Editors -> EditType] /\ editor'[e] = NoEdit
       /\ \A v \in Editors \ {e} : editor'[v] = editor[v]
  BY <1>2, Unread, CatalogueStands
<1>12. \A v \in Editors \ {e} : GoesOn(editor[v], editor'[v], news)
  BY <1>11, CatalogueStands DEF GoesOn
<1>13. CatalogueInv'
  <2>1. \A v \in Editors : GoesOn(editor[v], editor'[v], news) \/ EditorHolds(editor'[v], ware', row')
    BY <1>11, <1>12, Unread
  <2>2. /\ calls' \in 0..MaxEditorCalls /\ stamp' \in 1..MaxStamps
        /\ \A q \in Wares, k \in RowKeys : row'[q][k].there => row'[q][k].gen > 0
    BY <1>2, <1>5, <1>6, CatalogueStands
  <2>3. LiveIsNotScheduled'
    BY <1>4, <1>5, CatalogueStands DEF LiveIsNotScheduled
  <2>4. WaresHold'
    BY <1>4, <1>5, <1>6, CatalogueStands DEF WaresHold
  <2> HIDE DEF news
  <2> QED
    BY <1>5, <1>7, <1>10, <1>11, <2>1, <2>2, <2>3, <2>4, CatalogueKept
<1>14. EditorEnds(e)
  BY <1>2, <1>11, Unread DEF EditorEnds
<1>15. OrdersOutlast
  BY <1>3, <1>5, <1>14 DEF OrdersOutlast
<1>16. FirstDaysOutlast
  BY <1>4, <1>5 DEF FirstDaysOutlast
<1>17. DraftsAlone
  BY <1>2, <1>12, GoingOnEndsNothing DEF DraftsAlone
<1> QED
  BY <1>13, <1>15, <1>16, <1>17 DEF DecisionsOutlast

LEMMA ProductCopied ==
    ASSUME CatalogueInv, NEW p \in Wares, NEW twin \in Wares, DuplicateProduct(p, twin)
    PROVE  CatalogueInv' /\ DecisionsOutlast
<1> DEFINE news == [q \in Wares |-> {}]
<1>1. PICK new : new = [NoWare EXCEPT !.status = "DRAFT"]
  OBVIOUS
<1>2. /\ ware[twin].status = "none" /\ ware' = [ware EXCEPT ![twin] = new]
      /\ row' = [row EXCEPT ![twin] = [k \in RowKeys |->
                    [gen |-> row[twin][k].gen + 1, there |-> row[p][k].there, active |-> row[p][k].active, ordered |-> FALSE]]]
      /\ UNCHANGED <<editor, stamp>> /\ calls' \in 0..MaxEditorCalls
  BY <1>1, CatalogueStands, CatalogueAssumption DEF DuplicateProduct, Calls
<1>3. new \in WareKind /\ new.status = "DRAFT" /\ new.published = 0
  <2>1. NoWare \in WareKind /\ NoWare.published = 0 /\ ~NoWare.sold
    BY CatalogueAssumption DEF WareKind, NoWare, WareStatuses, Schedules
  <2> QED
    BY <1>1, <2>1 DEF WareKind, WareStatuses
<1>4. /\ ware' \in [Wares -> WareKind] /\ ware'[twin] = new /\ ware[twin].published = 0
      /\ \A q \in Wares \ {twin} : ware'[q] = ware[q] /\ row'[q] = row[q]
  BY <1>2, <1>3, CatalogueStands DEF WaresHold
<1>5. \A k \in RowKeys : /\ row'[twin][k] \in RowKind /\ ~row'[twin][k].ordered /\ row[twin][k].gen < row'[twin][k].gen
                         /\ row'[twin][k].gen > 0
  <2> SUFFICES ASSUME NEW k \in RowKeys
               PROVE  /\ row'[twin][k] \in RowKind /\ ~row'[twin][k].ordered /\ row[twin][k].gen < row'[twin][k].gen
                      /\ row'[twin][k].gen > 0
    OBVIOUS
  <2>1. PICK r, s, t : /\ r = row[twin][k] /\ s = row[p][k]
                       /\ t = [gen |-> r.gen + 1, there |-> s.there, active |-> s.active, ordered |-> FALSE]
    OBVIOUS
  <2>2. r \in RowKind /\ s \in RowKind /\ row'[twin][k] = t
    BY <1>2, <2>1, CatalogueStands
  <2>3. r.gen \in Nat
    BY <2>2 DEF RowKind
  <2>4. t \in RowKind /\ ~t.ordered /\ t.gen = r.gen + 1
    BY <2>1, <2>2, <2>3 DEF RowKind
  <2> QED
    BY <2>1, <2>2, <2>3, <2>4
<1>6. row' \in [Wares -> [RowKeys -> RowKind]]
  <2>1. row'[twin] = [k \in RowKeys |->
                    [gen |-> row[twin][k].gen + 1, there |-> row[p][k].there, active |-> row[p][k].active, ordered |-> FALSE]]
    BY <1>2, CatalogueStands
  <2>2. row'[twin] \in [RowKeys -> RowKind]
    BY <1>5, <2>1
  <2>3. row' = [row EXCEPT ![twin] = row'[twin]]
    BY <1>2, <2>1
  <2> QED
    BY <2>2, <2>3, CatalogueStands
<1>7. FairTo(ware[twin], ware'[twin], row[twin], row'[twin], {})
  <2>1. \A k \in RowKeys : row[twin][k].gen \in Nat /\ row'[twin][k].gen \in Nat
    BY <1>6, CatalogueStands DEF RowKind
  <2> QED
    BY <1>2, <1>3, <1>4, <1>5, <2>1 DEF FairTo
<1>8. \A q \in Wares \ {twin} : FairTo(ware[q], ware'[q], row[q], row'[q], {})
  BY <1>4, CatalogueStands DEF FairTo, RowKind
<1>9. Fairly(ware, ware', row, row', news)
  BY <1>4, <1>6, <1>7, <1>8, CatalogueStands DEF Fairly
<1>10. CatalogueInv'
  <2>1. \A v \in Editors : GoesOn(editor[v], editor'[v], news)
    BY <1>2, CatalogueStands DEF GoesOn
  <2>2. /\ stamp' \in 1..MaxStamps /\ editor' \in [Editors -> EditType]
        /\ \A q \in Wares, k \in RowKeys : row'[q][k].there => row'[q][k].gen > 0
    BY <1>2, <1>4, <1>5, CatalogueStands
  <2>3. LiveIsNotScheduled'
    BY <1>3, <1>4, CatalogueStands DEF LiveIsNotScheduled
  <2>4. WaresHold'
    BY <1>3, <1>4, <1>5, CatalogueStands DEF WaresHold
  <2> HIDE DEF news
  <2> QED
    BY <1>2, <1>4, <1>6, <1>9, <2>1, <2>2, <2>3, <2>4, CatalogueKept
<1>11. OrdersOutlast
  <2>1. \A k \in RowKeys : ~(row[twin][k].there /\ row[twin][k].ordered /\ ~row'[twin][k].there)
    <3> SUFFICES ASSUME NEW k \in RowKeys, row[twin][k].there, row[twin][k].ordered PROVE FALSE
      OBVIOUS
    <3>1. ware[twin].sold
      BY CatalogueStands DEF WaresHold
    <3> QED
      BY <1>2, <3>1, CatalogueStands DEF WaresHold
  <2> QED
    BY <1>4, <2>1 DEF OrdersOutlast
<1>12. FirstDaysOutlast
  BY <1>4 DEF FirstDaysOutlast
<1>13. DraftsAlone
  BY <1>2 DEF DraftsAlone, EditorEnds
<1> QED
  BY <1>10, <1>11, <1>12, <1>13 DEF DecisionsOutlast

LEMMA LineOrdered ==
    ASSUME CatalogueInv, NEW p \in Wares, NEW k \in RowKeys, OrderLine(p, k)
    PROVE  CatalogueInv' /\ DecisionsOutlast
<1> DEFINE news == [q \in Wares |-> IF q = p THEN {"ordered"} ELSE {}]
<1>1. PICK w, wn, r, rn : /\ w = ware[p] /\ wn = [w EXCEPT !.sold = TRUE]
                          /\ r = row[p][k] /\ rn = [r EXCEPT !.ordered = TRUE]
  OBVIOUS
<1>2. /\ w.status = "ACTIVE" /\ r.there
      /\ ware' = [ware EXCEPT ![p] = wn] /\ row' = [row EXCEPT ![p] = [@ EXCEPT ![k] = rn]]
      /\ editor' = Told("nobody", NoEdit, p, {"ordered"}) /\ UNCHANGED <<calls, stamp>>
  BY <1>1, CatalogueStands DEF OrderLine
<1>3. w \in WareKind /\ r \in RowKind
  BY <1>1, CatalogueStands
<1>4. wn \in WareKind /\ wn.sold /\ wn.status = w.status /\ wn.published = w.published /\ wn.scheduled = w.scheduled
  BY <1>1, <1>3 DEF WareKind
<1>5. rn \in RowKind /\ rn.gen = r.gen /\ rn.there = r.there /\ rn.ordered
  BY <1>1, <1>3 DEF RowKind
<1>6. /\ ware' \in [Wares -> WareKind] /\ ware'[p] = wn
      /\ \A q \in Wares \ {p} : ware'[q] = ware[q] /\ row'[q] = row[q]
  BY <1>2, <1>4, CatalogueStands
<1>7. row'[p] = [row[p] EXCEPT ![k] = rn] /\ row[p] \in [RowKeys -> RowKind]
  BY <1>2, CatalogueStands
<1>8. row'[p] \in [RowKeys -> RowKind] /\ row'[p][k] = rn /\ \A j \in RowKeys \ {k} : row'[p][j] = row[p][j]
  BY <1>5, <1>7
<1>9. row' \in [Wares -> [RowKeys -> RowKind]]
  <2>1. row' = [row EXCEPT ![p] = row'[p]]
    BY <1>2, <1>7
  <2> QED
    BY <1>8, <2>1, CatalogueStands
<1>10. \A j \in RowKeys : /\ row[p][j].gen \in Nat /\ row'[p][j].gen = row[p][j].gen
                          /\ row'[p][j].there = row[p][j].there
  BY <1>1, <1>5, <1>7, <1>8 DEF RowKind
<1>11. FairTo(ware[p], ware'[p], row[p], row'[p], {"ordered"})
  BY <1>1, <1>4, <1>6, <1>10 DEF FairTo
<1>12. \A q \in Wares \ {p} : FairTo(ware[q], ware'[q], row[q], row'[q], {})
  BY <1>6, CatalogueStands DEF FairTo, RowKind
<1>13. Fairly(ware, ware', row, row', news)
  BY <1>6, <1>9, <1>11, <1>12, CatalogueStands DEF Fairly
<1>14. editor' \in [Editors -> EditType] /\ \A v \in Editors : GoesOn(editor[v], editor'[v], news)
  <2>1. {"ordered"} \in SUBSET NewsKinds /\ "nobody" \notin Editors
    BY CatalogueAssumption DEF NewsKinds
  <2>a. PICK e, facts, then : e = "nobody" /\ facts = {"ordered"} /\ then = NoEdit
    OBVIOUS
  <2>b. then \in EditType /\ facts \in SUBSET NewsKinds /\ editor' = Told(e, then, p, facts)
    BY <1>2, <2>1, <2>a, Unread
  <2>c. /\ editor' \in [Editors -> EditType]
        /\ \A v \in Editors \ {e} : GoesOn(editor[v], editor'[v], [q \in Wares |-> IF q = p THEN facts ELSE {}])
    BY <2>b, ToldTells, ZenonT(60)
  <2>2. /\ editor' \in [Editors -> EditType]
        /\ \A v \in Editors \ {"nobody"} : GoesOn(editor[v], editor'[v], news)
    BY <2>a, <2>c
  <2> HIDE DEF news
  <2> QED
    BY <2>1, <2>2
<1>15. CatalogueInv'
  <2>1. /\ calls' \in 0..MaxEditorCalls /\ stamp' \in 1..MaxStamps
    BY <1>2, CatalogueStands
  <2>2. \A q \in Wares, j \in RowKeys : row'[q][j].there => row'[q][j].gen > 0
    BY <1>6, <1>10, CatalogueStands
  <2>3. LiveIsNotScheduled'
    <3>1. ware'[p].scheduled = ware[p].scheduled /\ ware'[p].status = ware[p].status
      BY <1>1, <1>4, <1>6
    <3> QED
      BY <1>6, <3>1, CatalogueStands DEF LiveIsNotScheduled
  <2>4. WaresHold'
    <3>1. ware'[p].sold /\ ware'[p].status # "none"
      BY <1>2, <1>4, <1>6
    <3> QED
      BY <1>6, <3>1, CatalogueStands DEF WaresHold
  <2> HIDE DEF news
  <2> QED
    BY <1>6, <1>9, <1>13, <1>14, <2>1, <2>2, <2>3, <2>4, CatalogueKept
<1>16. OrdersOutlast
  BY <1>6, <1>10 DEF OrdersOutlast
<1>17. FirstDaysOutlast
  BY <1>1, <1>4, <1>6 DEF FirstDaysOutlast
<1>18. DraftsAlone
  <2> HIDE DEF news
  <2> QED
    BY <1>14, GoingOnEndsNothing DEF DraftsAlone
<1> QED
  BY <1>15, <1>16, <1>17, <1>18 DEF DecisionsOutlast

LEMMA TimePassed ==
    ASSUME CatalogueInv, CataloguePasses
    PROVE  CatalogueInv' /\ DecisionsOutlast
<1> DEFINE news == [q \in Wares |-> {}]
<1>1. UNCHANGED <<row, editor, calls>>
  BY DEF CataloguePasses
<1>2. /\ ware' \in [Wares -> WareKind] /\ stamp' \in 1..MaxStamps
      /\ \A q \in Wares : /\ ware'[q].status = ware[q].status /\ ware'[q].published = ware[q].published
                          /\ ware'[q].sold = ware[q].sold
                          /\ ware[q].scheduled = "none" => ware'[q].scheduled = "none"
  <2>1. CASE stamp < MaxStamps /\ stamp' = stamp + 1 /\ UNCHANGED ware
    BY <2>1, CatalogueStands, CatalogueAssumption
  <2>2. CASE \E p \in Wares : /\ ware[p].scheduled = "later" /\ ware' = [ware EXCEPT ![p].scheduled = "due"]
                              /\ UNCHANGED stamp
    <3>1. PICK p \in Wares : /\ ware[p].scheduled = "later" /\ ware' = [ware EXCEPT ![p].scheduled = "due"]
                             /\ UNCHANGED stamp
      BY <2>2
    <3>2. PICK w, wn : w = ware[p] /\ wn = [w EXCEPT !.scheduled = "due"]
      OBVIOUS
    <3>3. w \in WareKind
      BY <3>2, CatalogueStands
    <3>4. wn \in WareKind /\ wn.status = w.status /\ wn.published = w.published /\ wn.sold = w.sold
      BY <3>2, <3>3 DEF WareKind, Schedules
    <3>5. ware' = [ware EXCEPT ![p] = wn]
      BY <3>1, <3>2, CatalogueStands
    <3>6. ware' \in [Wares -> WareKind] /\ ware'[p] = wn /\ \A q \in Wares \ {p} : ware'[q] = ware[q]
      BY <3>4, <3>5, CatalogueStands
    <3> QED
      BY <3>1, <3>2, <3>4, <3>6, CatalogueStands
  <2> QED
    BY <2>1, <2>2 DEF CataloguePasses
<1>3. \A q \in Wares : FairTo(ware[q], ware'[q], row[q], row'[q], {})
  BY <1>1, <1>2, CatalogueStands DEF FairTo, RowKind
<1>4. Fairly(ware, ware', row, row', news)
  BY <1>1, <1>2, <1>3, CatalogueStands DEF Fairly
<1>5. CatalogueInv'
  <2>1. \A v \in Editors : GoesOn(editor[v], editor'[v], news)
    BY <1>1, CatalogueStands DEF GoesOn
  <2>2. /\ calls' \in 0..MaxEditorCalls /\ editor' \in [Editors -> EditType] /\ row' \in [Wares -> [RowKeys -> RowKind]]
        /\ \A q \in Wares, k \in RowKeys : row'[q][k].there => row'[q][k].gen > 0
    BY <1>1, CatalogueStands
  <2>3. LiveIsNotScheduled'
    BY <1>2, CatalogueStands DEF LiveIsNotScheduled
  <2>4. WaresHold'
    BY <1>1, <1>2, CatalogueStands DEF WaresHold
  <2> HIDE DEF news
  <2> QED
    BY <1>2, <1>4, <2>1, <2>2, <2>3, <2>4, CatalogueKept
<1>6. OrdersOutlast /\ DraftsAlone
  BY <1>1 DEF OrdersOutlast, DraftsAlone, EditorEnds
<1>7. FirstDaysOutlast
  BY <1>2 DEF FirstDaysOutlast
<1> QED
  BY <1>5, <1>6, <1>7 DEF DecisionsOutlast

LEMMA CatalogueStep ==
    ASSUME CatalogueInv, CatalogueNext \/ UNCHANGED catalogueVars
    PROVE  CatalogueInv' /\ DecisionsOutlast
<1>1. CASE UNCHANGED catalogueVars
  <2>1. UNCHANGED <<ware, row, editor, calls, stamp>>
    BY <1>1 DEF catalogueVars
  <2>2. CatalogueInv'
    <3>1. \A v \in Editors : EditorHolds(editor'[v], ware', row')
      BY <2>1, CatalogueStands
    <3>2. CatalogueTyped'
      BY <2>1 DEF CatalogueInv, CatalogueTyped, CatalogueTypeOK
    <3> QED
      BY <2>1, <3>1, <3>2, NoNews DEF CatalogueInv
  <2> QED
    BY <2>1, <2>2, NothingCrossed
<1>2. CASE \E e \in Editors, p \in Wares : \E on, off \in SUBSET RowKeys, s \in WareStatuses, d \in {"none", "later"} :
              OpenProductSave(e, p, on, off, s, d)
  <2>1. PICK e \in Editors, p \in Wares, on \in SUBSET RowKeys, off \in SUBSET RowKeys, s \in WareStatuses, d \in {"none", "later"} :
           OpenProductSave(e, p, on, off, s, d)
    BY <1>2
  <2>2. UNCHANGED <<ware, row>>
    BY <2>1 DEF OpenProductSave
  <2> QED
    BY <2>1, <2>2, ProductSaveOpened, NothingCrossed
<1>3. CASE \E e \in Editors, p \in Wares : \E s \in WareStatuses : OpenStatusChange(e, p, s)
  BY <1>3, StatusChangeOpened, NothingCrossed DEF OpenStatusChange
<1>4. CASE \E e \in Editors, p \in Wares : OpenDelete(e, p)
  BY <1>4, DeleteOpened, NothingCrossed DEF OpenDelete
<1>5. CASE \E e \in Editors : CommitProductSave(e)
  BY <1>5, ProductSaved
<1>6. CASE \E e \in Editors : CommitStatusChange(e)
  BY <1>6, StatusChanged
<1>7. CASE \E e \in Editors : CommitDelete(e)
  BY <1>7, DeletionDone
<1>8. CASE \E e \in Editors : ListDue(e)
  BY <1>8, DueListed, NothingCrossed DEF ListDue
<1>9. CASE \E e \in Editors : PublishListed(e)
  BY <1>9, ListedPublished
<1>10. CASE \E ps \in SUBSET Wares \ {{}}, s \in WareStatuses : BulkSetStatus(ps, s)
  BY <1>10, BulkIsSet
<1>11. CASE \E p, twin \in Wares : DuplicateProduct(p, twin)
  BY <1>11, ProductCopied
<1>12. CASE \E p \in Wares, k \in RowKeys : OrderLine(p, k)
  BY <1>12, LineOrdered
<1>13. CASE CataloguePasses
  BY <1>13, TimePassed
<1> QED
  BY <1>1, <1>2, <1>3, <1>4, <1>5, <1>6, <1>7, <1>8, <1>9, <1>10, <1>11, <1>12, <1>13 DEF CatalogueNext

-----------------------------------------------------------------------------
(* Breach notices: nobody is told twice, and everyone once a run has ended. *)

NoticeKind == [who : People, key : Keys, status : Outcomes \cup {"SKIPPED"}]

LEMMA IncidentsStand ==
    ASSUME IncidentsInv
    PROVE  /\ standing \in [People -> {"stranger", "account", "erased"}]
           /\ notices \subseteq NoticeKind /\ IsFiniteSet(notices)
           /\ reached \in [People -> Nat] /\ notified \in Nat /\ send \in [Servers -> SendType]
           /\ unheard \subseteq People /\ rekeyed \subseteq People /\ missed \subseteq People /\ purged \in BOOLEAN
           /\ presses \in 0..MostPresses /\ turns \in 0..MostTurns
           /\ KeysHold /\ OneRowAKey /\ ReachedByRows /\ WalkHolds
BY DEF IncidentsInv, IncidentsTyped, IncidentsTypeOK, NoticeKind

LEMMA NobodySending == /\ NotSending \in SendType /\ NotSending.at = "idle" /\ NotSending.batch = {}
                       /\ NotSending.without = {}
BY DEF NotSending, SendType

\* Who is settled stays so.
LEMMA SettledStays ==
    ASSUME NEW x, Settled(x), Rows(x) # {} => Rows(x)' # {}, missed \subseteq missed', rekeyed \subseteq rekeyed',
           standing[x] = "erased" => standing'[x] = "erased"
    PROVE  Settled(x)'
BY DEF Settled

LEMMA RowsGrow == ASSUME NEW x, notices \subseteq notices', Rows(x) # {} PROVE Rows(x)' # {}
BY DEF Rows

\* A server moves on, and writes no notice in doing so.
LEMMA ServerMoves ==
    ASSUME IncidentsInv, NEW s \in Servers, NEW c \in SendType, send' = [send EXCEPT ![s] = c],
           UNCHANGED <<standing, notices, rekeyed, unheard, reached, purged>>, notified' \in Nat,
           missed' \subseteq People, missed \subseteq missed',
           presses' \in 0..MostPresses, presses' >= presses, turns' \in 0..MostTurns,
           c.at # "idle" => presses' > 0,
           \A x \in c.without : c.at # "idle" => AsNumber(x),
           \A x \in c.batch : /\ c.at = "accounts" => AsAccount(x)
                              /\ c.at = "strangers" => x \in c.without,
           ~purged => \A x \in People : Walked(c, x)'
    PROVE  IncidentsInv'
<1>1. send' \in [Servers -> SendType] /\ \A v \in Servers : send'[v] = IF v = s THEN c ELSE send[v]
  BY IncidentsStand
<1>2. IncidentsTyped'
  <2>1. \A v \in Servers : send'[v].batch \subseteq People
    BY <1>1 DEF SendType
  <2>2. notices' \subseteq [who : People, key : Keys, status : Outcomes \cup {"SKIPPED"}]
    BY IncidentsStand DEF NoticeKind
  <2> QED
    BY <1>1, <2>1, <2>2, IncidentsStand DEF IncidentsTyped, IncidentsTypeOK
<1>3. KeysHold'
  <2>0. KeysHold /\ presses \in Nat /\ presses' \in Nat
    BY IncidentsStand
  <2>1. \A v \in Servers : send'[v].at # "idle" => presses' > 0
    BY <1>1, <2>0 DEF KeysHold
  <2>2. \A v \in Servers : \A x \in send'[v].without : send'[v].at # "idle" => AsNumber(x)'
    BY <1>1, <2>0 DEF KeysHold, AsNumber
  <2>3. \A v \in Servers : \A x \in send'[v].batch :
            /\ send'[v].at = "accounts" => AsAccount(x)'
            /\ send'[v].at = "strangers" => x \in send'[v].without
    <3> SUFFICES ASSUME NEW v \in Servers, NEW e, e = send'[v], NEW x \in e.batch
                 PROVE  (e.at = "accounts" => AsAccount(x)) /\ (e.at = "strangers" => x \in e.without)
      BY DEF AsAccount
    <3>1. e = c \/ e = send[v]
      BY <1>1
    <3>2. e = send[v] => /\ e.at = "accounts" => AsAccount(x)
                         /\ e.at = "strangers" => x \in e.without
      BY <2>0 DEF KeysHold
    <3> QED
      BY <3>1, <3>2
  <2>4. \A n \in notices' : /\ presses' > 0
                            /\ n.key = "account" => AsAccount(n.who)'
                            /\ n.key = "number" => AsNumber(n.who)'
    BY <2>0 DEF KeysHold, AsAccount, AsNumber
  <2> QED
    BY <2>1, <2>2, <2>3, <2>4 DEF KeysHold
<1>4. ReachedByRows' /\ OneRowAKey'
  BY IncidentsStand DEF ReachedByRows, SentBy, OneRowAKey
<1>5. WalkHolds'
  <2> SUFFICES ASSUME ~purged, NEW v \in Servers, NEW e, e = send'[v], NEW x \in People PROVE Walked(e, x)'
    BY DEF WalkHolds, Walked
  <2>1. CASE v = s
    <3>1. e = c
      BY <1>1, <2>1
    <3> QED
      BY <3>1
  <2>2. CASE v # s
    <3>1. e = send[v]
      BY <1>1, <2>2
    <3>2. Walked(e, x)
      BY <3>1, IncidentsStand DEF WalkHolds
    <3>3. Settled(x) => Settled(x)'
      BY SettledStays, RowsGrow
    <3> QED
      BY <3>2, <3>3 DEF Walked
  <2> QED
    BY <2>1, <2>2
<1> QED
  BY <1>2, <1>3, <1>4, <1>5 DEF IncidentsInv

LEMMA IncidentsBegin == IncidentsInit => IncidentsInv
<1> SUFFICES ASSUME IncidentsInit PROVE IncidentsInv
  OBVIOUS
<1>1. IncidentsTyped
  <2>1. IsFiniteSet(notices)
    BY FS_EmptySet DEF IncidentsInit
  <2>2. 0 \in 0..MostPresses /\ 0 \in 0..MostTurns
    BY IncidentsAssumption
  <2>3. send \in [Servers -> SendType] /\ \A s \in Servers : send[s].batch = {}
    BY NobodySending DEF IncidentsInit
  <2> QED
    BY <2>1, <2>2, <2>3 DEF IncidentsInit, IncidentsTyped, IncidentsTypeOK
<1>2. \A s \in Servers : send[s].at = "idle" /\ send[s].batch = {} /\ send[s].without = {}
  BY NobodySending DEF IncidentsInit
<1>3. KeysHold
  BY <1>2 DEF IncidentsInit, KeysHold
<1>4. ReachedByRows /\ OneRowAKey
  BY DEF IncidentsInit, ReachedByRows, OneRowAKey
<1>5. WalkHolds
  BY <1>2 DEF WalkHolds, Walked
<1> QED
  BY <1>1, <1>3, <1>4, <1>5 DEF IncidentsInv

LEMMA SendPressed ==
    ASSUME IncidentsInv, NEW s \in Servers, PressSend(s)
    PROVE  IncidentsInv' /\ notified' >= notified
<1>1. PICK without : without = People \ Accounts
  OBVIOUS
<1>2. PICK c : c = [NotSending EXCEPT !.at = "page", !.without = without]
  OBVIOUS
<1>3. without \subseteq People /\ \A x \in People \ without : standing[x] = "account" /\ x > 0
  BY <1>1, IncidentsAssumption DEF Accounts
<1>4. c \in SendType /\ c.at = "page" /\ c.without = without /\ c.batch = {} /\ c.cursor = 0
  BY <1>2, <1>3 DEF NotSending, SendType
<1>5. /\ send' = [send EXCEPT ![s] = c] /\ presses < MostPresses /\ presses' = presses + 1
      /\ UNCHANGED <<standing, notices, notified, reached, unheard, rekeyed, missed, purged, turns>>
  BY <1>1, <1>2 DEF PressSend
<1>6. presses' \in 0..MostPresses /\ presses' >= presses /\ presses' > 0
  BY <1>5, IncidentsStand, IncidentsAssumption
<1>7. \A x \in People : Walked(c, x)'
  BY <1>3, <1>4, <1>5 DEF Walked
<1>8. \A x \in c.without : AsNumber(x)
  BY <1>1, <1>4 DEF Accounts, AsNumber
<1>9. notified' \in Nat /\ missed' \subseteq People /\ missed \subseteq missed' /\ turns' \in 0..MostTurns /\ notified' >= notified
  BY <1>5, IncidentsStand
<1> QED
  BY <1>4, <1>5, <1>6, <1>7, <1>8, <1>9, ServerMoves

\* The first of some people, and the last.
LEMMA LeastPerson ==
    ASSUME NEW xs, xs \subseteq People, xs # {}
    PROVE  Min(xs) \in xs /\ \A y \in xs : Min(xs) <= y
<1>1. \E n \in xs : \A m \in xs : n <= m
  BY IncidentsAssumption, LeastOf
<1> QED
  BY <1>1 DEF Min

LEMMA LastOne ==
    ASSUME NEW xs, xs \subseteq People, xs # {}
    PROVE  Max(xs) \in xs /\ \A y \in xs : y <= Max(xs)
<1>1. IsFiniteSet(xs)
  BY FS_Subset, IncidentsAssumption
<1>2. xs \subseteq Int
  BY IncidentsAssumption
<1> QED
  BY <1>1, <1>2, TopOf

\* A page takes the lowest: someone if there is anyone, and whom it leaves comes
\* after all it took.
LEMMA PageIsLowest ==
    ASSUME NEW xs, xs \subseteq People
    PROVE  /\ Lowest(xs, Batch) \subseteq xs
           /\ xs # {} => Lowest(xs, Batch) # {}
           /\ \A x \in xs \ Lowest(xs, Batch) : \A b \in Lowest(xs, Batch) : x > b
<1>1. \A x \in xs : x \in Nat
  BY IncidentsAssumption
<1>2. Lowest(xs, Batch) \subseteq xs
  BY DEF Lowest
<1>3. ASSUME xs # {} PROVE Lowest(xs, Batch) # {}
  <2>1. PICK m : m = Min(xs)
    OBVIOUS
  <2>2. m \in xs /\ \A y \in xs : m <= y
    BY <1>3, <2>1, LeastPerson
  <2>3. {y \in xs : y < m} = {}
    BY <1>1, <2>2
  <2>4. Cardinality({y \in xs : y < m}) = 0
    BY <2>3, FS_EmptySet
  <2>5. Cardinality({y \in xs : y < m}) < Batch
    BY <2>4, IncidentsAssumption
  <2> QED
    BY <2>2, <2>5 DEF Lowest
<1>4. ASSUME NEW x \in xs \ Lowest(xs, Batch), NEW b \in Lowest(xs, Batch), ~(x > b) PROVE FALSE
  <2>1. x <= b /\ x \in Nat /\ b \in xs
    BY <1>1, <1>2, <1>4
  <2>2. PICK below, under : below = {y \in xs : y < b} /\ under = {y \in xs : y < x}
    OBVIOUS
  <2>3. under \subseteq below
    <3> SUFFICES ASSUME NEW y \in xs, y < x PROVE y < b
      BY <2>2
    <3>1. y \in Nat /\ b \in Nat
      BY <1>1, <2>1
    <3> QED
      BY <2>1, <3>1
  <2>4. IsFiniteSet(below)
    BY <2>2, FS_Subset, IncidentsAssumption
  <2>5. Cardinality(under) <= Cardinality(below) /\ IsFiniteSet(under)
    BY <2>3, <2>4, FS_Subset
  <2>6. Cardinality(under) \in Nat /\ Cardinality(below) \in Nat
    BY <2>4, <2>5, FS_CardinalityType
  <2>7. Cardinality(below) < Batch /\ ~(Cardinality(under) < Batch)
    BY <2>1, <2>2 DEF Lowest
  <2> QED
    BY <2>5, <2>6, <2>7, IncidentsAssumption
<1> QED
  BY <1>2, <1>3, <1>4

\* Whom a page passes over for good is marked: the walk resumed after the wrong one.
LEMMA AfterTheCursor ==
    ASSUME IncidentsInv, NEW cursor \in People \cup {0}, NEW x \in Accounts, x > cursor,
           missed' = IF cursor # 0 /\ cursor \notin Accounts
                     THEN missed \cup ({y \in Accounts : y > cursor} \ FromCursor(cursor)) ELSE missed
    PROVE  x \in FromCursor(cursor) \/ x \in missed'
<1>1. PICK from : from = {y \in Accounts : y >= cursor}
  OBVIOUS
<1>2. Accounts \subseteq People /\ People \subseteq Nat /\ cursor \in Nat /\ x \in Nat
  BY IncidentsAssumption DEF Accounts
<1>3. x \in from /\ from \subseteq People
  <2>1. x >= cursor
    BY <1>2
  <2>2. from \subseteq Accounts
    BY <1>1
  <2> QED
    BY <1>1, <1>2, <2>1, <2>2
<1>4. FromCursor(cursor) = IF cursor = 0 \/ from = {} THEN from ELSE from \ {Min(from)}
  BY <1>1 DEF FromCursor
<1>5. CASE cursor = 0
  BY <1>3, <1>4, <1>5
<1>6. CASE cursor # 0 /\ cursor \in Accounts
  <2>1. cursor \in from
    BY <1>1, <1>2, <1>6
  <2>2. Min(from) <= cursor /\ Min(from) \in Nat
    BY <1>2, <1>3, <2>1, LeastPerson
  <2>3. x # Min(from)
    BY <1>2, <2>2
  <2> QED
    BY <1>3, <1>4, <2>3
<1>7. CASE cursor # 0 /\ cursor \notin Accounts
  BY <1>7
<1> QED
  BY <1>5, <1>6, <1>7

LEMMA PageTurned ==
    ASSUME IncidentsInv, NEW s \in Servers, NextPage(s)
    PROVE  IncidentsInv' /\ notified' >= notified
<1>1. PICK d, cursor, batch : d = send[s] /\ cursor = d.cursor /\ batch = Lowest(FromCursor(cursor), Batch)
  OBVIOUS
<1>2. /\ d.at = "page"
      /\ send' = [send EXCEPT ![s] = IF batch = {} THEN [d EXCEPT !.at = "strangers", !.batch = d.without]
                                     ELSE [d EXCEPT !.at = "accounts", !.batch = batch, !.cursor = Max(batch)]]
      /\ missed' = IF cursor # 0 /\ cursor \notin Accounts
                   THEN missed \cup ({y \in Accounts : y > cursor} \ FromCursor(cursor)) ELSE missed
      /\ UNCHANGED <<standing, notices, notified, reached, unheard, rekeyed, purged, presses, turns>>
  BY <1>1, IncidentsStand DEF NextPage, NextCursor
<1>3. d \in SendType /\ cursor \in People \cup {0} /\ d.without \subseteq People
  BY <1>1, IncidentsStand DEF SendType
<1>4. FromCursor(cursor) \subseteq Accounts /\ Accounts \subseteq People
  BY DEF FromCursor, Accounts
<1>5. /\ batch \subseteq FromCursor(cursor) /\ (FromCursor(cursor) # {} => batch # {})
      /\ \A x \in FromCursor(cursor) \ batch : \A b \in batch : x > b
  BY <1>1, <1>4, PageIsLowest
<1>6. missed' \subseteq People /\ missed \subseteq missed'
  BY <1>2, <1>4, IncidentsStand
<1>7. presses > 0 /\ \A x \in d.without : AsNumber(x)
  BY <1>1, <1>2, IncidentsStand DEF KeysHold
<1>8. ASSUME ~purged, NEW x \in People
      PROVE  \/ Settled(x)' \/ x \in d.without
             \/ standing[x] = "account" /\ x \in FromCursor(cursor)
  <2>1. Walked(d, x)
    BY <1>1, <1>8, IncidentsStand DEF WalkHolds
  <2>2. Settled(x) \/ x \in d.without \/ (standing[x] = "account" /\ x > cursor)
    BY <1>1, <1>2, <2>1 DEF Walked
  <2>3. Settled(x) => Settled(x)'
    BY <1>2, <1>6, SettledStays, RowsGrow
  <2>4. standing[x] = "account" /\ x > cursor => x \in FromCursor(cursor) \/ x \in missed'
    <3>1. standing[x] = "account" => x \in Accounts
      BY <1>3 DEF Accounts
    <3> QED
      BY <1>2, <1>3, <3>1, AfterTheCursor
  <2> QED
    BY <2>2, <2>3, <2>4 DEF Settled
<1>9. notified' \in Nat /\ presses' \in 0..MostPresses /\ presses' >= presses /\ turns' \in 0..MostTurns /\ notified' >= notified
      /\ presses' > 0
  BY <1>2, <1>7, IncidentsStand
<1>10. CASE batch = {}
  <2>1. PICK c : c = [d EXCEPT !.at = "strangers", !.batch = d.without]
    OBVIOUS
  <2>2. c \in SendType /\ c.at = "strangers" /\ c.batch = d.without /\ c.without = d.without
    BY <1>3, <2>1 DEF SendType
  <2>3. send' = [send EXCEPT ![s] = c]
    BY <1>2, <1>10, <2>1
  <2>4. ~purged => \A x \in People : Walked(c, x)'
    BY <1>5, <1>8, <1>10, <2>2 DEF Walked
  <2>5. \A x \in c.without : c.at # "idle" => AsNumber(x)
    BY <1>7, <2>2
  <2>6. \A x \in c.batch : /\ c.at = "accounts" => AsAccount(x)
                           /\ c.at = "strangers" => x \in c.without
    BY <2>2
  <2> QED
    BY <1>2, <1>6, <1>9, <2>2, <2>3, <2>4, <2>5, <2>6, ServerMoves
<1>11. CASE batch # {}
  <2>1. PICK c, last : c = [d EXCEPT !.at = "accounts", !.batch = batch, !.cursor = last] /\ last = Max(batch)
    OBVIOUS
  <2>2. last \in batch /\ last \in People
    BY <1>4, <1>5, <1>11, <2>1, LastOne
  <2>3. /\ c \in SendType /\ c.at = "accounts" /\ c.batch = batch /\ c.cursor = last /\ c.without = d.without
    BY <1>3, <1>4, <1>5, <2>1, <2>2 DEF SendType
  <2>4. send' = [send EXCEPT ![s] = c]
    BY <1>2, <1>11, <2>1
  <2>5. ~purged => \A x \in People : Walked(c, x)'
    <3> SUFFICES ASSUME ~purged, NEW x \in People PROVE Walked(c, x)'
      OBVIOUS
    <3>1. Settled(x)' \/ x \in d.without \/ (standing[x] = "account" /\ x \in FromCursor(cursor))
      BY <1>8, <2>3
    <3>2. x \in FromCursor(cursor) => x \in batch \/ x > last
      BY <1>5, <2>2
    <3> QED
      BY <1>2, <2>3, <3>1, <3>2 DEF Walked
  <2>6. \A x \in c.without : c.at # "idle" => AsNumber(x)
    BY <1>7, <2>3
  <2>7. \A x \in c.batch : /\ c.at = "accounts" => AsAccount(x)
                           /\ c.at = "strangers" => x \in c.without
    BY <1>4, <1>5, <2>3 DEF Accounts, AsAccount
  <2> QED
    BY <1>2, <1>6, <1>9, <2>3, <2>4, <2>5, <2>6, <2>7, ServerMoves
<1> QED
  BY <1>10, <1>11

LEMMA CountTaken ==
    ASSUME IncidentsInv, NEW s \in Servers, CountSent(s)
    PROVE  IncidentsInv' /\ notified' >= notified
<1>1. PICK d, at, sent : /\ d = send[s] /\ at = IF d.at = "accounts" THEN "count page" ELSE "count all"
                         /\ sent = Cardinality({n \in notices : n.status = "SENT"})
  OBVIOUS
<1>2. PICK c : c = [d EXCEPT !.at = at, !.sent = sent]
  OBVIOUS
<1>3. /\ d.at \in {"accounts", "strangers"} /\ d.batch = {} /\ send' = [send EXCEPT ![s] = c]
      /\ UNCHANGED <<standing, notices, notified, reached, unheard, rekeyed, missed, purged, presses, turns>>
  BY <1>1, <1>2, IncidentsStand DEF CountSent
<1>4. sent \in Nat
  <2>1. IsFiniteSet({n \in notices : n.status = "SENT"})
    BY FS_Subset, IncidentsStand
  <2> QED
    BY <1>1, <2>1, FS_CardinalityType
<1>5. d \in SendType
  BY <1>1, IncidentsStand
<1>6. /\ c \in SendType /\ c.at = at /\ c.batch = {} /\ c.without = d.without /\ c.cursor = d.cursor
  BY <1>1, <1>2, <1>3, <1>4, <1>5 DEF SendType
<1>7. presses > 0 /\ \A x \in d.without : AsNumber(x)
  BY <1>1, <1>3, IncidentsStand DEF KeysHold
<1>8. ~purged => \A x \in People : Walked(c, x)'
  <2> SUFFICES ASSUME ~purged, NEW x \in People PROVE Walked(c, x)'
    OBVIOUS
  <2>1. Walked(d, x)
    BY <1>1, <1>6, IncidentsStand DEF WalkHolds
  <2>2. Settled(x) => Settled(x)'
    BY <1>3, SettledStays, RowsGrow
  <2> QED
    BY <1>1, <1>3, <1>6, <2>1, <2>2 DEF Walked
<1>9. /\ notified' \in Nat /\ missed' \subseteq People /\ missed \subseteq missed' /\ presses' \in 0..MostPresses
      /\ presses' >= presses /\ turns' \in 0..MostTurns /\ notified' >= notified /\ presses' > 0
  BY <1>3, <1>7, IncidentsStand
<1>10. \A x \in c.without : c.at # "idle" => AsNumber(x)
  BY <1>6, <1>7
<1>11. \A x \in c.batch : /\ c.at = "accounts" => AsAccount(x)
                          /\ c.at = "strangers" => x \in c.without
  BY <1>6
<1> QED
  BY <1>3, <1>6, <1>8, <1>9, <1>10, <1>11, ServerMoves

LEMMA CountRefreshed ==
    ASSUME IncidentsInv, NEW s \in Servers, RefreshCount(s)
    PROVE  IncidentsInv' /\ notified' >= notified
<1>1. PICK d : d = send[s]
  OBVIOUS
<1>2. PICK c : c = IF d.at = "count page" THEN [d EXCEPT !.at = "page"] ELSE NotSending
  OBVIOUS
<1>3. /\ d.at \in {"count page", "count all"} /\ send' = [send EXCEPT ![s] = c] /\ notified' = HigherCount(d.sent)
      /\ UNCHANGED <<standing, notices, reached, unheard, rekeyed, missed, purged, presses, turns>>
  BY <1>1, <1>2, IncidentsStand DEF RefreshCount
<1>4. d \in SendType /\ d.sent \in Nat /\ notified \in Nat
  BY <1>1, IncidentsStand DEF SendType
<1>5. notified' \in Nat /\ notified' >= notified
  <2>1. notified' = IF notified < d.sent THEN d.sent ELSE notified
    BY <1>3 DEF HigherCount
  <2> QED
    BY <1>4, <2>1
<1>6. presses > 0 /\ \A x \in d.without : AsNumber(x)
  BY <1>1, <1>3, IncidentsStand DEF KeysHold
<1>7. \/ /\ c \in SendType /\ c.at = "page" /\ c.batch = d.batch /\ c.without = d.without
         /\ c.cursor = d.cursor /\ d.at = "count page"
      \/ /\ c = NotSending
  BY <1>2, <1>4 DEF SendType
<1>8. c \in SendType
  BY <1>7, NobodySending
<1>9. ~purged => \A x \in People : Walked(c, x)'
  <2> SUFFICES ASSUME ~purged, NEW x \in People PROVE Walked(c, x)'
    OBVIOUS
  <2>1. CASE c = NotSending
    BY <2>1, NobodySending DEF Walked
  <2>2. CASE c # NotSending
    <3>1. c.at = "page" /\ c.cursor = d.cursor /\ c.without = d.without /\ d.at = "count page"
      BY <1>7, <2>2
    <3>2. Walked(d, x)
      BY <1>1, IncidentsStand DEF WalkHolds
    <3>3. Settled(x) => Settled(x)'
      BY <1>3, SettledStays, RowsGrow
    <3> QED
      BY <1>3, <3>1, <3>2, <3>3 DEF Walked
  <2> QED
    BY <2>1, <2>2
<1>10. /\ missed' \subseteq People /\ missed \subseteq missed' /\ presses' \in 0..MostPresses
       /\ presses' >= presses /\ turns' \in 0..MostTurns /\ presses' > 0
  <2>1. missed' = missed /\ presses' = presses /\ turns' = turns
    BY <1>3
  <2>2. missed \subseteq People /\ presses \in 0..MostPresses /\ turns \in 0..MostTurns
    BY IncidentsStand
  <2> QED
    BY <1>6, <2>1, <2>2
<1>11. \A x \in c.without : c.at # "idle" => AsNumber(x)
  BY <1>6, <1>7, NobodySending
<1>12. \A x \in c.batch : /\ c.at = "accounts" => AsAccount(x)
                          /\ c.at = "strangers" => x \in c.without
  BY <1>7, NobodySending
<1> QED
  BY <1>3, <1>5, <1>8, <1>9, <1>10, <1>11, <1>12, ServerMoves

LEMMA TurnTaken ==
    ASSUME IncidentsInv, Turn PROVE turns' \in 0..MostTurns
BY IncidentsStand, IncidentsAssumption DEF Turn

LEMMA ServerWentDown ==
    ASSUME IncidentsInv, NEW s \in Servers, ServerDown(s)
    PROVE  IncidentsInv' /\ notified' >= notified
<1>1. /\ send' = [send EXCEPT ![s] = NotSending] /\ Turn
      /\ UNCHANGED <<standing, notices, notified, reached, unheard, rekeyed, missed, purged, presses>>
  BY DEF ServerDown
<1>2. /\ notified' \in Nat /\ missed' \subseteq People /\ missed \subseteq missed' /\ presses' \in 0..MostPresses
      /\ presses' >= presses /\ notified' >= notified
  BY <1>1, IncidentsStand
<1>3. turns' \in 0..MostTurns
  BY <1>1, TurnTaken
<1>4. PICK c : c = NotSending
  OBVIOUS
<1>5. c \in SendType /\ c.at = "idle" /\ c.batch = {} /\ c.without = {} /\ send' = [send EXCEPT ![s] = c]
  BY <1>1, <1>4, NobodySending
<1>6. /\ \A x \in c.without : c.at # "idle" => AsNumber(x)
      /\ \A x \in c.batch : /\ c.at = "accounts" => AsAccount(x)
                            /\ c.at = "strangers" => x \in c.without
      /\ c.at # "idle" => presses' > 0
  BY <1>5
<1>7. ~purged => \A x \in People : Walked(c, x)'
  BY <1>5 DEF Walked
<1> QED
  BY <1>1, <1>2, <1>3, <1>5, <1>6, <1>7, ServerMoves

\* One notice is tried: it may have reached its person, who then is one not heard of,
\* or whose row says so.
LEMMA AttemptMade ==
    ASSUME IncidentsInv, NEW x \in People, NEW outcome \in Outcomes, NEW taken \in BOOLEAN, Attempt(x, outcome, taken)
    PROVE  /\ reached' \in [People -> Nat] /\ unheard' \subseteq People /\ unheard \subseteq unheard'
           /\ \/ reached' = reached
              \/ reached' = [reached EXCEPT ![x] = @ + 1] /\ (x \in unheard' \/ outcome = "SENT")
<1>1. reached \in [People -> Nat] /\ unheard \subseteq People
  BY IncidentsStand
<1>2. /\ reached' = IF taken THEN [reached EXCEPT ![x] = @ + 1] ELSE reached
      /\ unheard' = IF taken /\ outcome # "SENT" THEN unheard \cup {x} ELSE unheard
  BY DEF Attempt
<1> QED
  BY <1>1, <1>2

\* Nobody is reached again but by a row that was not SENT yet.
LEMMA ReachKept ==
    ASSUME IncidentsInv, NEW x \in People, NEW key \in Keys, ~SentBy(x, key),
           \A y \in People : \A k \in Keys : SentBy(y, k) => SentBy(y, k)',
           \/ reached' = reached
           \/ reached' = [reached EXCEPT ![x] = @ + 1] /\ (x \in unheard' \/ SentBy(x, key)'),
           unheard \subseteq unheard', purged' = purged
    PROVE  ReachedByRows'
<1> SUFFICES ASSUME ~purged, NEW y \in People, y \notin unheard'
             PROVE  reached'[y] <= (IF SentBy(y, "account")' THEN 1 ELSE 0) + (IF SentBy(y, "number")' THEN 1 ELSE 0)
  BY DEF ReachedByRows
<1>1. /\ reached[y] <= (IF SentBy(y, "account") THEN 1 ELSE 0) + (IF SentBy(y, "number") THEN 1 ELSE 0)
      /\ reached[y] \in Nat
  BY IncidentsStand DEF ReachedByRows
<1>2. /\ SentBy(y, "account") => SentBy(y, "account")'
      /\ SentBy(y, "number") => SentBy(y, "number")'
  BY DEF Keys
<1>3. CASE reached'[y] = reached[y]
  BY <1>1, <1>2, <1>3
<1>4. CASE reached'[y] # reached[y]
  <2>1. y = x /\ reached'[y] = reached[y] + 1 /\ SentBy(x, key)'
    BY <1>4, IncidentsStand
  <2>2. key = "account" \/ key = "number"
    BY DEF Keys
  <2> QED
    BY <1>1, <1>2, <2>1, <2>2
<1> QED
  BY <1>3, <1>4

\* A row is written, or one written again: the person has one, and the run that told
\* them crosses them off.
LEMMA NextTold ==
    ASSUME IncidentsInv, NEW s \in Servers, NEW outcome \in Outcomes, NEW taken \in BOOLEAN, TellNext(s, outcome, taken)
    PROVE  IncidentsInv' /\ notified' >= notified
<1>1. PICK d, x, key : d = send[s] /\ x = Min(d.batch) /\ key = KeyOf(s)
  OBVIOUS
<1>2. PICK c : c = [d EXCEPT !.batch = @ \ {x}]
  OBVIOUS
<1>3. /\ d.at \in {"accounts", "strangers"} /\ d.batch # {}
      /\ send' = [send EXCEPT ![s] = c]
      /\ UNCHANGED <<standing, notified, rekeyed, missed, purged, presses, turns>>
  BY <1>1, <1>2, IncidentsStand DEF TellNext
<1>4. d \in SendType /\ d.batch \subseteq People
  BY <1>1, IncidentsStand DEF SendType
<1>5. x \in d.batch /\ x \in People
  BY <1>1, <1>3, <1>4, LeastPerson
<1>6. c \in SendType /\ c.at = d.at /\ c.batch = d.batch \ {x} /\ c.without = d.without /\ c.cursor = d.cursor
  BY <1>2, <1>4 DEF SendType
<1>7. /\ key \in Keys /\ (key = "account" => d.at = "accounts") /\ (key = "number" => d.at = "strangers")
  BY <1>1, <1>3 DEF KeyOf, Keys
<1>8. /\ presses > 0 /\ (key = "account" => AsAccount(x)) /\ (key = "number" => AsNumber(x))
  <2>1. d.at = "accounts" \/ d.at = "strangers"
    BY <1>3
  <2>2. /\ d.at = "accounts" => AsAccount(x)
        /\ d.at = "strangers" => x \in d.without
    BY <1>1, <1>5, IncidentsStand DEF KeysHold
  <2>3. d.at # "idle" => presses > 0 /\ \A y \in d.without : AsNumber(y)
    BY <1>1, IncidentsStand DEF KeysHold
  <2> QED
    BY <1>7, <2>1, <2>2, <2>3
<1>9. send' \in [Servers -> SendType] /\ \A v \in Servers : send'[v] = IF v = s THEN c ELSE send[v]
  BY <1>3, <1>6, IncidentsStand
<1>10. PICK n : \/ /\ Already(x, key) /\ notices' = notices /\ reached' = reached /\ unheard' = unheard
                \/ /\ ~Already(x, key) /\ n \in NoticeKind /\ n.who = x /\ n.key = key
                   /\ notices' = notices \cup {n}
                   /\ \/ reached' = reached /\ unheard' = unheard
                      \/ Attempt(x, outcome, taken) /\ n.status = outcome
  <2>1. PICK given : given \in Outcomes \cup {"SKIPPED"}
                     /\ given = IF Placeholder(x, key) THEN "SKIPPED" ELSE outcome
    OBVIOUS
  <2>2. PICK n : n = [who |-> x, key |-> key, status |-> given]
    OBVIOUS
  <2>3. n \in NoticeKind /\ n.who = x /\ n.key = key /\ n.status = given
    BY <1>5, <1>7, <2>1, <2>2 DEF NoticeKind
  <2>4. \/ Already(x, key) /\ UNCHANGED <<notices, reached, unheard>>
        \/ /\ ~Already(x, key) /\ Placeholder(x, key) /\ UNCHANGED <<reached, unheard>>
           /\ notices' = notices \cup {[who |-> x, key |-> key, status |-> "SKIPPED"]}
        \/ /\ ~Already(x, key) /\ ~Placeholder(x, key) /\ Attempt(x, outcome, taken)
           /\ notices' = notices \cup {[who |-> x, key |-> key, status |-> outcome]}
    BY <1>1 DEF TellNext
  <2> QED
    BY <2>1, <2>2, <2>3, <2>4
<1>11. notices \subseteq notices' /\ notices' \subseteq notices \cup {n} /\ (notices' # notices => n \in NoticeKind)
  BY <1>10
<1>12. /\ reached' \in [People -> Nat] /\ unheard' \subseteq People /\ unheard \subseteq unheard'
       /\ \/ reached' = reached
          \/ /\ reached' = [reached EXCEPT ![x] = @ + 1] /\ (x \in unheard' \/ n.status = "SENT")
             /\ ~Already(x, key) /\ n \in notices' /\ n.who = x /\ n.key = key
  <2>1. CASE reached' = reached /\ unheard' = unheard
    BY <2>1, IncidentsStand
  <2>2. CASE /\ ~Already(x, key) /\ notices' = notices \cup {n} /\ n.who = x /\ n.key = key
             /\ Attempt(x, outcome, taken) /\ n.status = outcome
    BY <1>5, <2>2, AttemptMade
  <2> QED
    BY <1>10, <2>1, <2>2
<1>13. IncidentsTyped'
  <2>1. IsFiniteSet(notices')
    <3>1. IsFiniteSet(notices \cup {n})
      BY FS_AddElement, IncidentsStand
    <3> QED
      BY <1>10, <3>1, IncidentsStand
  <2>2. notices' \subseteq [who : People, key : Keys, status : Outcomes \cup {"SKIPPED"}]
    BY <1>10, IncidentsStand DEF NoticeKind
  <2>3. \A v \in Servers : send'[v].batch \subseteq People
    BY <1>9 DEF SendType
  <2> QED
    BY <1>3, <1>9, <1>12, <2>1, <2>2, <2>3, IncidentsStand DEF IncidentsTyped, IncidentsTypeOK
<1>14. KeysHold'
  <2>0. KeysHold /\ standing' = standing /\ rekeyed' = rekeyed /\ presses' = presses
    BY <1>3, IncidentsStand
  <2>1. \A v \in Servers : send'[v].at # "idle" => presses' > 0
    BY <1>8, <2>0
  <2>2. \A v \in Servers : \A y \in send'[v].without : send'[v].at # "idle" => AsNumber(y)'
    <3>1. \A y \in d.without : AsNumber(y)
      BY <1>1, <1>3, <2>0 DEF KeysHold
    <3> QED
      BY <1>6, <1>9, <2>0, <3>1 DEF KeysHold, AsNumber
  <2>3. \A v \in Servers : \A y \in send'[v].batch :
            /\ send'[v].at = "accounts" => AsAccount(y)'
            /\ send'[v].at = "strangers" => y \in send'[v].without
    <3> SUFFICES ASSUME NEW v \in Servers, NEW e, e = send'[v], NEW y \in e.batch
                 PROVE  (e.at = "accounts" => AsAccount(y)) /\ (e.at = "strangers" => y \in e.without)
      BY <2>0 DEF AsAccount
    <3>1. \A b \in send[v].batch : /\ send[v].at = "accounts" => AsAccount(b)
                                   /\ send[v].at = "strangers" => b \in send[v].without
      BY <2>0 DEF KeysHold
    <3>2. e.at = send[v].at /\ e.without = send[v].without /\ y \in send[v].batch
      BY <1>1, <1>6, <1>9
    <3> QED
      BY <3>1, <3>2
  <2>4. \A m \in notices' : /\ presses' > 0
                            /\ m.key = "account" => AsAccount(m.who)'
                            /\ m.key = "number" => AsNumber(m.who)'
    <3>1. \A m \in notices : (m.key = "account" => AsAccount(m.who)) /\ (m.key = "number" => AsNumber(m.who))
      BY <2>0 DEF KeysHold
    <3>2. \A y : (AsAccount(y) => AsAccount(y)') /\ (AsNumber(y) => AsNumber(y)')
      BY <2>0 DEF AsAccount, AsNumber
    <3> QED
      BY <1>8, <1>10, <2>0, <3>1, <3>2
  <2> QED
    BY <2>1, <2>2, <2>3, <2>4 DEF KeysHold
<1>15. OneRowAKey'
  BY <1>10, IncidentsStand DEF OneRowAKey, Already
<1>16. ReachedByRows'
  <2>1. \A y \in People : \A k \in Keys : SentBy(y, k) => SentBy(y, k)'
    BY <1>11 DEF SentBy
  <2>2. CASE reached' = reached
    <3>1. ASSUME ~purged', NEW y \in People \ unheard'
          PROVE reached'[y] <= (IF SentBy(y, "account")' THEN 1 ELSE 0) + (IF SentBy(y, "number")' THEN 1 ELSE 0)
      <4>1. /\ reached[y] <= (IF SentBy(y, "account") THEN 1 ELSE 0) + (IF SentBy(y, "number") THEN 1 ELSE 0)
            /\ reached[y] \in Nat
        BY <1>3, <1>12, <3>1, IncidentsStand DEF ReachedByRows
      <4>2. /\ SentBy(y, "account") => SentBy(y, "account")'
            /\ SentBy(y, "number") => SentBy(y, "number")'
        BY <2>1 DEF Keys
      <4> QED
        BY <2>2, <4>1, <4>2
    <3> QED
      BY <3>1 DEF ReachedByRows
  <2>3. CASE reached' # reached
    <3>1. /\ reached' = [reached EXCEPT ![x] = @ + 1] /\ (x \in unheard' \/ n.status = "SENT")
          /\ ~Already(x, key) /\ n \in notices' /\ n.who = x /\ n.key = key
      BY <1>12, <2>3
    <3>2. ~SentBy(x, key)
      BY <3>1 DEF Already, SentBy
    <3>3. n.status = "SENT" => SentBy(x, key)'
      BY <3>1 DEF SentBy
    <3> QED
      BY <1>3, <1>5, <1>7, <1>12, <2>1, <3>1, <3>2, <3>3, ReachKept
  <2> QED
    BY <2>2, <2>3
<1>17. WalkHolds'
  <2> SUFFICES ASSUME ~purged, NEW v \in Servers, NEW e, e = send'[v], NEW y \in People PROVE Walked(e, y)'
    BY <1>3 DEF WalkHolds, Walked
  <2>1. Settled(y) => Settled(y)'
    BY <1>3, <1>11, SettledStays, RowsGrow
  <2>2. CASE v # s
    <3>1. e = send[v]
      BY <1>9, <2>2
    <3>2. Walked(e, y)
      BY <3>1, IncidentsStand DEF WalkHolds
    <3> QED
      BY <1>3, <2>1, <3>1, <3>2 DEF Walked
  <2>3. CASE v = s
    <3>1. e = c
      BY <1>9, <2>3
    <3>2. Walked(d, y)
      BY <1>1, IncidentsStand DEF WalkHolds
    <3>3. Settled(x)'
      BY <1>10 DEF Settled, Rows, Already
    <3>4. y \in d.batch => y \in c.batch \/ Settled(y)'
      BY <1>6, <3>3
    <3> QED
      BY <1>3, <1>6, <2>1, <3>1, <3>2, <3>4 DEF Walked
  <2> QED
    BY <2>2, <2>3
<1> QED
  BY <1>3, <1>13, <1>14, <1>15, <1>16, <1>17, IncidentsStand DEF IncidentsInv

\* The retry job writes a queued row again: whose it is and by which key stays.
LEMMA NoticeRetried ==
    ASSUME IncidentsInv, NEW n \in notices, NEW outcome \in Outcomes, NEW taken \in BOOLEAN, RetryNotice(n, outcome, taken)
    PROVE  IncidentsInv' /\ notified' >= notified
<1>1. PICK m : m = [n EXCEPT !.status = outcome]
  OBVIOUS
<1>2. n \in NoticeKind
  BY IncidentsStand
<1>3. m \in NoticeKind /\ m.who = n.who /\ m.key = n.key /\ m.status = outcome /\ n.who \in People /\ n.key \in Keys
  BY <1>1, <1>2 DEF NoticeKind
<1>4. /\ notices' = (notices \ {n}) \cup {m} /\ n.status = "QUEUED" /\ Turn
      /\ (reached' = reached /\ unheard' = unheard) \/ Attempt(n.who, outcome, taken)
      /\ UNCHANGED <<standing, notified, send, rekeyed, missed, purged, presses>>
  BY <1>1 DEF RetryNotice
<1>5. turns' \in 0..MostTurns
  BY <1>4, TurnTaken
<1>6. /\ reached' \in [People -> Nat] /\ unheard' \subseteq People /\ unheard \subseteq unheard'
      /\ \/ reached' = reached
         \/ reached' = [reached EXCEPT ![n.who] = @ + 1] /\ (n.who \in unheard' \/ outcome = "SENT")
  <2>1. CASE reached' = reached /\ unheard' = unheard
    BY <2>1, IncidentsStand
  <2>2. CASE Attempt(n.who, outcome, taken)
    BY <1>3, <2>2, AttemptMade
  <2> QED
    BY <1>4, <2>1, <2>2
<1>7. IncidentsTyped'
  <2>1. IsFiniteSet(notices')
    <3>1. IsFiniteSet(notices)
      BY IncidentsStand
    <3>2. IsFiniteSet(notices \ {n})
      BY <3>1, FS_RemoveElement
    <3> QED
      BY <1>4, <3>2, FS_AddElement
  <2>2. notices' \subseteq [who : People, key : Keys, status : Outcomes \cup {"SKIPPED"}]
    BY <1>3, <1>4, IncidentsStand DEF NoticeKind
  <2>3. \A v \in Servers : send'[v].batch \subseteq People
    BY <1>4, IncidentsStand DEF SendType
  <2> QED
    BY <1>4, <1>5, <1>6, <2>1, <2>2, <2>3, IncidentsStand DEF IncidentsTyped, IncidentsTypeOK
<1>8. KeysHold'
  <2>0. KeysHold
    BY IncidentsStand
  <2>1. \A y : (AsAccount(y) => AsAccount(y)') /\ (AsNumber(y) => AsNumber(y)')
    BY <1>4 DEF AsAccount, AsNumber
  <2>2. /\ \A v \in Servers : send'[v].at # "idle" => presses' > 0
        /\ \A v \in Servers : \A x \in send'[v].without : send'[v].at # "idle" => AsNumber(x)'
        /\ \A v \in Servers : \A x \in send'[v].batch : /\ send'[v].at = "accounts" => AsAccount(x)'
                                                        /\ send'[v].at = "strangers" => x \in send'[v].without
    BY <1>4, <2>0, <2>1 DEF KeysHold
  <2>3. \A k \in notices' : /\ presses' > 0
                            /\ k.key = "account" => AsAccount(k.who)'
                            /\ k.key = "number" => AsNumber(k.who)'
    <3>1. \A k \in notices : /\ presses > 0 /\ (k.key = "account" => AsAccount(k.who))
                             /\ k.key = "number" => AsNumber(k.who)
      BY <2>0 DEF KeysHold
    <3> QED
      BY <1>3, <1>4, <2>1, <3>1
  <2> QED
    BY <2>2, <2>3 DEF KeysHold
<1>9. OneRowAKey'
  <2>1. \A i, j \in notices : i.who = j.who /\ i.key = j.key => i = j
    BY IncidentsStand DEF OneRowAKey
  <2> QED
    BY <1>3, <1>4, <2>1 DEF OneRowAKey
<1>10. ReachedByRows'
  <2>1. \A y \in People : \A k \in Keys : SentBy(y, k) => SentBy(y, k)'
    <3>1. \A i \in notices : i.status = "SENT" => i \in notices'
      BY <1>4
    <3> QED
      BY <3>1 DEF SentBy
  <2>2. ~SentBy(n.who, n.key)
    BY <1>4, IncidentsStand DEF SentBy, OneRowAKey
  <2>3. outcome = "SENT" => SentBy(n.who, n.key)'
    BY <1>3, <1>4 DEF SentBy
  <2>4. PICK x, key : x = n.who /\ key = n.key
    OBVIOUS
  <2>5. x \in People /\ key \in Keys /\ ~SentBy(x, key)
    BY <1>3, <2>2, <2>4
  <2>6. \/ reached' = reached
        \/ reached' = [reached EXCEPT ![x] = @ + 1] /\ (x \in unheard' \/ SentBy(x, key)')
    BY <1>6, <2>3, <2>4
  <2> QED
    BY <1>4, <1>6, <2>1, <2>5, <2>6, ReachKept
<1>11. WalkHolds'
  <2> SUFFICES ASSUME ~purged, NEW s \in Servers, NEW d, d = send[s], NEW x \in People PROVE Walked(d, x)'
    BY <1>4 DEF WalkHolds, Walked
  <2>1. Walked(d, x)
    BY IncidentsStand DEF WalkHolds
  <2>2. Rows(x) # {} => Rows(x)' # {}
    BY <1>3, <1>4 DEF Rows
  <2>3. Settled(x) => Settled(x)'
    BY <1>4, <2>2, SettledStays
  <2> QED
    BY <1>4, <2>1, <2>3 DEF Walked
<1> QED
  BY <1>4, <1>7, <1>8, <1>9, <1>10, <1>11, IncidentsStand DEF IncidentsInv

\* Someone signs up, or is erased: the servers and the log stay.
LEMMA PersonMoves ==
    ASSUME IncidentsInv, NEW x \in People, NEW to \in {"account", "erased"},
           standing[x] = IF to = "account" THEN "stranger" ELSE "account",
           standing' = [standing EXCEPT ![x] = to], rekeyed' = Rekeyed(x), Turn,
           UNCHANGED <<notices, notified, send, reached, unheard, missed, purged, presses>>
    PROVE  IncidentsInv' /\ notified' >= notified
<1>1. /\ standing' \in [People -> {"stranger", "account", "erased"}] /\ standing'[x] = to
      /\ \A y \in People \ {x} : standing'[y] = standing[y]
  BY IncidentsStand
<1>2. turns' \in 0..MostTurns
  BY TurnTaken
<1>3. rekeyed' \subseteq People /\ rekeyed \subseteq rekeyed' /\ (presses > 0 => x \in rekeyed')
  BY IncidentsStand DEF Rekeyed
<1>4. IncidentsTyped'
  <2>1. notices' \subseteq [who : People, key : Keys, status : Outcomes \cup {"SKIPPED"}]
    BY IncidentsStand DEF NoticeKind
  <2>2. \A s \in Servers : send[s].batch \subseteq People
    BY IncidentsStand DEF SendType
  <2> QED
    BY <1>1, <1>2, <1>3, <2>1, <2>2, IncidentsStand DEF IncidentsTyped, IncidentsTypeOK
<1>5. ASSUME presses > 0, NEW y \in People
      PROVE  /\ AsAccount(y) => AsAccount(y)'
             /\ AsNumber(y) => AsNumber(y)'
  BY <1>1, <1>3, <1>5 DEF AsAccount, AsNumber
<1>6. KeysHold'
  <2>0. KeysHold /\ send' = send /\ presses' = presses /\ notices' = notices
    BY IncidentsStand
  <2>1. \A s \in Servers : send[s].without \subseteq People /\ send[s].batch \subseteq People
    BY IncidentsStand DEF SendType
  <2>2. \A n \in notices : n.who \in People
    BY IncidentsStand DEF NoticeKind
  <2>3. \A s \in Servers : send[s].at # "idle" => presses > 0
    BY <2>0 DEF KeysHold
  <2>4. \A s \in Servers : \A y \in send'[s].without : send'[s].at # "idle" => AsNumber(y)'
    BY <1>5, <2>0, <2>1, <2>3 DEF KeysHold
  <2>5. \A s \in Servers : \A y \in send'[s].batch :
            /\ send'[s].at = "accounts" => AsAccount(y)'
            /\ send'[s].at = "strangers" => y \in send'[s].without
    <3> SUFFICES ASSUME NEW s \in Servers, NEW e, e = send[s], NEW y \in e.batch
                 PROVE  (e.at = "accounts" => AsAccount(y)') /\ (e.at = "strangers" => y \in e.without)
      BY <2>0
    <3>1. /\ e.at = "accounts" => AsAccount(y)
          /\ e.at = "strangers" => y \in e.without
      BY <2>0 DEF KeysHold
    <3>2. y \in People /\ (e.at # "idle" => presses > 0)
      BY <2>1, <2>3
    <3>3. e.at = "accounts" => AsAccount(y)'
      BY <1>5, <3>1, <3>2
    <3> QED
      BY <3>1, <3>3
  <2>6. \A n \in notices' : /\ presses' > 0
                            /\ n.key = "account" => AsAccount(n.who)'
                            /\ n.key = "number" => AsNumber(n.who)'
    BY <1>5, <2>0, <2>2 DEF KeysHold
  <2> QED
    BY <2>0, <2>3, <2>4, <2>5, <2>6 DEF KeysHold
<1>7. ReachedByRows' /\ OneRowAKey'
  BY IncidentsStand DEF ReachedByRows, SentBy, OneRowAKey
<1>8. WalkHolds'
  <2> SUFFICES ASSUME ~purged, NEW s \in Servers, NEW d, d = send[s], NEW y \in People PROVE Walked(d, y)'
    BY DEF WalkHolds, Walked
  <2>1. Walked(d, y)
    BY IncidentsStand DEF WalkHolds
  <2>2. standing[y] = "erased" => standing'[y] = "erased"
    BY <1>1
  <2>3. Settled(y) => Settled(y)'
    BY <1>3, <2>2, SettledStays, RowsGrow
  <2>4. d.at # "idle" => presses > 0
    BY IncidentsStand DEF KeysHold
  <2>5. presses > 0 /\ standing[y] = "account" => standing'[y] = "account" \/ Settled(y)'
    BY <1>1, <1>3 DEF Settled
  <2> QED
    BY <2>1, <2>3, <2>4, <2>5 DEF Walked
<1> QED
  BY <1>4, <1>6, <1>7, <1>8, IncidentsStand DEF IncidentsInv

LEMMA LogPurged ==
    ASSUME IncidentsInv, PurgeLog
    PROVE  IncidentsInv' /\ notified' >= notified
<1>1. /\ notices' = {} /\ purged' = TRUE /\ Turn
      /\ UNCHANGED <<standing, notified, send, reached, unheard, rekeyed, missed, presses>>
  BY DEF PurgeLog
<1>2. turns' \in 0..MostTurns
  BY <1>1, TurnTaken
<1>3. IncidentsTyped'
  <2>1. IsFiniteSet(notices')
    BY <1>1, FS_EmptySet
  <2>2. \A s \in Servers : send[s].batch \subseteq People
    BY IncidentsStand DEF SendType
  <2> QED
    BY <1>1, <1>2, <2>1, <2>2, IncidentsStand DEF IncidentsTyped, IncidentsTypeOK
<1>4. KeysHold'
  BY <1>1, IncidentsStand DEF KeysHold, AsAccount, AsNumber
<1> QED
  BY <1>1, <1>3, <1>4, IncidentsStand DEF IncidentsInv, OneRowAKey, ReachedByRows, WalkHolds

LEMMA IncidentsStep ==
    ASSUME IncidentsInv, IncidentsNext \/ UNCHANGED incidentVars
    PROVE  IncidentsInv' /\ notified' >= notified
<1>1. CASE UNCHANGED incidentVars
  <2>1. UNCHANGED <<standing, notices, notified, send, reached, unheard, rekeyed, missed, purged, presses, turns>>
    BY <1>1 DEF incidentVars
  <2>2. IncidentsTyped'
    BY <2>1 DEF IncidentsInv, IncidentsTyped, IncidentsTypeOK
  <2>3. KeysHold' /\ ReachedByRows' /\ OneRowAKey'
    BY <2>1, IncidentsStand DEF KeysHold, AsAccount, AsNumber, ReachedByRows, SentBy, OneRowAKey
  <2>4. WalkHolds'
    BY <2>1, IncidentsStand DEF WalkHolds, Walked, Settled, Rows
  <2> QED
    BY <2>1, <2>2, <2>3, <2>4, IncidentsStand DEF IncidentsInv
<1>2. ASSUME NEW s \in Servers, PressSend(s) \/ SendMoves(s) \/ ServerDown(s)
      PROVE  IncidentsInv' /\ notified' >= notified
  BY <1>2, SendPressed, PageTurned, NextTold, CountTaken, CountRefreshed, ServerWentDown DEF SendMoves
<1>3. ASSUME NEW x \in People, SignUp(x)
      PROVE  IncidentsInv' /\ notified' >= notified
  <2>1. /\ Turn /\ standing[x] = "stranger" /\ standing' = [standing EXCEPT ![x] = "account"]
        /\ rekeyed' = Rekeyed(x)
        /\ UNCHANGED <<notices, notified, send, reached, unheard, missed, purged, presses>>
    BY <1>3 DEF SignUp
  <2> QED
    BY <2>1, PersonMoves
<1>4. ASSUME NEW x \in People, EraseAccount(x)
      PROVE  IncidentsInv' /\ notified' >= notified
  <2>1. /\ Turn /\ standing[x] = "account" /\ standing' = [standing EXCEPT ![x] = "erased"]
        /\ rekeyed' = Rekeyed(x)
        /\ UNCHANGED <<notices, notified, send, reached, unheard, missed, purged, presses>>
    BY <1>4 DEF EraseAccount, Accounts
  <2> QED
    BY <2>1, PersonMoves
<1>5. ASSUME NEW n \in notices, NEW outcome \in Outcomes, NEW taken \in BOOLEAN, RetryNotice(n, outcome, taken)
      PROVE  IncidentsInv' /\ notified' >= notified
  BY <1>5, NoticeRetried
<1> QED
  BY <1>1, <1>2, <1>3, <1>4, <1>5, LogPurged DEF IncidentsNext

LEMMA NoticesRight == IncidentsInv => NobodyToldTwice /\ EveryoneHasANotice
<1> SUFFICES ASSUME IncidentsInv PROVE NobodyToldTwice /\ EveryoneHasANotice
  OBVIOUS
<1>1. ASSUME ~purged, NEW x \in People, reached[x] > 1 PROVE x \in rekeyed \cup unheard
  <2> SUFFICES ASSUME x \notin unheard PROVE x \in rekeyed
    OBVIOUS
  <2>1. /\ reached[x] <= (IF SentBy(x, "account") THEN 1 ELSE 0) + (IF SentBy(x, "number") THEN 1 ELSE 0)
        /\ reached[x] \in Nat
    BY <1>1, IncidentsStand DEF ReachedByRows
  <2>2. SentBy(x, "account") /\ SentBy(x, "number")
    BY <1>1, <2>1
  <2>3. AsAccount(x) /\ AsNumber(x)
    BY <2>2, IncidentsStand DEF SentBy, KeysHold
  <2> QED
    BY <2>3 DEF AsAccount, AsNumber
<1>2. EveryoneHasANotice
  BY IncidentsStand DEF EveryoneHasANotice, WalkHolds, Walked, Settled
<1> QED
  BY <1>1, <1>2 DEF NobodyToldTwice

-----------------------------------------------------------------------------
(* The home page: one price a page, from one read.                          *)

LEMMA FeedStands ==
    ASSUME FeedInv
    PROVE  /\ onShow \subseteq Tiles /\ promises \subseteq {"cod", "cashback"} /\ feedEdits \in 0..MaxFeedEdits
           /\ band \in [Sections -> BandKind] /\ loads \in Seq(LoadKind)
           /\ pending \in [Tiles -> Nat] /\ fallback \in {"NOT_BEGUN", "READING", "READ"}
           /\ stockedBy \in [Tiles -> SUBSET Depots] /\ stocking \in [Tiles -> SUBSET Depots]
           /\ LoadsHold /\ BandsHold
BY DEF FeedInv, FeedTyped, HomeFeedTypeOK

\* The recursion of Visibles, over the first n of s, and that it has a solution.
KeptFrom(s, xs, n, g) ==
    g = [k \in 0..n |-> IF k = 0 THEN <<>> ELSE IF s[k] \in xs THEN Append(g[k - 1], s[k]) ELSE g[k - 1]]

LEMMA KeptExist ==
    ASSUME NEW s, NEW xs, NEW n \in Nat
    PROVE  \E g : KeptFrom(s, xs, n, g)
<1> DEFINE Solves(g, m) == g = [k \in 0..m |-> IF k = 0 THEN <<>>
                                               ELSE IF s[k] \in xs THEN Append(g[k - 1], s[k]) ELSE g[k - 1]]
           bad == {m \in Nat : ~ \E g : Solves(g, m)}
<1>1. \E g : Solves(g, 0)
  <2> DEFINE g == [k \in 0..0 |-> <<>>]
  <2>1. Solves(g, 0)
    OBVIOUS
  <2> QED
    BY <2>1
<1>2. ASSUME NEW m \in Nat, NEW g, Solves(g, m)
      PROVE  \E h : Solves(h, m + 1)
  <2> DEFINE body(k) == IF k = 0 THEN <<>> ELSE IF s[k] \in xs THEN Append(g[k - 1], s[k]) ELSE g[k - 1]
             h == [k \in 0..m + 1 |-> body(k)]
  <2>1. \A k \in 0..m : g[k] = body(k)
    BY <1>2
  <2>2. \A k \in 0..m : h[k] = g[k]
    <3>1. \A k \in 0..m : k \in 0..m + 1
      OBVIOUS
    <3> HIDE DEF body
    <3> QED
      BY <2>1, <3>1
  <2>3. \A k \in 0..m + 1 : k # 0 => k - 1 \in 0..m
    OBVIOUS
  <2>4. \A k \in 0..m + 1 : body(k) = IF k = 0 THEN <<>> ELSE IF s[k] \in xs THEN Append(h[k - 1], s[k]) ELSE h[k - 1]
    <3> HIDE DEF h
    <3> QED
      BY <2>2, <2>3
  <2>5. Solves(h, m + 1)
    <3> HIDE DEF body
    <3> QED
      BY <2>4
  <2> QED
    BY <2>5
<1>3. bad = {}
  <2> HIDE DEF Solves
  <2> SUFFICES ASSUME bad # {} PROVE FALSE
    OBVIOUS
  <2>1. PICK m \in bad : \A v \in bad : m <= v
    BY LeastOf
  <2>2. m \in Nat /\ m # 0
    BY <1>1
  <2>3. m - 1 \in Nat /\ ~ (m - 1 \in bad)
    BY <2>1, <2>2
  <2>4. \E h : Solves(h, m - 1 + 1)
    BY <1>2, <2>3
  <2>5. m - 1 + 1 = m
    BY <2>2
  <2> QED
    BY <2>1, <2>4, <2>5
<1>4. \E g : Solves(g, n)
  <2> HIDE DEF Solves
  <2> QED
    BY <1>3
<1> QED
  BY <1>4 DEF KeptFrom

\* What is on show of some products is some products.
LEMMA VisiblesAreTiles ==
    ASSUME NEW products \in Seq(Tiles)
    PROVE  Visibles(products) \in Seq(Tiles)
<1>1. PICK n, xs : n = Len(products) /\ n \in Nat /\ xs = onShow
  OBVIOUS
<1>2. PICK kept : /\ kept = [k \in 0..n |-> IF k = 0 THEN <<>> ELSE IF products[k] \in xs
                                             THEN Append(kept[k - 1], products[k]) ELSE kept[k - 1]]
                  /\ Visibles(products) = kept[n]
  <2>1. PICK g : g = CHOOSE kept : kept = [k \in 0..n |-> IF k = 0 THEN <<>> ELSE IF products[k] \in xs
                                             THEN Append(kept[k - 1], products[k]) ELSE kept[k - 1]]
    OBVIOUS
  <2>2. \E kept : KeptFrom(products, xs, n, kept)
    BY <1>1, KeptExist
  <2>3. g = [k \in 0..n |-> IF k = 0 THEN <<>> ELSE IF products[k] \in xs
                                             THEN Append(g[k - 1], products[k]) ELSE g[k - 1]]
    BY <2>1, <2>2 DEF KeptFrom
  <2>4. Visibles(products) = g[n]
    BY <1>1, <2>1 DEF Visibles
  <2> QED
    BY <2>3, <2>4
<1> DEFINE bad == {k \in 0..n : kept[k] \notin Seq(Tiles)}
<1>3. bad = {}
  <2> SUFFICES ASSUME bad # {} PROVE FALSE
    OBVIOUS
  <2>0. bad \subseteq Nat
    BY <1>1
  <2>1. PICK m \in bad : \A v \in bad : m <= v
    <3> HIDE DEF bad
    <3> QED
      BY <2>0, LeastOf
  <2>2. m \in 0..n /\ m # 0
    BY <1>2
  <2>3. m - 1 \in 0..n /\ kept[m - 1] \in Seq(Tiles)
    BY <1>1, <2>1, <2>2
  <2>4. products[m] \in Tiles
    BY <1>1, <2>2, ElementOfSeq
  <2>5. kept[m] = IF products[m] \in xs THEN Append(kept[m - 1], products[m]) ELSE kept[m - 1]
    BY <1>2, <2>2
  <2>6. Append(kept[m - 1], products[m]) \in Seq(Tiles)
    BY <2>3, <2>4, AppendProperties
  <2> QED
    BY <2>1, <2>3, <2>5, <2>6
<1>4. n \in 0..n
  BY <1>1
<1> QED
  BY <1>2, <1>3, <1>4

LEMMA FirstFewAreTiles ==
    ASSUME NEW products \in Seq(Tiles), NEW count \in Nat
    PROVE  FirstFew(products, count) \in Seq(Tiles)
<1>1. PICK n : n = Min({count, Len(products)})
  OBVIOUS
<1>2. n \in 0..Len(products)
  <2>1. \E x \in {count, Len(products)} : \A y \in {count, Len(products)} : x <= y
    BY LenProperties
  <2>2. n \in {count, Len(products)} /\ n <= Len(products)
    BY <1>1, <2>1 DEF Min
  <2> QED
    BY <2>2, LenProperties
<1>3. SubSeq(products, 1, n) \in Seq(Tiles)
  BY <1>2, LenProperties, SubSeqProperties
<1> QED
  BY <1>1, <1>3 DEF FirstFew

LEMMA RowsAreTiles ==
    ASSUME NEW n \in Sections
    PROVE  TilesOf(n) \in Seq(Tiles)
<1>1. PICK wanted \in Seq(Tiles), limit \in Nat : wanted = Bands[n].wanted /\ limit = Bands[n].limit
  BY HomeFeedAssumption DEF Sections
<1>2. Visibles(wanted) \in Seq(Tiles)
  BY VisiblesAreTiles
<1>3. FirstFew(Visibles(wanted), limit) \in Seq(Tiles)
  BY <1>2, FirstFewAreTiles
<1>4. FirstFew(wanted, 2 * limit) \in Seq(Tiles)
  <2>1. 2 * limit \in Nat
    OBVIOUS
  <2> QED
    BY <2>1, FirstFewAreTiles
<1>5. FirstFew(Visibles(FirstFew(wanted, 2 * limit)), limit) \in Seq(Tiles)
  <2>1. Visibles(FirstFew(wanted, 2 * limit)) \in Seq(Tiles)
    BY <1>4, VisiblesAreTiles
  <2> QED
    BY <2>1, FirstFewAreTiles
<1>6. <<>> \in Seq(Tiles)
  OBVIOUS
<1>7. Bands[n].kind \in {"CAROUSEL", "TRENDING", "LATEST", "TRUST_STRIP"}
  BY HomeFeedAssumption DEF Sections
<1>8. PICK kind : kind = Bands[n].kind
  OBVIOUS
<1>9. CASE kind = "CAROUSEL"
  BY <1>1, <1>2, <1>8, <1>9 DEF TilesOf
<1>10. CASE kind = "LATEST"
  BY <1>1, <1>3, <1>8, <1>10 DEF TilesOf
<1>11. CASE kind = "TRENDING"
  BY <1>1, <1>5, <1>8, <1>11 DEF TilesOf
<1>12. CASE kind = "TRUST_STRIP"
  BY <1>6, <1>8, <1>12 DEF TilesOf
<1> QED
  BY <1>7, <1>8, <1>9, <1>10, <1>11, <1>12

LEMMA NearestIsCounted ==
    ASSUME NEW depots, depots \subseteq Depots
    PROVE  NearestOf(depots) \in Nat
<1>1. PICK from : from = IF depots = {} THEN Depots ELSE depots
  OBVIOUS
<1>2. from # {} /\ from \subseteq Depots
  BY <1>1, HomeFeedAssumption
<1>3. PICK ways : ways = {Way[d] : d \in from}
  OBVIOUS
<1>4. ways \subseteq Nat /\ ways # {}
  BY <1>2, <1>3, HomeFeedAssumption
<1>5. \E x \in ways : \A y \in ways : x <= y
  BY <1>4, LeastOf
<1>6. Min(ways) \in Nat
  BY <1>4, <1>5 DEF Min
<1> QED
  BY <1>1, <1>3, <1>6 DEF NearestOf

LEMMA AdditionIsNearest ==
    ASSUME NEW i \in Tiles, fallback = "READ"
    PROVE  AdditionFor(i) = NearestOf(stockedBy[i])
<1>1. PICK from : from = IF stockedBy[i] = {} THEN Depots ELSE stockedBy[i]
  OBVIOUS
<1>2. from # {}
  BY <1>1, HomeFeedAssumption
<1>3. AdditionFor(i) = Min({Way[d] : d \in from})
  BY <1>1, <1>2 DEF AdditionFor
<1> QED
  BY <1>1, <1>3 DEF NearestOf

\* What a section shows, and will show, are products.
LEMMA TilesAreTiles ==
    ASSUME FeedInv, NEW n \in Sections
    PROVE  /\ band[n] \in BandKind /\ ToSet(band[n].rows) \subseteq Tiles
           /\ \A c \in Shown(n) : c \in PricedTiles /\ c.product \in Tiles
<1>1. PICK b : b = band[n] /\ b \in BandKind
  BY FeedStands
<1>2. b.rows \in Seq(Tiles) /\ b.cards \in Seq(PricedTiles)
  BY <1>1 DEF BandKind
<1>3. \A k \in DOMAIN b.rows : b.rows[k] \in Tiles
  BY <1>2
<1>4. \A k \in DOMAIN b.cards : b.cards[k] \in PricedTiles
  BY <1>2
<1> QED
  BY <1>1, <1>3, <1>4 DEF ToSet, Shown, PricedTiles

LEMMA PendingIsALoad ==
    ASSUME FeedInv, NEW i \in Tiles
    PROVE  /\ pending[i] \in 0..Len(loads) /\ Len(loads) \in Nat /\ DOMAIN loads = 1..Len(loads)
           /\ pending[i] # NoLoad => pending[i] \in DOMAIN loads /\ i \in LoadOf(i).of
<1>1. Len(loads) \in Nat /\ DOMAIN loads = 1..Len(loads) /\ pending[i] \in 0..Len(loads)
  BY FeedStands DEF LoadsHold
<1>2. pending[i] # NoLoad => pending[i] \in DOMAIN loads
  BY <1>1 DEF NoLoad
<1> QED
  BY <1>1, <1>2, FeedStands DEF LoadsHold, LoadOf

\* What has landed stays, and so do the cards it is on.
Landing == /\ \A i \in Tiles : pending[i] # NoLoad => pending'[i] = pending[i]
           /\ \A l \in DOMAIN loads : loads[l].stage = "LANDED" => loads'[l].stage = "LANDED" /\ loads'[l].found = loads[l].found

LEMMA LandedStays ==
    ASSUME FeedInv, Landing, NEW i \in Tiles, Arrived(i)
    PROVE  Arrived(i)' /\ LoadOf(i)'.found = LoadOf(i).found
<1>1. pending[i] # NoLoad /\ loads[pending[i]].stage = "LANDED"
  BY DEF Arrived, LoadOf
<1>2. pending[i] \in DOMAIN loads /\ pending'[i] = pending[i]
  BY <1>1, PendingIsALoad DEF Landing
<1>3. loads'[pending[i]].stage = "LANDED" /\ loads'[pending[i]].found = loads[pending[i]].found
  BY <1>1, <1>2 DEF Landing
<1> QED
  BY <1>1, <1>2, <1>3 DEF Arrived, LoadOf

\* A section that a step leaves alone holds what it held.
BandHolds(n) ==
    /\ \A c \in Shown(n) : Arrived(c.product) /\ c.addition = NearestOf(LoadOf(c.product).found[c.product])
    /\ band[n].stage = "PRIMING" =>
          \A i \in ToSet(band[n].rows) : pending[i] # NoLoad /\ pending[i] \in band[n].awaits

LEMMA BandStays ==
    ASSUME FeedInv, Landing, NEW n \in Sections, band'[n] = band[n]
    PROVE  BandHolds(n)'
<1>1. \A c \in Shown(n) : Arrived(c.product) /\ c.addition = NearestOf(LoadOf(c.product).found[c.product])
  BY FeedStands DEF BandsHold
<1>2. Shown(n)' = Shown(n)
  BY DEF Shown
<1>3. ASSUME NEW c \in Shown(n)
      PROVE  Arrived(c.product)' /\ c.addition = NearestOf(LoadOf(c.product)'.found[c.product])
  <2>1. c.product \in Tiles
    BY TilesAreTiles
  <2>2. Arrived(c.product)' /\ LoadOf(c.product)'.found = LoadOf(c.product).found
    BY <1>1, <2>1, LandedStays
  <2> QED
    BY <1>1, <2>2
<1>4. \A c \in Shown(n)' : Arrived(c.product)' /\ c.addition = NearestOf(LoadOf(c.product)'.found[c.product])
  BY <1>2, <1>3
<1>5. ASSUME band[n].stage = "PRIMING", NEW i \in ToSet(band[n].rows)
      PROVE  pending'[i] # NoLoad /\ pending'[i] \in band[n].awaits
  <2>1. i \in Tiles /\ pending[i] # NoLoad /\ pending[i] \in band[n].awaits
    BY <1>5, TilesAreTiles, FeedStands DEF BandsHold
  <2> QED
    BY <2>1 DEF Landing
<1> QED
  BY <1>4, <1>5 DEF BandHolds, NearestOf

LEMMA LoadsStay ==
    ASSUME FeedInv, UNCHANGED <<pending, loads, stockedBy>>, fallback = "READ" => fallback' = "READ"
    PROVE  LoadsHold' /\ Landing
BY FeedStands DEF LoadsHold, Landing, Arrived, LoadOf

LEMMA FeedBegins == HomeFeedInit => FeedInv
<1> SUFFICES ASSUME HomeFeedInit PROVE FeedInv
  OBVIOUS
<1>1. /\ Unready \in BandKind /\ Unready.stage = "START" /\ Unready.cards = <<>>
  BY DEF Unready, BandKind
<1>2. band \in [Sections -> BandKind] /\ \A n \in Sections : band[n].stage = "START" /\ band[n].cards = <<>>
  BY <1>1 DEF HomeFeedInit
<1>3. stocking \in [Tiles -> SUBSET Depots]
  BY DEF HomeFeedInit
<1>4. loads = <<>> /\ loads \in Seq(LoadKind) /\ DOMAIN loads = {} /\ Len(loads) = 0
  BY DEF HomeFeedInit
<1>5. /\ pending \in [Tiles -> Nat] /\ stockedBy \in [Tiles -> SUBSET Depots]
      /\ \A i \in Tiles : pending[i] = 0 /\ stockedBy[i] = {}
  BY DEF HomeFeedInit, NoLoad
<1>6. FeedTyped
  <2>1. 0 \in 0..MaxFeedEdits
    BY HomeFeedAssumption
  <2>2. \A n \in Sections : band[n].stage \in {"START", "PRIMING", "SHOWN", "DROPPED"}
    BY <1>2
  <2> QED
    BY <1>2, <1>3, <1>4, <1>5, <2>1, <2>2 DEF FeedTyped, HomeFeedTypeOK, HomeFeedInit
<1>7. LoadsHold
  BY <1>4, <1>5 DEF LoadsHold, Arrived, NoLoad
<1>8. BandsHold
  <2>1. \A n \in Sections : Shown(n) = {}
    BY <1>2 DEF Shown, ToSet
  <2> QED
    BY <1>2, <2>1 DEF BandsHold
<1> QED
  BY <1>6, <1>7, <1>8 DEF FeedInv

\* The type half of a step.
LEMMA FeedTypedNext ==
    ASSUME onShow' \subseteq Tiles, promises' \subseteq {"cod", "cashback"}, feedEdits' \in 0..MaxFeedEdits,
           band' \in [Sections -> BandKind], loads' \in Seq(LoadKind), pending' \in [Tiles -> Nat],
           fallback' \in {"NOT_BEGUN", "READING", "READ"}, stockedBy' \in [Tiles -> SUBSET Depots],
           stocking' \in [Tiles -> SUBSET Depots]
    PROVE  FeedTyped'
<1>1. \A n \in Sections : band'[n].stage \in {"START", "PRIMING", "SHOWN", "DROPPED"}
  BY DEF BandKind
<1> QED
  BY <1>1 DEF FeedTyped, HomeFeedTypeOK

LEMMA BandsNext ==
    ASSUME FeedInv, Landing, NEW n \in Sections, \A m \in Sections \ {n} : band'[m] = band[m], BandHolds(n)'
    PROVE  BandsHold'
<1>1. ASSUME NEW m \in Sections PROVE BandHolds(m)'
  <2>1. CASE m = n
    BY <2>1
  <2>2. CASE m # n
    <3>1. band'[m] = band[m]
      BY <2>2
    <3> QED
      BY <3>1, BandStays
  <2> QED
    BY <2>1, <2>2
<1> QED
  BY <1>1 DEF BandsHold, BandHolds

LEMMA BandsAsTheyWere ==
    ASSUME FeedInv, Landing, band' = band
    PROVE  BandsHold'
<1>1. ASSUME NEW n \in Sections PROVE BandHolds(n)'
  BY BandStays
<1> QED
  BY <1>1 DEF BandsHold, BandHolds

LEMMA SectionRead ==
    ASSUME FeedInv, NEW n \in Sections, ReadSection(n)
    PROVE  FeedInv'
<1>1. PICK rows, ids, fresh : /\ rows = TilesOf(n) /\ ids = ToSet(rows) /\ fresh = {i \in ids : pending[i] = NoLoad}
  OBVIOUS
<1>2. PICK known, awaits, stage : /\ known = [i \in Tiles |-> IF i \in fresh THEN Len(loads) + 1 ELSE pending[i]]
                                  /\ awaits = {known[i] : i \in ids}
                                  /\ stage = IF rows = <<>> THEN "DROPPED" ELSE "PRIMING"
  OBVIOUS
<1>3. /\ band[n].stage = "START" /\ pending' = known
      /\ band' = [band EXCEPT ![n].rows = rows, ![n].awaits = awaits, ![n].stage = stage]
      /\ loads' = IF fresh = {} THEN loads ELSE Append(loads, [of |-> fresh, stage |-> "READING"])
      /\ fallback' = IF fresh # {} /\ fallback = "NOT_BEGUN" THEN "READING" ELSE fallback
      /\ UNCHANGED <<onShow, stocking, promises, stockedBy, feedEdits>>
  <2>1. Fresh(ids) = fresh
    BY <1>1 DEF Fresh
  <2>2. known = [i \in Tiles |-> IF i \in Fresh(ToSet(TilesOf(n))) THEN Len(loads) + 1 ELSE pending[i]]
    BY <1>1, <1>2, <2>1
  <2>3. /\ band[n].stage = "START" /\ pending' = known
        /\ UNCHANGED <<onShow, stocking, promises, stockedBy, feedEdits>>
    BY <2>2 DEF ReadSection
  <2>4. band' = [band EXCEPT ![n].rows = rows, ![n].awaits = Awaited(ids, known), ![n].stage = stage]
    BY <1>1, <1>2, <2>2 DEF ReadSection
  <2>5. loads' = Begun(fresh) /\ fallback' = IF fresh # {} /\ fallback = "NOT_BEGUN" THEN "READING" ELSE fallback
    BY <1>1, <2>1 DEF ReadSection
  <2> QED
    BY <1>2, <2>3, <2>4, <2>5 DEF Begun, Awaited
<1>4. rows \in Seq(Tiles) /\ ids \subseteq Tiles /\ fresh \subseteq Tiles
  <2>1. rows \in Seq(Tiles)
    BY <1>1, RowsAreTiles
  <2>2. \A k \in DOMAIN rows : rows[k] \in Tiles
    BY <2>1
  <2> QED
    BY <1>1, <2>1, <2>2 DEF ToSet
<1>5. PICK length : length = Len(loads) /\ length \in Nat /\ DOMAIN loads = 1..length
  BY FeedStands
<1>6. /\ known \in [Tiles -> Nat] /\ \A i \in Tiles : known[i] = IF i \in fresh THEN length + 1 ELSE pending[i]
      /\ \A i \in Tiles : pending[i] \in 0..length
  BY <1>2, <1>5, FeedStands DEF LoadsHold
<1>7. \A i \in ids : known[i] # NoLoad /\ known[i] \in awaits /\ awaits \subseteq Nat
  BY <1>1, <1>2, <1>4, <1>5, <1>6 DEF NoLoad
<1>8. awaits \subseteq Nat
  BY <1>2, <1>4, <1>6
<1>9. PICK b, c : b = band[n] /\ c = [b EXCEPT !.rows = rows, !.awaits = awaits, !.stage = stage]
  OBVIOUS
<1>10. /\ c \in BandKind /\ c.rows = rows /\ c.awaits = awaits /\ c.cards = b.cards
  <2>1. b \in BandKind /\ stage \in {"START", "PRIMING", "SHOWN", "DROPPED"}
    BY <1>2, <1>9, FeedStands
  <2> QED
    BY <1>4, <1>8, <1>9, <2>1 DEF BandKind
<1>11. /\ band' \in [Sections -> BandKind] /\ band'[n] = c /\ \A m \in Sections \ {n} : band'[m] = band[m]
  BY <1>3, <1>9, <1>10, FeedStands
<1>12. PICK begun : begun = [of |-> fresh, stage |-> "READING"]
  OBVIOUS
<1>13. begun \in LoadKind /\ begun.of = fresh /\ begun.stage = "READING"
  BY <1>4, <1>12 DEF LoadKind
<1>14. /\ loads' \in Seq(LoadKind) /\ \A l \in DOMAIN loads : l \in DOMAIN loads' /\ loads'[l] = loads[l]
       /\ fresh = {} => loads' = loads
       /\ fresh # {} => DOMAIN loads' = 1..length + 1 /\ Len(loads') = length + 1 /\ loads'[length + 1] = begun
  <2>1. CASE fresh = {}
    BY <1>3, <2>1, FeedStands
  <2>2. CASE fresh # {}
    <3>1. loads' = Append(loads, begun)
      BY <1>3, <1>12, <2>2
    <3>2. /\ loads' \in Seq(LoadKind) /\ Len(loads') = length + 1 /\ \A l \in 1..length : loads'[l] = loads[l]
          /\ loads'[length + 1] = begun
      BY <1>5, <1>13, <3>1, FeedStands, AppendProperties
    <3>3. DOMAIN loads' = 1..length + 1
      BY <3>2
    <3> QED
      BY <1>5, <2>2, <3>2, <3>3
  <2> QED
    BY <2>1, <2>2
<1>15. Landing
  BY <1>1, <1>3, <1>6, <1>14 DEF Landing
<1>16. FeedTyped'
  BY <1>3, <1>6, <1>11, <1>14, FeedStands, FeedTypedNext
<1>17. LoadsHold'
  <2>1. ASSUME NEW l \in DOMAIN loads'
        PROVE  /\ loads'[l].stage # "READING" => loads'[l].found \in [loads'[l].of -> SUBSET Depots]
               /\ loads'[l].stage = "LANDED" => fallback' = "READ"
               /\ \A i \in Tiles : i \in loads'[l].of <=> pending'[i] = l
    <3>1. CASE l \in DOMAIN loads
      <4>1. loads'[l] = loads[l]
        BY <1>14, <3>1
      <4>2. /\ loads[l].stage # "READING" => loads[l].found \in [loads[l].of -> SUBSET Depots]
            /\ loads[l].stage = "LANDED" => fallback = "READ"
            /\ \A i \in Tiles : i \in loads[l].of <=> pending[i] = l
        BY <3>1, FeedStands DEF LoadsHold
      <4>3. \A i \in Tiles : pending'[i] = l <=> pending[i] = l
        <5>1. l \in 1..length
          BY <1>5, <3>1
        <5> QED
          BY <1>1, <1>3, <1>5, <1>6, <5>1 DEF NoLoad
      <4>4. fallback = "READ" => fallback' = "READ"
        BY <1>3
      <4> QED
        BY <4>1, <4>2, <4>3, <4>4
    <3>2. CASE l \notin DOMAIN loads
      <4>1. l = length + 1 /\ loads'[l] = begun
        BY <1>5, <1>14, <3>2
      <4>2. \A i \in Tiles : i \in fresh <=> pending'[i] = l
        BY <1>3, <1>5, <1>6, <4>1
      <4> QED
        BY <1>13, <4>1, <4>2
    <3> QED
      BY <3>1, <3>2
  <2>2. \A i \in Tiles : pending'[i] \in 0..Len(loads')
    <3>1. CASE fresh = {}
      BY <1>3, <1>5, <1>6, <1>14, <3>1
    <3>2. CASE fresh # {}
      BY <1>3, <1>5, <1>6, <1>14, <3>2
    <3> QED
      BY <3>1, <3>2
  <2>3. ASSUME NEW i \in Tiles
        PROVE  stockedBy'[i] = IF Arrived(i)' THEN LoadOf(i)'.found[i] ELSE {}
    <3>1. stockedBy'[i] = stockedBy[i] /\ stockedBy[i] = IF Arrived(i) THEN LoadOf(i).found[i] ELSE {}
      BY <1>3, FeedStands DEF LoadsHold
    <3>2. CASE Arrived(i)
      <4>1. Arrived(i)' /\ LoadOf(i)'.found = LoadOf(i).found
        BY <1>15, <3>2, LandedStays
      <4> QED
        BY <3>1, <3>2, <4>1
    <3>3. CASE ~Arrived(i)
      <4>1. ~Arrived(i)'
        <5>1. CASE i \in fresh
          <6>1. pending'[i] = length + 1 /\ loads'[length + 1] = begun
            BY <1>3, <1>6, <1>14, <5>1
          <6> QED
            BY <1>13, <6>1 DEF Arrived, LoadOf
        <5>2. CASE i \notin fresh
          <6>1. pending'[i] = pending[i]
            BY <1>3, <1>6, <5>2
          <6>2. pending[i] # NoLoad => loads'[pending[i]] = loads[pending[i]]
            BY <1>14, PendingIsALoad
          <6> QED
            BY <3>3, <6>1, <6>2 DEF Arrived, LoadOf
        <5> QED
          BY <5>1, <5>2
      <4> QED
        BY <3>1, <3>3, <4>1
    <3> QED
      BY <3>2, <3>3
  <2> QED
    BY <2>1, <2>2, <2>3 DEF LoadsHold
<1>18. BandHolds(n)'
  <2>1. ASSUME NEW i \in ToSet(c.rows) PROVE pending'[i] # NoLoad /\ pending'[i] \in c.awaits
    BY <1>1, <1>3, <1>7, <1>10, <2>1
  <2>2. Shown(n)' = Shown(n)
    BY <1>9, <1>10, <1>11 DEF Shown
  <2>3. ASSUME NEW e \in Shown(n)
        PROVE  Arrived(e.product)' /\ e.addition = NearestOf(LoadOf(e.product)'.found[e.product])
    <3>1. e.product \in Tiles
      BY TilesAreTiles
    <3>2. Arrived(e.product) /\ e.addition = NearestOf(LoadOf(e.product).found[e.product])
      BY FeedStands DEF BandsHold
    <3>3. Arrived(e.product)' /\ LoadOf(e.product)'.found = LoadOf(e.product).found
      BY <1>15, <3>1, <3>2, LandedStays
    <3> QED
      BY <3>2, <3>3
  <2>4. \A e \in Shown(n)' : Arrived(e.product)' /\ e.addition = NearestOf(LoadOf(e.product)'.found[e.product])
    BY <2>2, <2>3
  <2> QED
    BY <1>11, <2>1, <2>4 DEF BandHolds, NearestOf
<1> QED
  BY <1>11, <1>15, <1>16, <1>17, <1>18, BandsNext DEF FeedInv

\* A read that has been found, or has landed, is the same read.
LEMMA LoadMoved ==
    ASSUME FeedInv, NEW l \in DOMAIN loads, NEW e \in LoadKind, e.of = loads[l].of, e.stage \in {"FOUND", "LANDED"},
           loads[l].stage # "LANDED", loads' = [loads EXCEPT ![l] = e],
           e.found \in [e.of -> SUBSET Depots], e.stage = "LANDED" => fallback = "READ",
           UNCHANGED <<pending, fallback>>,
           \A i \in Tiles : stockedBy'[i] = IF e.stage = "LANDED" /\ i \in e.of THEN e.found[i] ELSE stockedBy[i]
    PROVE  LoadsHold' /\ Landing /\ loads' \in Seq(LoadKind)
<1>1. PICK length : length = Len(loads) /\ length \in Nat /\ DOMAIN loads = 1..length
  BY FeedStands
<1>2. /\ loads' \in Seq(LoadKind) /\ DOMAIN loads' = DOMAIN loads /\ Len(loads') = Len(loads)
      /\ loads'[l] = e /\ \A m \in DOMAIN loads \ {l} : loads'[m] = loads[m]
  <2>1. loads \in [1..length -> LoadKind]
    BY <1>1, FeedStands
  <2>2. loads' \in [1..length -> LoadKind]
    BY <1>1, <2>1
  <2>3. loads' \in Seq(LoadKind)
    <3>1. \A k \in Nat : \A f \in [1..k -> LoadKind] : f \in Seq(LoadKind)
      OBVIOUS
    <3> QED
      BY <1>1, <2>2, <3>1
  <2>4. Len(loads') = length /\ DOMAIN loads' = 1..length
    BY <1>1, <2>2, <2>3
  <2> QED
    BY <1>1, <2>1, <2>3, <2>4
<1>3. Landing
  BY <1>2 DEF Landing
<1>4. \A m \in DOMAIN loads' : /\ loads'[m].stage # "READING" => loads'[m].found \in [loads'[m].of -> SUBSET Depots]
                               /\ loads'[m].stage = "LANDED" => fallback' = "READ"
                               /\ loads'[m].of = loads[m].of
  BY <1>2, FeedStands DEF LoadsHold
<1>5. \A i \in Tiles, m \in DOMAIN loads' : i \in loads'[m].of <=> pending'[i] = m
  BY <1>2, <1>4, FeedStands DEF LoadsHold
<1>6. ASSUME NEW i \in Tiles
      PROVE  stockedBy'[i] = IF Arrived(i)' THEN LoadOf(i)'.found[i] ELSE {}
  <2>1. stockedBy[i] = IF Arrived(i) THEN LoadOf(i).found[i] ELSE {}
    BY FeedStands DEF LoadsHold
  <2>2. i \in e.of <=> pending[i] = l
    BY FeedStands DEF LoadsHold
  <2>3. CASE pending[i] = l
    <3>1. LoadOf(i)' = e /\ (Arrived(i)' <=> e.stage = "LANDED") /\ ~Arrived(i)
      BY <1>1, <1>2, <2>3 DEF Arrived, LoadOf, NoLoad
    <3> QED
      BY <2>1, <2>2, <2>3, <3>1
  <2>4. CASE pending[i] # l
    <3>1. stockedBy'[i] = stockedBy[i]
      BY <2>2, <2>4
    <3>2. pending[i] # NoLoad => LoadOf(i)' = LoadOf(i)
      BY <1>2, <2>4, PendingIsALoad DEF LoadOf
    <3>3. Arrived(i)' <=> Arrived(i)
      BY <3>2 DEF Arrived
    <3>4. Arrived(i) => pending[i] # NoLoad
      BY DEF Arrived
    <3> QED
      BY <2>1, <3>1, <3>2, <3>3, <3>4
  <2> QED
    BY <2>3, <2>4
<1>7. \A i \in Tiles : pending'[i] \in 0..Len(loads')
  BY <1>2, FeedStands DEF LoadsHold
<1> QED
  BY <1>2, <1>3, <1>4, <1>5, <1>6, <1>7 DEF LoadsHold

LEMMA StockingFound ==
    ASSUME FeedInv, NEW l \in DOMAIN loads, FindStocking(l)
    PROVE  FeedInv'
<1>1. PICK r, ids, found : r = loads[l] /\ ids = r.of /\ found = [i \in ids |-> stocking[i]]
  OBVIOUS
<1>2. PICK e : e = [of |-> ids, stage |-> "FOUND", found |-> found]
  OBVIOUS
<1>3. /\ r.stage = "READING" /\ loads' = [loads EXCEPT ![l] = e]
      /\ UNCHANGED <<onShow, stocking, promises, band, pending, fallback, stockedBy, feedEdits>>
  BY <1>1, <1>2 DEF FindStocking
<1>4. r \in LoadKind /\ ids \subseteq Tiles
  <2>1. r \in LoadKind
    BY <1>1, FeedStands
  <2> QED
    BY <1>1, <2>1 DEF LoadKind
<1>5. found \in [ids -> SUBSET Depots] /\ found \in Finds
  <2>1. found \in [ids -> SUBSET Depots]
    BY <1>1, <1>4, FeedStands
  <2> QED
    BY <1>4, <2>1 DEF Finds
<1>6. e \in LoadKind /\ e.of = ids /\ e.stage = "FOUND" /\ e.found = found
  BY <1>2, <1>4, <1>5 DEF LoadKind
<1>7. LoadsHold' /\ Landing /\ loads' \in Seq(LoadKind)
  <2>1. \A i \in Tiles : stockedBy'[i] = IF e.stage = "LANDED" /\ i \in e.of THEN e.found[i] ELSE stockedBy[i]
    BY <1>3, <1>6
  <2>2. loads[l].stage # "LANDED" /\ e.of = loads[l].of /\ e.found \in [e.of -> SUBSET Depots]
    BY <1>1, <1>3, <1>5, <1>6
  <2>3. e.stage \in {"FOUND", "LANDED"} /\ (e.stage = "LANDED" => fallback = "READ") /\ UNCHANGED <<pending, fallback>>
    BY <1>3, <1>6
  <2> QED
    BY <1>3, <1>6, <2>1, <2>2, <2>3, LoadMoved
<1>8. FeedTyped'
  BY <1>3, <1>7, FeedStands, FeedTypedNext
<1> QED
  BY <1>3, <1>7, <1>8, BandsAsTheyWere DEF FeedInv

LEMMA LoadLanded ==
    ASSUME FeedInv, NEW l \in DOMAIN loads, Land(l)
    PROVE  FeedInv'
<1>1. PICK r : r = loads[l]
  OBVIOUS
<1>2. PICK e : e = [r EXCEPT !.stage = "LANDED"]
  OBVIOUS
<1>3. /\ r.stage = "FOUND" /\ fallback = "READ" /\ loads' = [loads EXCEPT ![l] = e]
      /\ stockedBy' = [i \in Tiles |-> IF i \in r.of THEN r.found[i] ELSE stockedBy[i]]
      /\ UNCHANGED <<onShow, stocking, promises, band, pending, fallback, feedEdits>>
  BY <1>1, <1>2 DEF Land
<1>4. r \in LoadKind /\ r.found \in [r.of -> SUBSET Depots]
  BY <1>1, <1>3, FeedStands DEF LoadsHold
<1>5. e \in LoadKind /\ e.of = r.of /\ e.stage = "LANDED" /\ e.found = r.found
  <2>1. r \in [of : SUBSET Tiles, stage : {"FOUND", "LANDED"}, found : Finds]
    BY <1>3, <1>4 DEF LoadKind
  <2> QED
    BY <1>2, <2>1 DEF LoadKind
<1>6. /\ stockedBy' \in [Tiles -> SUBSET Depots]
      /\ \A i \in Tiles : stockedBy'[i] = IF e.stage = "LANDED" /\ i \in e.of THEN e.found[i] ELSE stockedBy[i]
  BY <1>3, <1>4, <1>5, FeedStands
<1>7. LoadsHold' /\ Landing /\ loads' \in Seq(LoadKind)
  <2>1. loads[l].stage # "LANDED" /\ e.of = loads[l].of /\ e.found \in [e.of -> SUBSET Depots]
    BY <1>1, <1>3, <1>4, <1>5
  <2>2. e.stage \in {"FOUND", "LANDED"} /\ (e.stage = "LANDED" => fallback = "READ") /\ UNCHANGED <<pending, fallback>>
    BY <1>3, <1>5
  <2> QED
    BY <1>3, <1>5, <1>6, <2>1, <2>2, LoadMoved
<1>8. FeedTyped'
  BY <1>3, <1>6, <1>7, FeedStands, FeedTypedNext
<1> QED
  BY <1>3, <1>7, <1>8, BandsAsTheyWere DEF FeedInv

LEMMA SectionMapped ==
    ASSUME FeedInv, NEW n \in Sections, MapSection(n)
    PROVE  FeedInv'
<1>1. PICK b, cards : /\ b = band[n]
                      /\ cards = [k \in DOMAIN b.rows |-> [product |-> b.rows[k], addition |-> AdditionFor(b.rows[k])]]
  OBVIOUS
<1>2. PICK c : c = [b EXCEPT !.stage = "SHOWN", !.cards = cards]
  OBVIOUS
<1>3. /\ b.stage = "PRIMING" /\ \A l \in b.awaits : l \in DOMAIN loads /\ loads[l].stage = "LANDED"
      /\ band' = [band EXCEPT ![n] = c]
      /\ UNCHANGED <<onShow, stocking, promises, pending, loads, fallback, stockedBy, feedEdits>>
  BY <1>1, <1>2, FeedStands DEF MapSection
<1>4. b \in BandKind /\ b.rows \in Seq(Tiles) /\ \A k \in DOMAIN b.rows : b.rows[k] \in ToSet(b.rows) /\ b.rows[k] \in Tiles
  <2>1. b \in BandKind
    BY <1>1, FeedStands
  <2>2. b.rows \in Seq(Tiles)
    BY <2>1 DEF BandKind
  <2> QED
    BY <2>1, <2>2 DEF ToSet
<1>5. ASSUME NEW k \in DOMAIN b.rows
      PROVE  Arrived(b.rows[k]) /\ AdditionFor(b.rows[k]) = NearestOf(LoadOf(b.rows[k]).found[b.rows[k]])
             /\ AdditionFor(b.rows[k]) \in Nat
  <2>1. PICK i \in Tiles : i = b.rows[k] /\ i \in ToSet(b.rows)
    BY <1>4
  <2>2. pending[i] # NoLoad /\ pending[i] \in b.awaits
    BY <1>1, <1>3, <2>1, FeedStands DEF BandsHold
  <2>3. pending[i] \in DOMAIN loads /\ Arrived(i)
    BY <1>3, <2>2 DEF Arrived, LoadOf
  <2>4. fallback = "READ" /\ stockedBy[i] = LoadOf(i).found[i] /\ stockedBy[i] \subseteq Depots
    BY <2>3, FeedStands DEF LoadsHold, Arrived, LoadOf
  <2>5. AdditionFor(i) = NearestOf(stockedBy[i])
    BY <2>4, AdditionIsNearest
  <2>6. NearestOf(stockedBy[i]) \in Nat
    BY <2>4, NearestIsCounted
  <2> QED
    BY <2>1, <2>3, <2>4, <2>5, <2>6
<1>6. cards \in Seq(PricedTiles) /\ DOMAIN cards = DOMAIN b.rows
  <2>1. PICK length \in Nat : DOMAIN b.rows = 1..length
    BY <1>4
  <2>2. \A k \in DOMAIN b.rows : cards[k] \in PricedTiles
    BY <1>1, <1>4, <1>5 DEF PricedTiles
  <2>3. cards \in [1..length -> PricedTiles]
    BY <1>1, <2>1, <2>2
  <2> QED
    BY <2>1, <2>3
<1>7. c \in BandKind /\ c.stage = "SHOWN" /\ c.cards = cards
  BY <1>2, <1>4, <1>6 DEF BandKind
<1>8. band' \in [Sections -> BandKind] /\ band'[n] = c /\ \A m \in Sections \ {n} : band'[m] = band[m]
  BY <1>3, <1>7, FeedStands
<1>9. LoadsHold' /\ Landing
  BY <1>3, LoadsStay
<1>10. BandHolds(n)'
  <2>1. ASSUME NEW e \in Shown(n)'
        PROVE  Arrived(e.product)' /\ e.addition = NearestOf(LoadOf(e.product)'.found[e.product])
    <3>1. PICK k \in DOMAIN b.rows : e = cards[k]
      BY <1>6, <1>7, <1>8 DEF Shown, ToSet
    <3>2. e.product = b.rows[k] /\ e.addition = AdditionFor(b.rows[k])
      BY <1>1, <3>1
    <3>3. Arrived(e.product) /\ e.addition = NearestOf(LoadOf(e.product).found[e.product])
      BY <1>5, <3>2
    <3> QED
      BY <1>3, <3>3 DEF Arrived, LoadOf
  <2> QED
    BY <1>7, <1>8, <2>1 DEF BandHolds, NearestOf
<1>11. FeedTyped'
  BY <1>3, <1>8, FeedStands, FeedTypedNext
<1> QED
  BY <1>8, <1>9, <1>10, <1>11, BandsNext DEF FeedInv

LEMMA TrustShown ==
    ASSUME FeedInv, NEW n \in Sections, ShowTrust(n)
    PROVE  FeedInv'
<1>1. PICK b, kept, stage : b = band[n] /\ kept = {"gst"} \cup promises /\ stage = IF kept = {} THEN "DROPPED" ELSE "SHOWN"
  OBVIOUS
<1>2. PICK c : c = [b EXCEPT !.markers = kept, !.stage = stage]
  OBVIOUS
<1>3. /\ band' = [band EXCEPT ![n] = c]
      /\ UNCHANGED <<onShow, stocking, promises, pending, loads, fallback, stockedBy, feedEdits>>
  BY <1>1, <1>2, FeedStands DEF ShowTrust
<1>4. b \in BandKind /\ kept \subseteq {"gst", "cod", "cashback"} /\ stage \in {"DROPPED", "SHOWN"}
  BY <1>1, FeedStands
<1>5. c \in BandKind /\ c.stage = stage /\ c.cards = b.cards
  BY <1>2, <1>4 DEF BandKind
<1>6. band' \in [Sections -> BandKind] /\ band'[n] = c /\ \A m \in Sections \ {n} : band'[m] = band[m]
  BY <1>3, <1>5, FeedStands
<1>7. LoadsHold' /\ Landing
  BY <1>3, LoadsStay
<1>8. BandHolds(n)'
  <2>1. Shown(n)' = Shown(n)
    BY <1>1, <1>5, <1>6 DEF Shown
  <2>2. \A e \in Shown(n) : Arrived(e.product) /\ e.addition = NearestOf(LoadOf(e.product).found[e.product])
    BY FeedStands DEF BandsHold
  <2>3. \A e \in Shown(n) : Arrived(e.product)' /\ e.addition = NearestOf(LoadOf(e.product)'.found[e.product])
    BY <1>3, <2>2 DEF Arrived, LoadOf
  <2>4. band'[n].stage # "PRIMING"
    BY <1>4, <1>5, <1>6
  <2> QED
    BY <2>1, <2>3, <2>4 DEF BandHolds, NearestOf
<1>9. FeedTyped'
  BY <1>3, <1>6, FeedStands, FeedTypedNext
<1> QED
  BY <1>6, <1>7, <1>8, <1>9, BandsNext DEF FeedInv

\* The shop changes, or a read comes in, while the page is being made.
LEMMA FeedElsewhere ==
    ASSUME FeedInv, UNCHANGED <<band, pending, loads, stockedBy>>, fallback = "READ" => fallback' = "READ",
           fallback' \in {"NOT_BEGUN", "READING", "READ"},
           onShow' \subseteq onShow, promises' \subseteq promises, stocking' \in [Tiles -> SUBSET Depots],
           feedEdits' \in 0..MaxFeedEdits
    PROVE  FeedInv'
<1>1. LoadsHold' /\ Landing
  BY LoadsStay
<1>2. onShow' \subseteq Tiles /\ promises' \subseteq {"cod", "cashback"}
  BY FeedStands
<1>3. FeedTyped'
  BY <1>2, FeedStands, FeedTypedNext
<1> QED
  BY <1>1, <1>3, BandsAsTheyWere DEF FeedInv

LEMMA FeedStep ==
    ASSUME FeedInv, HomeFeedNext \/ UNCHANGED feedVars
    PROVE  FeedInv'
<1>1. CASE UNCHANGED feedVars
  BY <1>1, FeedStands, FeedElsewhere DEF feedVars
<1>2. ASSUME NEW n \in Sections, ReadSection(n) \/ MapSection(n) \/ ShowTrust(n)
      PROVE  FeedInv'
  BY <1>2, SectionRead, SectionMapped, TrustShown
<1>3. ASSUME NEW l \in DOMAIN loads, FindStocking(l) \/ Land(l)
      PROVE  FeedInv'
  BY <1>3, StockingFound, LoadLanded
<1>4. CASE LoadShared
  BY <1>4, FeedStands, FeedElsewhere DEF LoadShared
<1>5. feedEdits < MaxFeedEdits => feedEdits + 1 \in 0..MaxFeedEdits
  BY FeedStands, HomeFeedAssumption
<1>6. ASSUME NEW i \in Tiles, ArchiveTile(i) PROVE FeedInv'
  BY <1>5, <1>6, FeedStands, FeedElsewhere DEF ArchiveTile
<1>7. ASSUME NEW i \in Tiles, NEW d \in Depots, Restock(i, {d}) PROVE FeedInv'
  <2>1. stocking' \in [Tiles -> SUBSET Depots]
    BY <1>7, FeedStands DEF Restock
  <2> QED
    BY <1>5, <1>7, <2>1, FeedStands, FeedElsewhere DEF Restock
<1>8. ASSUME NEW marker \in promises, StopPromising(marker) PROVE FeedInv'
  BY <1>5, <1>8, FeedStands, FeedElsewhere DEF StopPromising
<1> QED
  BY <1>1, <1>2, <1>3, <1>4, <1>6, <1>7, <1>8 DEF HomeFeedNext

LEMMA PageIsRight == FeedInv => OnePriceAPage /\ PricedFromItsOwn /\ StockingReadOnce
<1> SUFFICES ASSUME FeedInv PROVE OnePriceAPage /\ PricedFromItsOwn /\ StockingReadOnce
  OBVIOUS
<1>1. \A n \in Sections : \A c \in Shown(n) :
          Arrived(c.product) /\ c.addition = NearestOf(LoadOf(c.product).found[c.product])
  BY FeedStands DEF BandsHold
<1>2. OnePriceAPage
  BY <1>1 DEF OnePriceAPage
<1>3. ASSUME NEW n \in Sections, NEW c \in Shown(n)
      PROVE  \E l \in DOMAIN loads :
                /\ loads[l].stage \in {"FOUND", "LANDED"} /\ c.product \in loads[l].of
                /\ c.addition = Min({Way[d] : d \in IF loads[l].found[c.product] = {} THEN Depots
                                                    ELSE loads[l].found[c.product]})
  <2>1. c.product \in Tiles /\ Arrived(c.product) /\ c.addition = NearestOf(LoadOf(c.product).found[c.product])
    BY <1>1, TilesAreTiles
  <2>2. PICK l \in DOMAIN loads : l = pending[c.product] /\ c.product \in loads[l].of
    BY <2>1, PendingIsALoad DEF Arrived, LoadOf
  <2>3. loads[l].stage = "LANDED" /\ c.addition = NearestOf(loads[l].found[c.product])
    BY <2>1, <2>2 DEF Arrived, LoadOf
  <2> QED
    BY <2>2, <2>3 DEF NearestOf
<1>4. ASSUME NEW i \in Tiles PROVE Cardinality({l \in DOMAIN loads : i \in loads[l].of}) <= 1
  <2>1. PICK read : read = {l \in DOMAIN loads : i \in loads[l].of}
    OBVIOUS
  <2>2. read \subseteq {pending[i]}
    BY <2>1, FeedStands DEF LoadsHold
  <2>3. IsFiniteSet({pending[i]}) /\ Cardinality({pending[i]}) = 1
    BY FS_Singleton
  <2>4. Cardinality(read) <= Cardinality({pending[i]})
    BY <2>2, <2>3, FS_Subset
  <2> QED
    BY <2>1, <2>3, <2>4
<1> QED
  BY <1>2, <1>3, <1>4 DEF PricedFromItsOwn, StockingReadOnce

=============================================================================
