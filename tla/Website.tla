------------------------------- MODULE Website -------------------------------
(***************************************************************************)
(* Pages, posts and the menus that lead to them (core/src/write/pages.ts,  *)
(* blog.ts, menus.ts).  A menu is saved whole, and each of its links keeps *)
(* the address its target had then; a page a menu leads to is not deleted. *)
(* Every call reads first and writes afterwards, so two of them can cross. *)
(***************************************************************************)
EXTENDS Integers, FiniteSets, FiniteSetsExt

CONSTANTS
    Targets,       \* records a menu may lead to
    Guarded,       \* those of kinds whose deletion looks for links: pages and posts
    Addresses,     \* slugs
    Authoring,     \* calls that may be under way together
    MaxAuthored    \* bound: calls made

ASSUME WebsiteAssumption == Guarded \subseteq Targets /\ "no address" \notin Addresses /\ MaxAuthored \in Nat

VARIABLES
    target,     \* each record: its slug, whether it is published, and since when
    menu,       \* MenuItem rows: the target and the url stored with it
    author,     \* calls under way: what they read, and whether another has crossed them
    moved,      \* targets given another slug since the menu was written
    crossed,    \* targets a deletion and a menu crossed over
    authored    \* calls made

websiteVars == <<target, menu, author, moved, crossed, authored>>

NoAddress == "no address"
Resting == [at |-> "idle", of |-> {}, slug |-> NoAddress, live |-> FALSE, since |-> 0,
            found |-> {}, moved |-> {}, crossed |-> {}]
Gone == [slug |-> NoAddress, live |-> FALSE, since |-> 0]

Existing == {t \in Targets : target[t].slug # NoAddress}

WebsiteInit ==
    /\ target = [t \in Targets |-> Gone]
    /\ menu = {}
    /\ author = [c \in Authoring |-> Resting]
    /\ moved = {} /\ crossed = {} /\ authored = 0

\* A call starts, and one that ends is known to the others.
Starting(c, call) ==
    /\ author[c].at = "idle" /\ authored < MaxAuthored
    /\ authored' = authored + 1
    /\ author' = [author EXCEPT ![c] = call]

Ending(c, changed, renamed) ==
    author' = [d \in Authoring |-> IF d = c THEN Resting
                                   ELSE IF author[d].at = "idle" THEN author[d]
                                   ELSE [author[d] EXCEPT !.crossed = @ \cup changed, !.moved = @ \cup renamed]]

-----------------------------------------------------------------------------
(* Pages and posts *)

\* savePage, saveBlogPost: the record as it is, and the slugs others have.
OpenPage(c, t, slug, live) ==
    /\ \A u \in Existing \ {t} : target[u].slug # slug
    /\ Starting(c, [Resting EXCEPT !.at = IF t \in Existing THEN "update" ELSE "create", !.of = {t},
                                   !.slug = slug, !.live = live, !.since = target[t].since])
    /\ UNCHANGED <<target, menu, moved, crossed>>

\* Stamped once, then left alone.
Stamped(live, since) == IF live /\ since = 0 THEN authored ELSE since

\* The slug is unique in the database, and a record deleted meanwhile is not updated.
PageFits(c, t) ==
    /\ \A u \in Existing \ {t} : target[u].slug # author[c].slug
    /\ author[c].at = "update" <=> t \in Existing

CommitPage(c, t) ==
    LET call == author[c]
        renamed == IF PageFits(c, t) /\ t \in Existing /\ target[t].slug # call.slug THEN {t} ELSE {}
    IN  /\ call.at \in {"update", "create"} /\ call.of = {t}
        /\ target' = IF PageFits(c, t)
                     THEN [target EXCEPT ![t] = [slug |-> call.slug, live |-> call.live,
                                                 since |-> Stamped(call.live, call.since)]]
                     ELSE target
        /\ moved' = moved \cup renamed
        /\ Ending(c, {t}, renamed)
        /\ UNCHANGED <<menu, crossed, authored>>

\* setPagePublished, setBlogPostPublished
OpenPublish(c, t, live) ==
    /\ t \in Existing
    /\ Starting(c, [Resting EXCEPT !.at = "publish", !.of = {t}, !.live = live, !.since = target[t].since])
    /\ UNCHANGED <<target, menu, moved, crossed>>

CommitPublish(c, t) ==
    LET call == author[c]
    IN  /\ call.at = "publish" /\ call.of = {t}
        /\ target' = IF t \in Existing
                     THEN [target EXCEPT ![t].live = call.live, ![t].since = Stamped(call.live, call.since)]
                     ELSE target
        /\ Ending(c, {t}, {})
        /\ UNCHANGED <<menu, moved, crossed, authored>>

\* Mutant: only a link the menu shows first is looked for.
MutantLinked(t) == menu = {[to |-> t, url |-> target[t].slug]}

\* deletePage, deleteBlogPost: a record a menu leads to is kept.
Linked(t) == t \in Guarded /\ \E l \in menu : l.to = t

OpenDeletePage(c, t) ==
    /\ t \in Existing /\ ~Linked(t)
    /\ Starting(c, [Resting EXCEPT !.at = "delete", !.of = {t}])
    /\ UNCHANGED <<target, menu, moved, crossed>>

CommitDeletePage(c, t) ==
    /\ author[c].at = "delete" /\ author[c].of = {t}
    /\ target' = [target EXCEPT ![t] = Gone]
    /\ crossed' = IF t \in author[c].crossed THEN crossed \cup {t} ELSE crossed
    /\ Ending(c, {t}, {})
    /\ UNCHANGED <<menu, moved, authored>>

-----------------------------------------------------------------------------
(* Menus *)

\* loadTargets and hrefFor: where each link leads.
Resolved(targets) == {[to |-> t, url |-> target[t].slug] : t \in targets}

\* saveMenu: a target that is gone is refused.
OpenMenu(c, targets) ==
    /\ targets \subseteq Existing
    /\ Starting(c, [Resting EXCEPT !.at = "menu", !.of = targets, !.found = Resolved(targets)])
    /\ UNCHANGED <<target, menu, moved, crossed>>

\* Its transaction deletes every row and writes them anew.
CommitMenu(c) ==
    LET call == author[c]
    IN  /\ call.at = "menu"
        /\ menu' = call.found
        /\ moved' = call.moved
        /\ crossed' = call.of \cap call.crossed
        /\ Ending(c, call.of, {})
        /\ UNCHANGED <<target, authored>>

WebsiteNext ==
    \E c \in Authoring :
        \/ \E t \in Targets :
              \/ \E slug \in Addresses, live \in BOOLEAN : OpenPage(c, t, slug, live)
              \/ CommitPage(c, t)
              \/ \E live \in BOOLEAN : OpenPublish(c, t, live)
              \/ CommitPublish(c, t)
              \/ OpenDeletePage(c, t)
              \/ CommitDeletePage(c, t)
        \/ \E targets \in SUBSET Targets : OpenMenu(c, targets)
        \/ CommitMenu(c)

-----------------------------------------------------------------------------

WebsiteTypeOK ==
    /\ target \in [Targets -> [slug : Addresses \cup {NoAddress}, live : BOOLEAN, since : 0..MaxAuthored]]
    /\ menu \subseteq [to : Targets, url : Addresses]
    /\ \A c \in Authoring : author[c].of \subseteq Targets /\ author[c].found \subseteq [to : Targets, url : Addresses]
    /\ moved \subseteq Targets /\ crossed \subseteq Targets /\ authored \in 0..MaxAuthored

\* A link to a page or a post leads to it until it is given another address: no
\* deletion leaves a link that 404s, but one that a save of the menu crosses
\* (pages.ts:164-168, menus.ts:93-104).
LinksLeadHome ==
    \A l \in menu : l.to \in Guarded \ (moved \cup crossed) => target[l.to].slug = l.url

\* The day a page was first published is never rewritten, save by a call that
\* read the page before another published it (pages.ts:12-14).
FirstDayStands ==
    [][\A t \in Targets :
         target[t].since # 0 /\ target'[t].since # target[t].since =>
            \/ target'[t].slug = NoAddress
            \/ \E c \in Authoring : author[c].of = {t} /\ t \in author[c].crossed]_websiteVars

-----------------------------------------------------------------------------
(* Why it holds.                                                           *)

Link == [to : Targets, url : Addresses]

AuthorCall ==
    [at : {"idle", "update", "create", "publish", "delete", "menu"}, of : SUBSET Targets,
     slug : Addresses \cup {NoAddress}, live : BOOLEAN, since : 0..MaxAuthored,
     found : SUBSET Link, moved : SUBSET Targets, crossed : SUBSET Targets]

\* What a call read of a record and of the links to it is so still, unless a call
\* that ended since has crossed it.
AuthorHolds(call) ==
    /\ call.at \in {"update", "create"} => call.slug \in Addresses
    /\ call.at \in {"update", "create", "publish"} => \A t \in call.of \ call.crossed : call.since = target[t].since
    /\ call.at = "delete" => \A t \in call.of \ call.crossed : ~Linked(t)
    /\ call.at = "menu" => \A l \in call.found :
          l.to \in call.of /\ (l.to \notin call.crossed => target[l.to].slug = l.url)

WebsiteInv ==
    /\ WebsiteTypeOK /\ author \in [Authoring -> AuthorCall]
    /\ LinksLeadHome /\ \A c \in Authoring : AuthorHolds(author[c])

=============================================================================
