---------------------------- MODULE CatalogueImport ----------------------------
(***************************************************************************)
(* One import of a catalogue file (core/src/write/imports.ts): its commit, *)
(* product by product (csv/import-pipeline.ts), and the batches that fetch *)
(* the images it queued (csv/image-fetcher.ts), run by whoever watches the *)
(* progress screen.                                                        *)
(*                                                                         *)
(* Each product of the file has one image.  The commit is a step for each  *)
(* product and one for the job's status; a batch lists tasks, claims them, *)
(* fetches each and reports.  Either may die at any step.                  *)
(***************************************************************************)
EXTENDS Integers, FiniteSets

CONSTANTS
    Products,          \* the products of the file
    ImageOf,           \* [Products -> addresses]: several may show one image
    Runners,           \* batches at work
    MaxTries,          \* MAX_ATTEMPTS
    ImportOverlap,     \* may batches overlap, or the job be cancelled or committed beside one?
    Recommits,         \* may a job be committed again?
    MaxImportFaults    \* bound: deaths and failed fetches, in all

ASSUME CatalogueImportAssumption ==
    /\ DOMAIN ImageOf = Products
    /\ MaxTries \in Nat \ {0}
    /\ ImportOverlap \in BOOLEAN
    /\ Recommits \in BOOLEAN
    /\ MaxImportFaults \in Nat

VARIABLES
    job,           \* ImportJob.status
    commit,        \* the commit at work: products left, and images it queued
    task,          \* ImportImageTask of each product
    fetched,       \* Media, by sourceUrlHash
    linked,        \* products that show their image
    runner,        \* what each batch is doing
    importFaults   \* faults so far

importVars == <<job, commit, task, fetched, linked, runner, importFaults>>

JobStatuses == {"UPLOADED", "PARSING", "DRY_RUN_READY", "COMMITTING", "IMPORTING_IMAGES",
                "COMPLETED", "FAILED", "CANCELLED"}
TaskStatuses == {"none", "PENDING", "RUNNING", "DONE", "FAILED"}

NoCommit == [at |-> "idle", rest |-> {}, queued |-> 0]
IdleRunner == [at |-> "idle", listed |-> {}]

ImportInit ==
    /\ job = "UPLOADED"
    /\ commit = NoCommit
    /\ task = [p \in Products |-> [status |-> "none", tries |-> 0]]
    /\ fetched = {}
    /\ linked = {}
    /\ runner = [r \in Runners |-> IdleRunner]
    /\ importFaults = 0

RunnersIdle == \A r \in Runners : runner[r] = IdleRunner

ImportQuiet == commit = NoCommit /\ RunnersIdle

ImportFault == importFaults < MaxImportFaults /\ importFaults' = importFaults + 1

Waiting == {p \in Products : task[p].status \in {"PENDING", "RUNNING"}}

-----------------------------------------------------------------------------
(* The dry run, the commit and the cancel.                                 *)

StartAnalysis ==
    /\ job = "UPLOADED" \/ (Recommits /\ ImportQuiet)
    /\ job' = "PARSING"
    /\ UNCHANGED <<commit, task, fetched, linked, runner, importFaults>>

FinishAnalysis ==
    /\ job = "PARSING"
    /\ job' \in {"DRY_RUN_READY", "FAILED"}
    /\ UNCHANGED <<commit, task, fetched, linked, runner, importFaults>>

\* Any job that is not COMPLETED may be committed: the screen offers it after
\* the dry run, and again after a failure or a death.
StartCommit ==
    /\ job = "DRY_RUN_READY" \/ (Recommits /\ job # "COMPLETED")
    /\ commit = NoCommit
    /\ ImportOverlap \/ RunnersIdle
    /\ job' = "COMMITTING"
    /\ commit' = [at |-> "products", rest |-> Products, queued |-> 0]
    /\ UNCHANGED <<task, fetched, linked, runner, importFaults>>

SameImage(p, q) == ImageOf[p] = ImageOf[q]

AlreadyQueued(p) == \E q \in Products : SameImage(p, q) /\ task[q].status \in {"PENDING", "RUNNING"}

\* The product lands; its image is linked, or on its way already (for whichever
\* product), or queued.
CommitProduct(p) ==
    /\ commit.at = "products" /\ p \in commit.rest
    /\ IF ImageOf[p] \in fetched
       THEN /\ linked' = linked \cup {p}
            /\ commit' = [commit EXCEPT !.rest = @ \ {p}]
            /\ UNCHANGED task
       ELSE IF AlreadyQueued(p)
       THEN /\ commit' = [commit EXCEPT !.rest = @ \ {p}]
            /\ UNCHANGED <<task, linked>>
       ELSE /\ task' = [task EXCEPT ![p] = [status |-> "PENDING", tries |-> 0]]
            /\ commit' = [commit EXCEPT !.rest = @ \ {p}, !.queued = @ + 1]
            /\ UNCHANGED linked
    /\ UNCHANGED <<job, fetched, runner, importFaults>>

FinishCommit ==
    /\ commit.at = "products" /\ commit.rest = {}
    /\ job' = IF commit.queued > 0 THEN "IMPORTING_IMAGES" ELSE "COMPLETED"
    /\ commit' = NoCommit
    /\ UNCHANGED <<task, fetched, linked, runner, importFaults>>

\* A throw is caught and told on the job; a death is not.
CommitFails ==
    /\ commit # NoCommit
    /\ ImportFault
    /\ commit' = NoCommit
    /\ job' \in {job, "FAILED"}
    /\ UNCHANGED <<task, fetched, linked, runner>>

CancelImport ==
    /\ ImportOverlap \/ ImportQuiet
    /\ job # "CANCELLED"
    /\ job' = "CANCELLED"
    /\ UNCHANGED <<commit, task, fetched, linked, runner, importFaults>>

-----------------------------------------------------------------------------
(* Batches of images.                                                      *)

\* Claims left by a batch that died; one that is only slow may lose its own
\* where batches overlap.
Held(p) == \E r \in Runners : p \in runner[r].listed /\ runner[r].at = "fetch"

ReleaseStale(tasks) ==
    [p \in Products |-> IF tasks[p].status = "RUNNING" /\ (ImportOverlap \/ ~ Held(p))
                        THEN [tasks[p] EXCEPT !.status = "PENDING"] ELSE tasks[p]]

Released == ReleaseStale(task)

ToFetch(tasks) == {p \in Products : tasks[p].status = "PENDING"}

\* The poll of the progress screen, up to the list of the claim's transaction.
ListFrom(r, tasks) ==
    /\ runner[r] = IdleRunner
    /\ job = "IMPORTING_IMAGES" \/ ImportOverlap
    /\ ImportOverlap \/ ImportQuiet
    /\ task' = tasks
    /\ runner' = [runner EXCEPT ![r] = [at |-> "claim", listed |-> ToFetch(tasks)]]
    /\ UNCHANGED <<job, commit, fetched, linked, importFaults>>

\* Five minutes have passed for the claims of the dead, or have not yet.
ListTasks(r) == ListFrom(r, Released) \/ ListFrom(r, task)

\* What was listed is claimed, whatever it is by now.
ClaimTasks(r) ==
    /\ runner[r].at = "claim"
    /\ task' = [p \in Products |-> IF p \in runner[r].listed THEN [task[p] EXCEPT !.status = "RUNNING"]
                                   ELSE task[p]]
    /\ runner' = [runner EXCEPT ![r].at = "fetch"]
    /\ UNCHANGED <<job, commit, fetched, linked, importFaults>>

Fetching(r, p) == runner[r].at = "fetch" /\ p \in runner[r].listed

Fetched(r, p) == runner' = [runner EXCEPT ![r].listed = @ \ {p}]

FetchOne(r, p) ==
    /\ Fetching(r, p)
    /\ fetched' = fetched \cup {ImageOf[p]}
    /\ linked' = linked \cup {p}
    /\ task' = [task EXCEPT ![p].status = "DONE"]
    /\ Fetched(r, p)
    /\ UNCHANGED <<job, commit, importFaults>>

\* Mutant: an image that cannot be fetched is tried for ever.
MutantTriesLeft(p) == TRUE

TriesLeft(p) == task[p].tries + 1 < MaxTries

FetchFails(r, p) ==
    /\ Fetching(r, p)
    /\ ImportFault
    /\ task' = [task EXCEPT ![p] = [status |-> IF TriesLeft(p) THEN "PENDING" ELSE "FAILED",
                                    tries |-> @.tries + 1]]
    /\ Fetched(r, p)
    /\ UNCHANGED <<job, commit, fetched, linked>>

\* Mutant: what another batch left RUNNING does not count as remaining.
MutantRemainingTasks == {p \in Products : task[p].status = "PENDING"}

RemainingTasks == Waiting

FinishBatch(r) ==
    /\ runner[r] = [at |-> "fetch", listed |-> {}]
    /\ job' = IF RemainingTasks = {} THEN "COMPLETED" ELSE job
    /\ runner' = [runner EXCEPT ![r] = IdleRunner]
    /\ UNCHANGED <<commit, task, fetched, linked, importFaults>>

RunnerDies(r) ==
    /\ runner[r] # IdleRunner
    /\ ImportFault
    /\ runner' = [runner EXCEPT ![r] = IdleRunner]
    /\ UNCHANGED <<job, commit, task, fetched, linked>>

RunnerMoves(r) ==
    ClaimTasks(r) \/ FinishBatch(r) \/ \E p \in Products : FetchOne(r, p) \/ FetchFails(r, p)

ImportNext ==
    \/ StartAnalysis \/ FinishAnalysis \/ StartCommit \/ FinishCommit \/ CommitFails \/ CancelImport
    \/ \E p \in Products : CommitProduct(p)
    \/ \E r \in Runners : ListTasks(r) \/ RunnerMoves(r) \/ RunnerDies(r)

ImportSpec == ImportInit /\ [][ImportNext]_importVars

\* Somebody watches the progress screen until the job is done, five minutes
\* after whatever died as well.
ImportFairness ==
    /\ \A r \in Runners : WF_importVars(RunnerMoves(r))
    /\ SF_importVars(\E r \in Runners : ListFrom(r, Released))

-----------------------------------------------------------------------------
(* What an import promises.                                                *)

ImportTypeOK ==
    /\ job \in JobStatuses
    /\ commit \in [at : {"idle", "products"}, rest : SUBSET Products, queued : Nat]
    /\ task \in [Products -> [status : TaskStatuses, tries : 0..MaxTries]]
    /\ fetched \subseteq {ImageOf[p] : p \in Products}
    /\ linked \subseteq Products
    /\ runner \in [Runners -> [at : {"idle", "claim", "fetch"}, listed : SUBSET Products]]
    /\ importFaults \in Nat

\* A job that says COMPLETED has linked every product's image, or given up on
\* it after its attempts (commitImport, runImageBatch: "a redeploy mid-fetch
\* must not lose them").
CompletedMeansLinked ==
    job = "COMPLETED" => \A p \in Products : p \in linked \/ task[p].status = "FAILED"

\* A task that is DONE is never fetched again, whoever runs batches and dies
\* in one ("cannot pick up the same row").
DoneIsFinal == [][\A p \in Products : task[p].status = "DONE" => task'[p].status = "DONE"]_importVars

\* The job is not left at 90%: while the screen is watched, images come to an
\* end, whatever died with claims in hand (releaseStaleImageTasks).
ImagesFinish == job = "IMPORTING_IMAGES" ~> job # "IMPORTING_IMAGES"
-----------------------------------------------------------------------------
(* Why it holds: the commit, the batches and the job's status take turns.  *)

TakingTurns ==
    /\ commit.at = "idle" => commit = NoCommit
    /\ commit.at = "products" => job = "COMMITTING" /\ RunnersIdle
    /\ \A r \in Runners : runner[r] # IdleRunner => job = "IMPORTING_IMAGES" /\ commit.at = "idle"
    /\ \A r, s \in Runners : runner[r] # IdleRunner /\ runner[s] # IdleRunner => r = s

\* Before its commit nothing of the file has landed; during it, a product that
\* has is linked or has its image queued.
CommitAccounts ==
    /\ job \in {"UPLOADED", "PARSING", "DRY_RUN_READY"} =>
          /\ \A p \in Products : task[p].status = "none"
          /\ fetched = {} /\ linked = {}
    /\ commit.at = "products" =>
          /\ fetched = {}
          /\ \A p \in commit.rest : task[p].status = "none"
          /\ \A p \in Products \ commit.rest : task[p].status = "PENDING" /\ commit.queued > 0

\* After it every product is linked, waiting for its image, or given up on.
ImagesAccount ==
    job \in {"IMPORTING_IMAGES", "COMPLETED"} =>
        \A p \in Products : p \in linked \/ task[p].status \in {"PENDING", "RUNNING", "FAILED"}

\* What a batch listed is waiting, and what it claimed is its own.
BatchHolds ==
    \A r \in Runners : \A p \in runner[r].listed :
        /\ runner[r].at = "claim" => task[p].status = "PENDING"
        /\ runner[r].at = "fetch" => task[p].status = "RUNNING"

\* An image is given up on at its last attempt, and not looked at again.
WaitingMayTry == \A p \in Waiting : task[p].tries < MaxTries

ImportInv ==
    /\ ImportTypeOK /\ WaitingMayTry /\ TakingTurns /\ CommitAccounts /\ ImagesAccount /\ BatchHolds
    /\ CompletedMeansLinked
=============================================================================
