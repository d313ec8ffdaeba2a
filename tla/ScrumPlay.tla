------------------------------ MODULE ScrumPlay ------------------------------
(***************************************************************************)
(* The play of Scrum cards: the owner plays, queues, pauses and moves      *)
(* cards, a played card owns one job, the end of the job is shown on the   *)
(* card, and auto-work starts the next card of a project (internal/queue/  *)
(* scrum_*.go).  The scheduler scans all projects every ten seconds and    *)
(* whenever it is asked to (internal/api/scrum_global_autowork.go).        *)
(*                                                                         *)
(* Every operation of the repository is one transaction under the lock of  *)
(* the project, hence one action.  A request that carries an old revision  *)
(* of a card is refused and changes nothing.  The scheduler is a sequence  *)
(* of such transactions and of reads between them, under one mutex.        *)
(***************************************************************************)
EXTENDS Integers, FiniteSets

CONSTANTS
    Project,
    Card,
    Home,        \* [Card -> Project]: the project of each card
    Job,         \* identities of jobs
    NoJob,       \* job_id = ''
    NoProject,   \* no candidate
    Columns,     \* the columns owners move cards to
    SourceSets,  \* the settings of source_columns owners choose from
    MaxOrder,    \* bound on the places in a queue
    MaxResumed   \* bound on the jobs that are resumed

AllColumns == {"backlog", "ready", "assigned", "in_progress",
               "review", "blocked", "error", "done"}

ASSUME ScrumAssumption ==
    /\ Home \in [Card -> Project]
    /\ NoJob \notin Job
    /\ NoProject \notin Project
    /\ Columns \subseteq AllColumns
    /\ SourceSets \subseteq SUBSET AllColumns
    /\ {MaxOrder, MaxResumed} \subseteq Nat

VARIABLES
    card,      \* scrum_cards: column, play_state, queue_order, job_id
    job,       \* the status of each job; all open statuses are one
    resumed,   \* jobs that were resumed after a failure
    enabled,   \* settings.scrum_auto_work.enabled of each project
    sources,   \* settings.scrum_auto_work.source_columns
    due,       \* projects with a refresh that was spawned and has not run
    scan       \* where refreshScrumAutoWork is, and its candidate

vars == <<card, job, resumed, enabled, sources, due, scan>>
board == <<card, job, resumed>>
settings == <<enabled, sources>>
scheduler == <<due, scan>>

CardState == [column : AllColumns \cup {"absent", "deleted"},
              play : {"", "queued", "running", "paused"},
              order : Nat,
              job : Job \cup {NoJob}]

TypeOK ==
    /\ card \in [Card -> CardState]
    /\ job \in [Job -> {"none", "open", "completed", "failed", "canceled"}]
    /\ resumed \in SUBSET Job
    /\ enabled \in [Project -> BOOLEAN]
    /\ sources \in [Project -> SUBSET AllColumns]
    /\ due \in SUBSET Project
    /\ scan \in [at : {"idle", "check", "reconcile", "recheck", "pick",
                       "start", "confirm", "retry"},
                 project : Project \cup {NoProject}]

Blank == [column |-> "absent", play |-> "", order |-> 0, job |-> NoJob]

Init ==
    /\ card = [c \in Card |-> Blank]
    /\ job = [j \in Job |-> "none"]
    /\ resumed = {}
    /\ enabled = [p \in Project |-> FALSE]
    /\ sources = [p \in Project |-> {"assigned"}]
    /\ due = {}
    /\ scan = [at |-> "idle", project |-> NoProject]

Present(c) == card[c].column \in AllColumns
Of(p) == {c \in Card : Home[c] = p}
Played(p, play) == {c \in Of(p) : card[c].play = play}
Running(p) == Played(p, "running")
Queued(p) == Played(p, "queued")
SomethingRuns == \E c \in Card : card[c].play = "running"

Terminal == {"completed", "failed", "canceled"}

\* Identities of jobs are used again once they are terminal and no other card
\* names them: a behaviour in which such a job is never resumed.
Fresh(c) == {j \in Job : /\ job[j] \in Terminal \cup {"none"}
                         /\ \A d \in Card \ {c} : card[d].job # j}

-----------------------------------------------------------------------------
(* What a transaction does to a card. *)

\* enqueueScrumJobTx and the update of the card: the columns do not matter here.
Launch(cards, jobs, c) ==
    \E j \in Fresh(c) :
        /\ card' = [cards EXCEPT ![c] = [column |-> "in_progress", play |-> "running",
                                         order |-> 0, job |-> j]]
        /\ job' = [jobs EXCEPT ![j] = "open"]
        /\ resumed' = resumed \ {j}

Playable(c) == card[c].column \in {"ready", "assigned", "in_progress", "review"}

\* prepareScrumCardPlayTx.
Prepare(cards, jobs, c) == Playable(c) /\ Launch(cards, jobs, c)

\* setScrumCardPausedTx.
PausedCard == [column |-> "assigned", play |-> "paused", order |-> 0, job |-> NoJob]

\* Mutant of Paused: only cards in the queue are paused.
PausedInQueue(S) ==
    [c \in Card |-> IF c \in S /\ card[c].play = "queued" THEN PausedCard ELSE card[c]]

Paused(S) == [c \in Card |-> IF c \in S THEN PausedCard ELSE card[c]]

\* Mutant of Canceled: pausing a card leaves its job to the worker.
CanceledNever(S) == job

\* cancelJobTx for the running cards among those that are paused.
Canceled(S) ==
    [j \in Job |-> IF \E c \in S : card[c].play = "running" /\ card[c].job = j
                   THEN "canceled" ELSE job[j]]

\* Mutant of NextOrder: the number of waiting cards, plus one.
NextOrderCounted(p) == Cardinality(Queued(p)) + 1

\* COALESCE(MAX(queue_order), 0) + 1 over the queued cards.
NextOrder(p) ==
    LET taken == {card[c].order : c \in Queued(p)} \cup {0} IN
    CHOOSE n \in {m + 1 : m \in taken} : \A m \in taken : m < n

\* queueScrumCardPlayTx: the job of an earlier play stays on the card.
Enqueue(c) ==
    /\ NextOrder(Home[c]) \in 1 .. MaxOrder
    /\ card' = [card EXCEPT ![c] = [column |-> "assigned", play |-> "queued",
                                    order |-> NextOrder(Home[c]), job |-> card[c].job]]
    /\ UNCHANGED <<job, resumed>>

-----------------------------------------------------------------------------
(* Commands of the owner on cards. *)

\* ApplyScrumCardPlay: with another card running, the card waits for it or, by
\* a pivot, takes its place.  Several running cards make it fail.
PlayCard(c) ==
    /\ Present(c)
    /\ \/ Running(Home[c]) = {} /\ Prepare(card, job, c)
       \/ \E r \in Of(Home[c]) \ {c} :
            /\ Running(Home[c]) = {r}
            /\ \/ card[c].play # "queued" /\ Enqueue(c)
               \/ Prepare(Paused({r}), Canceled({r}), c)
    /\ UNCHANGED <<settings, scheduler>>

\* PauseScrumCardPlayAtRevision.
PauseCard(c) ==
    /\ card[c].play = "running" \/ (card[c].play = "queued" /\ card[c].job = NoJob)
    /\ card' = Paused({c})
    /\ job' = Canceled({c})
    /\ UNCHANGED <<resumed, settings, scheduler>>

\* ExecuteScrumChannelOperation with the effect start_job: a message in the
\* channel of a card that is not active starts a job for it.  Messages to an
\* active card replan its job or answer it, and leave the card running.
StartFromChannel(c) ==
    /\ Present(c)
    /\ card[c].play \notin {"running", "queued"}
    /\ Launch(card, job, c)
    /\ UNCHANGED <<settings, scheduler>>

\* CreateScrumCard, MoveScrumCard and DeleteScrumCardAtRevision.
CreateCard(c, column) ==
    /\ card[c].column = "absent"
    /\ card' = [card EXCEPT ![c].column = column]
    /\ UNCHANGED <<job, resumed, settings, scheduler>>

MoveCard(c, column) ==
    /\ Present(c)
    /\ card[c].play \notin {"running", "queued"}
    /\ card' = [card EXCEPT ![c].column = column]
    /\ UNCHANGED <<job, resumed, settings, scheduler>>

DeleteCard(c) ==
    /\ Present(c)
    /\ card[c].play \notin {"running", "queued"}
    /\ card[c].job # NoJob => job[card[c].job] \in Terminal
    /\ card' = [card EXCEPT ![c] = [Blank EXCEPT !.column = "deleted"]]
    /\ UNCHANGED <<job, resumed, settings, scheduler>>

-----------------------------------------------------------------------------
(* Jobs. *)

\* Mutant of Outcome: a canceled job leaves a card to be reviewed.
OutcomeUnlessFailed(status) == IF status = "failed" THEN "error" ELSE "review"

Outcome(status) == IF status = "completed" THEN "review" ELSE "error"

\* The card that terminalizeScrumJobCardTx accepts for the end of job j: it runs
\* for the job, or shows the outcome already.
Accepts(c, j, status) ==
    /\ card[c].job = j
    /\ \/ card[c].play = "running" /\ card[c].column = "in_progress"
       \/ card[c].play = "" /\ card[c].column = Outcome(status) /\ card[c].order = 0

\* CompleteStep, FailStep and CancelJob when they end the job, with the
\* projection onto the card in the same transaction: no card, no end.
EndJob(j, status) ==
    /\ job[j] = "open"
    /\ \E c \in Card :
        /\ Accepts(c, j, status)
        /\ card' = [card EXCEPT ![c] = [column |-> Outcome(status), play |-> "",
                                        order |-> 0, job |-> j]]
    /\ job' = [job EXCEPT ![j] = status]
    /\ UNCHANGED <<resumed, settings, scheduler>>

\* ResumeJob: the job of a frozen plan goes on after a failure.  The card is not
\* consulted.
ResumeJob(j) ==
    /\ job[j] = "failed"
    /\ Cardinality(resumed) < MaxResumed
    /\ job' = [job EXCEPT ![j] = "open"]
    /\ resumed' = resumed \cup {j}
    /\ UNCHANGED <<card, settings, scheduler>>

-----------------------------------------------------------------------------
(* Auto-work on one project. *)

\* Mutant of Eligible: paused cards are left to the owner.
EligibleUnpaused(p) ==
    Queued(p) \cup {c \in Of(p) : card[c].play = "" /\ card[c].column \in sources[p]}

\* The cards findProjectAutoWorkCardTx and the candidate query select from.
Eligible(p) ==
    Queued(p) \cup
    {c \in Of(p) : card[c].play \notin {"running", "queued"} /\ card[c].column \in sources[p]}

\* The first of them: the queue in its order, then the source columns.  The order
\* of a column on the board is left open.
Heads(p) ==
    IF Queued(p) = {} THEN Eligible(p)
    ELSE {c \in Queued(p) : \A d \in Queued(p) : card[c].order <= card[d].order}

\* ApplyProjectAutoWork with the action play; refused as a whole if several cards
\* run or the first card cannot be played.
AutoPlay(p) ==
    /\ Cardinality(Running(p)) <= 1
    /\ enabled' = [enabled EXCEPT ![p] = TRUE]
    /\ IF Running(p) # {} \/ Eligible(p) = {} THEN UNCHANGED board
       ELSE \E c \in Heads(p) : Prepare(card, job, c)
    /\ UNCHANGED sources

AutoPlayRefused(p) ==
    /\ \/ Cardinality(Running(p)) > 1
       \/ Running(p) = {} /\ \E c \in Heads(p) : ~Playable(c)
    /\ UNCHANGED <<board, settings>>

-----------------------------------------------------------------------------
(* The scheduler. *)

\* startProjectAutoWork and pauseProjectAutoWork.
PlayProject(p) ==
    /\ AutoPlay(p)
    /\ UNCHANGED scheduler

PauseProject(p) ==
    /\ Cardinality(Running(p)) <= 1
    /\ \A c \in Queued(p) : card[c].job = NoJob
    /\ card' = Paused(Running(p) \cup Queued(p))
    /\ job' = Canceled(Running(p))
    /\ enabled' = [enabled EXCEPT ![p] = FALSE]
    /\ UNCHANGED <<resumed, sources, scheduler>>

\* The PATCH of the board's auto-work setting: SetScrumAutoWorkConfig, and a
\* goroutine that refreshes the project.  When auto-work is switched off the
\* goroutine starts nothing.
Configure(p, on, columns) ==
    /\ enabled' = [enabled EXCEPT ![p] = on]
    /\ sources' = [sources EXCEPT ![p] = columns]
    /\ due' = IF on THEN due \cup {p} ELSE due
    /\ UNCHANGED <<board, scan>>

\* That goroutine, at last: it waits for scrumAutoWorkMu.  The scan it appends is
\* one that may begin anyway.
RefreshProject(p) ==
    /\ p \in due
    /\ scan.at = "idle"
    /\ AutoPlay(p) \/ AutoPlayRefused(p)
    /\ due' = due \ {p}
    /\ UNCHANGED scan

GoTo(at, p) == scan' = [at |-> at, project |-> p]

EndScan == GoTo("idle", NoProject)

\* refreshScrumAutoWork.  Scans are asked for by a ticker and by handlers, at any
\* time (module AutoWorkLoop).
BeginScan ==
    /\ scan.at = "idle"
    /\ GoTo("check", NoProject)
    /\ UNCHANGED <<board, settings, due>>

\* HasRunningScrumPlay and RunningScrumPlayProjectID: cards running in several
\* projects are an error.
CheckRunning ==
    /\ scan.at = "check"
    /\ LET P == {p \in Project : Running(p) # {}} IN
        \/ P = {} /\ GoTo("pick", NoProject)
        \/ \E p \in Project : P = {p} /\ GoTo("reconcile", p)
        \/ Cardinality(P) > 1 /\ EndScan
    /\ UNCHANGED <<board, settings, due>>

\* refreshScrumPlayQueueForProject and startNextScrumAutoWork, both of which end
\* in the transaction of auto-work.
ScanPlays ==
    /\ \/ scan.at = "reconcile" /\ AutoPlay(scan.project) /\ GoTo("recheck", NoProject)
       \/ scan.at = "start" /\ AutoPlay(scan.project) /\ GoTo("confirm", scan.project)
       \/ scan.at = "retry" /\ AutoPlay(scan.project) /\ EndScan
    /\ UNCHANGED due

ScanRefused ==
    /\ scan.at \in {"reconcile", "start", "retry"}
    /\ AutoPlayRefused(scan.project)
    /\ EndScan
    /\ UNCHANGED due

\* HasRunningScrumPlay after a reconciliation.
RecheckRunning ==
    /\ \/ scan.at \in {"recheck", "confirm"} /\ SomethingRuns /\ EndScan
       \/ scan.at = "recheck" /\ ~SomethingRuns /\ GoTo("pick", NoProject)
       \/ scan.at = "confirm" /\ ~SomethingRuns /\ GoTo("retry", scan.project)
    /\ UNCHANGED <<board, settings, due>>

Candidates == {p \in Project : enabled[p] /\ Running(p) = {} /\ Eligible(p) # {}}

\* FindGlobalScrumAutoWorkCandidate: the project whose first card was touched
\* longest ago; which one that is is left open.
PickCandidate ==
    /\ scan.at = "pick"
    /\ IF Candidates = {} THEN EndScan
       ELSE \E p \in Candidates : GoTo("start", p)
    /\ UNCHANGED <<board, settings, due>>

\* A read or a transaction of the scan fails; among the reasons is a job that
\* ended between the reads of the card and of the job.
ScanFails ==
    /\ scan.at # "idle"
    /\ EndScan
    /\ UNCHANGED <<board, settings, due>>

Scanning ==
    \/ BeginScan \/ CheckRunning \/ ScanPlays \/ ScanRefused
    \/ RecheckRunning \/ PickCandidate

Next ==
    \/ \E c \in Card :
        \/ PlayCard(c) \/ PauseCard(c) \/ StartFromChannel(c) \/ DeleteCard(c)
        \/ \E column \in Columns : CreateCard(c, column) \/ MoveCard(c, column)
    \/ \E j \in Job :
        \/ \E status \in Terminal : EndJob(j, status)
        \/ ResumeJob(j)
    \/ \E p \in Project :
        \/ PlayProject(p) \/ PauseProject(p) \/ RefreshProject(p)
        \/ \E on \in BOOLEAN, columns \in SourceSets : Configure(p, on, columns)
    \/ Scanning \/ ScanFails

Spec == Init /\ [][Next]_vars

\* The ticker goes on, the goroutine of the scan is scheduled, and a scan that is
\* tried again and again is at last not disturbed by failures.
FairSpec ==
    /\ Spec
    /\ WF_vars(Scanning)
    /\ SF_vars(CheckRunning)
    /\ SF_vars(RecheckRunning)
    /\ SF_vars(PickCandidate)
    /\ SF_vars(ScanPlays)

-----------------------------------------------------------------------------
(* Properties. *)

\* A card shown as running is in progress and its job is still open: whatever
\* ends the job, the worker, the owner or a pause, ends the play as well.
RunningCardIsLive ==
    \A c \in Card : card[c].play = "running" =>
        /\ card[c].column = "in_progress"
        /\ card[c].job \in Job
        /\ job[card[c].job] = "open"

\* A job that works is shown by a running card, so that the owner can stop it:
\* cards are not paused, deleted, moved or played again behind the back of their
\* job.  Jobs that were resumed after a failure are the exception.
OpenJobsArePlayed ==
    \A j \in Job \ resumed : job[j] = "open" =>
        \E c \in Card : card[c].job = j /\ card[c].play = "running"

\* Cards of a project keep their places in the queue, and who comes later is
\* played later.
QueueIsFifo ==
    [][\A p \in Project : \A a \in Queued(p) : \A b \in Of(p) \ {a} :
         card'[a].play = "queued" /\ card'[b].play = "queued"
         /\ (b \in Queued(p) => card[a].order < card[b].order)
           => card'[a].order < card'[b].order]_vars

\* A card that stops running says what became of its job: to be reviewed after a
\* completion, an error after a failure or a cancellation by itself, paused and
\* without the job after a pause.
ResultsAreShown ==
    [][\A c \in Card : card[c].play = "running" /\ card'[c].play # "running" =>
         \/ /\ card'[c].column = "review"
            /\ card'[c].job = card[c].job
            /\ job'[card[c].job] = "completed"
         \/ /\ card'[c].column = "error"
            /\ card'[c].job = card[c].job
            /\ job'[card[c].job] \in {"failed", "canceled"}
         \/ /\ card'[c] = PausedCard
            /\ job'[card[c].job] = "canceled"]_vars

\* The cards auto-work could start: playable, and queued or in a source column of
\* an enabled project.
Waiting ==
    {c \in Card : /\ enabled[Home[c]] /\ Playable(c)
                  /\ \/ card[c].play = "queued"
                     \/ card[c].play # "running" /\ card[c].column \in sources[Home[c]]}

\* Auto-work does not stand still: when nothing runs and a card waits, something
\* is started, by a scan if by nobody else.  It takes source columns that can be
\* played: a card in another one is selected and refused by every scan.
IdleWorkIsPickedUp ==
    (~SomethingRuns /\ Waiting # {}) ~> (SomethingRuns \/ Waiting = {})

=============================================================================
