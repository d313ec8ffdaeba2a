--------------------------- MODULE ScrumPlayProofs ---------------------------
(***************************************************************************)
(* Cards and jobs agree, for any number of projects, cards and jobs.  The  *)
(* agreement is stated for cards and jobs as parameters, because a         *)
(* transaction may first pause one card and then launch another: each half *)
(* keeps the agreement.                                                    *)
(***************************************************************************)
EXTENDS ScrumPlay, WellFoundedInduction, TLAPS

JobStatus == {"none", "open", "completed", "failed", "canceled"}

\* A running card is live.
Live(cards, jobs) ==
    \A c \in Card : cards[c].play = "running" =>
        /\ cards[c].column = "in_progress"
        /\ cards[c].job \in Job
        /\ jobs[cards[c].job] = "open"

\* An open job that was not resumed is played.
Shown(cards, jobs, again) ==
    \A j \in Job \ again : jobs[j] = "open" =>
        \E c \in Card : cards[c].job = j /\ cards[c].play = "running"

\* No two cards name one job.
Unshared(cards) ==
    \A c, d \in Card : cards[c].job = cards[d].job => c = d \/ cards[c].job = NoJob

Agree(cards, jobs, again) ==
    /\ cards \in [Card -> CardState]
    /\ jobs \in [Job -> JobStatus]
    /\ again \in SUBSET Job
    /\ Live(cards, jobs)
    /\ Shown(cards, jobs, again)
    /\ Unshared(cards)

SchedulerOK ==
    /\ enabled \in [Project -> BOOLEAN]
    /\ sources \in [Project -> SUBSET AllColumns]
    /\ due \in SUBSET Project
    /\ scan \in [at : {"idle", "check", "reconcile", "recheck", "pick",
                       "start", "confirm", "retry"},
                 project : Project \cup {NoProject}]
    /\ scan.at \in {"reconcile", "start", "confirm", "retry"} => scan.project \in Project

\* The inductive invariant.
IInv == Agree(card, job, resumed) /\ SchedulerOK

-----------------------------------------------------------------------------
(* The two halves of a transaction. *)

\* Pausing cards and cancelling their jobs keeps the agreement.
LEMMA PausingAgrees ==
    ASSUME Agree(card, job, resumed), NEW S \in SUBSET Card
    PROVE  Agree(Paused(S), Canceled(S), resumed)
<1> DEFINE cards == Paused(S)
           jobs == Canceled(S)
<1>1. \A c \in Card : cards[c] = IF c \in S THEN PausedCard ELSE card[c]
  BY DEF Paused
<1>2. \A j \in Job : jobs[j] = IF \E c \in S : card[c].play = "running" /\ card[c].job = j
                               THEN "canceled" ELSE job[j]
  BY DEF Canceled
<1>3. PausedCard \in CardState
  BY DEF PausedCard, CardState, AllColumns
<1>4. cards \in [Card -> CardState]
  BY <1>1, <1>3 DEF Paused, Agree
<1>5. jobs \in [Job -> JobStatus]
  BY DEF Canceled, Agree, JobStatus
<1>6. Live(cards, jobs)
  <2> SUFFICES ASSUME NEW c \in Card, cards[c].play = "running"
               PROVE  /\ cards[c].column = "in_progress"
                      /\ cards[c].job \in Job
                      /\ jobs[cards[c].job] = "open"
    BY DEF Live
  <2>1. c \notin S /\ cards[c] = card[c]
    BY <1>1 DEF PausedCard
  <2>2. card[c].column = "in_progress" /\ card[c].job \in Job /\ job[card[c].job] = "open"
    BY <2>1 DEF Agree, Live
  <2>3. \A d \in S : card[d].job # card[c].job
    BY <2>1, <2>2, ScrumAssumption DEF Agree, Unshared
  <2> QED BY <1>2, <2>1, <2>2, <2>3
<1>7. Shown(cards, jobs, resumed)
  <2> SUFFICES ASSUME NEW j \in Job \ resumed, jobs[j] = "open"
               PROVE  \E c \in Card : cards[c].job = j /\ cards[c].play = "running"
    BY DEF Shown
  <2>1. job[j] = "open" /\ ~\E c \in S : card[c].play = "running" /\ card[c].job = j
    BY <1>2
  <2>2. PICK c \in Card : card[c].job = j /\ card[c].play = "running"
    BY <2>1 DEF Agree, Shown
  <2> QED BY <1>1, <2>1, <2>2
<1>8. Unshared(cards)
  <2> SUFFICES ASSUME NEW c \in Card, NEW d \in Card, cards[c].job = cards[d].job,
                      c # d, cards[c].job # NoJob
               PROVE  FALSE
    BY DEF Unshared
  <2>1. c \notin S /\ d \notin S
    BY <1>1 DEF PausedCard
  <2> QED BY <1>1, <2>1 DEF Agree, Unshared
<1> QED BY <1>4, <1>5, <1>6, <1>7, <1>8 DEF Agree

\* Launching a job no other card names, for a card that does not run, keeps it.
LEMMA LaunchingAgrees ==
    ASSUME NEW cards, NEW jobs, NEW again, Agree(cards, jobs, again),
           NEW c \in Card, cards[c].play # "running",
           NEW j \in Job, jobs[j] # "open",
           \A d \in Card \ {c} : cards[d].job # j
    PROVE  Agree([cards EXCEPT ![c] = [column |-> "in_progress", play |-> "running",
                                       order |-> 0, job |-> j]],
                 [jobs EXCEPT ![j] = "open"], again \ {j})
<1> DEFINE new == [column |-> "in_progress", play |-> "running", order |-> 0, job |-> j]
           newCards == [cards EXCEPT ![c] = new]
           newJobs == [jobs EXCEPT ![j] = "open"]
           left == again \ {j}
<1>1. new \in CardState
  BY DEF CardState, AllColumns
<1>2. cards \in [Card -> CardState] /\ jobs \in [Job -> JobStatus]
  BY DEF Agree
<1>3. \A d \in Card : newCards[d] = IF d = c THEN new ELSE cards[d]
  BY <1>2
<1>4. \A k \in Job : newJobs[k] = IF k = j THEN "open" ELSE jobs[k]
  BY <1>2
<1>5. newCards \in [Card -> CardState]
  BY <1>1, <1>2
<1>6. newJobs \in [Job -> JobStatus] /\ left \in SUBSET Job
  BY <1>2 DEF JobStatus, Agree
<1>7. Live(newCards, newJobs)
  <2> SUFFICES ASSUME NEW d \in Card, newCards[d].play = "running"
               PROVE  /\ newCards[d].column = "in_progress"
                      /\ newCards[d].job \in Job
                      /\ newJobs[newCards[d].job] = "open"
    BY DEF Live
  <2>1. CASE d = c
    BY <1>3, <1>4, <2>1
  <2>2. CASE d # c
    BY <1>3, <1>4, <2>2 DEF Agree, Live
  <2> QED BY <2>1, <2>2
<1>8. Shown(newCards, newJobs, left)
  <2> SUFFICES ASSUME NEW k \in Job \ left, newJobs[k] = "open"
               PROVE  \E d \in Card : newCards[d].job = k /\ newCards[d].play = "running"
    BY DEF Shown
  <2>1. CASE k = j
    BY <1>3, <2>1
  <2>2. CASE k # j
    <3>1. PICK d \in Card : cards[d].job = k /\ cards[d].play = "running"
      BY <1>4, <2>2 DEF Agree, Shown
    <3> QED BY <1>3, <3>1
  <2> QED BY <2>1, <2>2
<1>9. Unshared(newCards)
  <2> SUFFICES ASSUME NEW a \in Card, NEW b \in Card, newCards[a].job = newCards[b].job,
                      a # b, newCards[a].job # NoJob
               PROVE  FALSE
    BY DEF Unshared
  <2>1. CASE a = c
    BY <1>3, <2>1
  <2>2. CASE b = c
    BY <1>3, <2>2
  <2>3. CASE a # c /\ b # c
    BY <1>3, <2>3 DEF Agree, Unshared
  <2> QED BY <2>1, <2>2, <2>3
<1> QED BY <1>5, <1>6, <1>7, <1>8, <1>9 DEF Agree

\* A card that does not run and changes neither play nor job.
LEMMA IdleCardAgrees ==
    ASSUME Agree(card, job, resumed), UNCHANGED <<job, resumed>>,
           NEW c \in Card, card[c].play # "running",
           NEW new \in CardState, new.play # "running", new.job \in {card[c].job, NoJob},
           card' = [card EXCEPT ![c] = new]
    PROVE  Agree(card', job', resumed')
<1>1. card \in [Card -> CardState]
  BY DEF Agree
<1>2. \A d \in Card : card'[d] = IF d = c THEN new ELSE card[d]
  BY <1>1
<1>3. card' \in [Card -> CardState]
  BY <1>1
<1>4. Live(card', job')
  BY <1>2 DEF Agree, Live
<1>5. Shown(card', job', resumed')
  <2> SUFFICES ASSUME NEW k \in Job \ resumed, job[k] = "open"
               PROVE  \E d \in Card : card'[d].job = k /\ card'[d].play = "running"
    BY DEF Shown
  <2>1. PICK d \in Card : card[d].job = k /\ card[d].play = "running"
    BY DEF Agree, Shown
  <2> QED BY <1>2, <2>1
<1>6. Unshared(card')
  <2> SUFFICES ASSUME NEW a \in Card, NEW b \in Card, card'[a].job = card'[b].job,
                      a # b, card'[a].job # NoJob
               PROVE  FALSE
    BY DEF Unshared
  <2>1. card'[a].job = card[a].job /\ card'[b].job = card[b].job
    BY <1>2
  <2> QED BY <2>1 DEF Agree, Unshared
<1> QED BY <1>3, <1>4, <1>5, <1>6 DEF Agree

\* Launch for a card that does not run, alone or after a pause of cards that run.
LEMMA LaunchAgrees ==
    ASSUME Agree(card, job, resumed), NEW S \in SUBSET Card, NEW c \in Card \ S,
           card[c].play # "running", Launch(Paused(S), Canceled(S), c)
    PROVE  Agree(card', job', resumed')
<1>1. PICK j \in Fresh(c) :
        /\ card' = [Paused(S) EXCEPT ![c] = [column |-> "in_progress", play |-> "running",
                                             order |-> 0, job |-> j]]
        /\ job' = [Canceled(S) EXCEPT ![j] = "open"]
        /\ resumed' = resumed \ {j}
  BY Zenon DEF Launch
<1>2. j \in Job /\ job[j] # "open" /\ \A d \in Card \ {c} : card[d].job # j
  BY DEF Fresh, Terminal
<1>3. Agree(Paused(S), Canceled(S), resumed)
  BY PausingAgrees
<1>4. Paused(S)[c].play # "running"
  BY DEF Paused
<1>5. Canceled(S)[j] # "open"
  BY <1>2 DEF Canceled
<1>6. \A d \in Card \ {c} : Paused(S)[d].job # j
  BY <1>2, ScrumAssumption DEF Paused, PausedCard
<1> HIDE DEF Paused, Canceled
<1> QED BY <1>1, <1>2, <1>3, <1>4, <1>5, <1>6, LaunchingAgrees, Zenon

\* Pausing no card changes nothing.
LEMMA PauseNone ==
    ASSUME Agree(card, job, resumed)
    PROVE  Paused({}) = card /\ Canceled({}) = job
BY DEF Agree, Paused, Canceled

LEMMA LaunchAloneAgrees ==
    ASSUME Agree(card, job, resumed), NEW c \in Card,
           card[c].play # "running", Launch(card, job, c)
    PROVE  Agree(card', job', resumed')
<1>1. Launch(Paused({}), Canceled({}), c)
  BY PauseNone
<1> QED BY <1>1, LaunchAgrees

LEMMA UnchangedAgrees ==
    ASSUME Agree(card, job, resumed), UNCHANGED board
    PROVE  Agree(card', job', resumed')
BY DEF Agree, Live, Shown, Unshared, board

-----------------------------------------------------------------------------
(* The actions. *)

LEMMA EnqueueAgrees ==
    ASSUME Agree(card, job, resumed), NEW c \in Card, card[c].play # "running", Enqueue(c)
    PROVE  Agree(card', job', resumed')
<1> DEFINE new == [column |-> "assigned", play |-> "queued",
                   order |-> NextOrder(Home[c]), job |-> card[c].job]
<1>1. card[c] \in CardState
  BY DEF Agree
<1>2. NextOrder(Home[c]) \in Nat
  BY ScrumAssumption DEF Enqueue
<1>3. new \in CardState
  BY <1>1, <1>2, Zenon DEF CardState, AllColumns
<1>4. card' = [card EXCEPT ![c] = new] /\ UNCHANGED <<job, resumed>>
  BY DEF Enqueue
<1>5. new.play # "running" /\ new.job \in {card[c].job, NoJob}
  OBVIOUS
<1> HIDE DEF new
<1> QED BY <1>3, <1>4, <1>5, IdleCardAgrees, Zenon

LEMMA PlayCardAgrees ==
    ASSUME Agree(card, job, resumed), NEW c \in Card, PlayCard(c)
    PROVE  Agree(card', job', resumed')
<1>1. Home[c] \in Project
  BY ScrumAssumption
<1>2. CASE Running(Home[c]) = {} /\ Prepare(card, job, c)
  <2>1. card[c].play # "running"
    BY <1>2 DEF Running, Played, Of
  <2> QED BY <1>2, <2>1, LaunchAloneAgrees DEF Prepare
<1>3. ASSUME NEW r \in Of(Home[c]) \ {c}, Running(Home[c]) = {r},
             \/ card[c].play # "queued" /\ Enqueue(c)
             \/ Prepare(Paused({r}), Canceled({r}), c)
      PROVE  Agree(card', job', resumed')
  <2>1. card[c].play # "running"
    BY <1>3 DEF Running, Played, Of
  <2>2. CASE Enqueue(c)
    BY <2>1, <2>2, EnqueueAgrees
  <2>3. CASE Prepare(Paused({r}), Canceled({r}), c)
    <3>1. {r} \in SUBSET Card /\ c \in Card \ {r}
      BY DEF Of
    <3> QED BY <2>1, <2>3, <3>1, LaunchAgrees DEF Prepare
  <2> QED BY <1>3, <2>2, <2>3
<1> QED BY <1>2, <1>3, Zenon DEF PlayCard

LEMMA PauseCardAgrees ==
    ASSUME Agree(card, job, resumed), NEW c \in Card, PauseCard(c)
    PROVE  Agree(card', job', resumed')
<1>1. card' = Paused({c}) /\ job' = Canceled({c}) /\ resumed' = resumed
  BY DEF PauseCard
<1>2. Agree(Paused({c}), Canceled({c}), resumed)
  BY PausingAgrees
<1> QED BY <1>1, <1>2

LEMMA PauseProjectAgrees ==
    ASSUME Agree(card, job, resumed), NEW p \in Project, PauseProject(p)
    PROVE  Agree(card', job', resumed')
<1> DEFINE S == Running(p) \cup Queued(p)
<1>1. S \in SUBSET Card
  BY DEF Running, Queued, Played, Of
<1>2. Canceled(Running(p)) = Canceled(S)
  BY DEF Canceled, Running, Queued, Played, Of
<1>3. card' = Paused(S) /\ job' = Canceled(S) /\ resumed' = resumed
  BY <1>2 DEF PauseProject
<1>4. Agree(Paused(S), Canceled(S), resumed)
  BY <1>1, PausingAgrees
<1> QED BY <1>3, <1>4

LEMMA EditsAgree ==
    ASSUME Agree(card, job, resumed), NEW c \in Card,
           \/ \E column \in Columns : CreateCard(c, column) \/ MoveCard(c, column)
           \/ DeleteCard(c)
    PROVE  Agree(card', job', resumed')
<1>1. card[c] \in CardState
  BY DEF Agree
<1>2. ASSUME NEW column \in Columns, CreateCard(c, column) \/ MoveCard(c, column)
      PROVE  Agree(card', job', resumed')
  <2> DEFINE new == [card[c] EXCEPT !.column = column]
  <2>1. new \in CardState /\ new.play = card[c].play /\ new.job = card[c].job
    BY <1>1, ScrumAssumption, Zenon DEF CardState
  <2>2. card[c].play # "running"
    BY <1>2 DEF CreateCard, MoveCard, Agree, Live
  <2>3. card' = [card EXCEPT ![c] = new] /\ UNCHANGED <<job, resumed>>
    BY <1>2 DEF CreateCard, MoveCard
  <2> HIDE DEF new
  <2> QED BY <2>1, <2>2, <2>3, IdleCardAgrees, Zenon
<1>3. CASE DeleteCard(c)
  <2> DEFINE new == [Blank EXCEPT !.column = "deleted"]
  <2>1. new \in CardState /\ new.play # "running" /\ new.job = NoJob
    BY Zenon DEF CardState, Blank
  <2>2. card[c].play # "running"
    BY <1>3 DEF DeleteCard
  <2>3. card' = [card EXCEPT ![c] = new] /\ UNCHANGED <<job, resumed>>
    BY <1>3 DEF DeleteCard
  <2> HIDE DEF new
  <2> QED BY <2>1, <2>2, <2>3, IdleCardAgrees, Zenon
<1> QED BY <1>2, <1>3

LEMMA EndJobAgrees ==
    ASSUME Agree(card, job, resumed), NEW j \in Job, NEW status \in Terminal, EndJob(j, status)
    PROVE  Agree(card', job', resumed')
<1>1. PICK c \in Card :
        /\ card[c].job = j
        /\ card' = [card EXCEPT ![c] = [column |-> Outcome(status), play |-> "",
                                        order |-> 0, job |-> j]]
  BY Zenon DEF EndJob, Accepts
<1> DEFINE new == [column |-> Outcome(status), play |-> "", order |-> 0, job |-> j]
<1>2. card \in [Card -> CardState] /\ job \in [Job -> JobStatus] /\ resumed \in SUBSET Job
  BY DEF Agree
<1>3. job' = [job EXCEPT ![j] = status] /\ resumed' = resumed
  BY Zenon DEF EndJob
<1>4. new \in CardState
  BY DEF CardState, AllColumns, Outcome
<1>5. \A d \in Card : card'[d] = IF d = c THEN new ELSE card[d]
  BY <1>1, <1>2, Zenon
<1>6. \A k \in Job : job'[k] = IF k = j THEN status ELSE job[k]
  BY <1>2, <1>3
<1>7. \A d \in Card \ {c} : card[d].job # j
  BY <1>1, ScrumAssumption, Zenon DEF Agree, Unshared
<1>8. card' \in [Card -> CardState] /\ job' \in [Job -> JobStatus]
  BY <1>1, <1>2, <1>3, <1>4, Zenon DEF Terminal, JobStatus
<1>9. new.play = "" /\ new.job = j
  OBVIOUS
<1> HIDE DEF new
<1>10. Live(card', job')
  <2> SUFFICES ASSUME NEW d \in Card, card'[d].play = "running"
               PROVE  /\ card'[d].column = "in_progress"
                      /\ card'[d].job \in Job
                      /\ job'[card'[d].job] = "open"
    BY DEF Live
  <2>1. d # c /\ card'[d] = card[d]
    BY <1>5, <1>9, Zenon
  <2> QED BY <1>6, <1>7, <2>1 DEF Agree, Live
<1>11. Shown(card', job', resumed')
  <2> SUFFICES ASSUME NEW k \in Job \ resumed, job'[k] = "open"
               PROVE  \E d \in Card : card'[d].job = k /\ card'[d].play = "running"
    BY <1>3 DEF Shown
  <2>1. k # j /\ job[k] = "open"
    BY <1>6 DEF Terminal
  <2>2. PICK d \in Card : card[d].job = k /\ card[d].play = "running"
    BY <2>1 DEF Agree, Shown
  <2> QED BY <1>1, <1>5, <2>1, <2>2, Zenon
<1>12. Unshared(card')
  <2> SUFFICES ASSUME NEW a \in Card, NEW b \in Card, card'[a].job = card'[b].job,
                      a # b, card'[a].job # NoJob
               PROVE  FALSE
    BY DEF Unshared
  <2>1. card'[a].job = card[a].job /\ card'[b].job = card[b].job
    BY <1>1, <1>5, <1>9, Zenon
  <2> QED BY <2>1, Zenon DEF Agree, Unshared
<1> QED BY <1>2, <1>3, <1>8, <1>10, <1>11, <1>12 DEF Agree

LEMMA ResumeJobAgrees ==
    ASSUME Agree(card, job, resumed), NEW j \in Job, ResumeJob(j)
    PROVE  Agree(card', job', resumed')
<1>1. /\ card \in [Card -> CardState] /\ job \in [Job -> JobStatus] /\ resumed \in SUBSET Job
      /\ Live(card, job) /\ Shown(card, job, resumed) /\ Unshared(card)
  BY DEF Agree
<1>2. card' = card /\ job' = [job EXCEPT ![j] = "open"] /\ resumed' = resumed \cup {j}
  BY DEF ResumeJob
<1>3. \A k \in Job : job'[k] = IF k = j THEN "open" ELSE job[k]
  BY <1>1, <1>2
<1>4. job' \in [Job -> JobStatus] /\ resumed' \in SUBSET Job
  BY <1>1, <1>2 DEF JobStatus
<1>5. Live(card', job')
  BY <1>1, <1>2, <1>3 DEF Live
<1>6. Shown(card', job', resumed')
  BY <1>1, <1>2, <1>3 DEF Shown
<1> QED BY <1>1, <1>2, <1>4, <1>5, <1>6 DEF Agree

LEMMA AutoPlayAgrees ==
    ASSUME Agree(card, job, resumed), NEW p \in Project, AutoPlay(p)
    PROVE  Agree(card', job', resumed')
<1>1. CASE Running(p) # {} \/ Eligible(p) = {}
  BY <1>1, UnchangedAgrees DEF AutoPlay
<1>2. CASE ~(Running(p) # {} \/ Eligible(p) = {})
  <2>1. PICK c \in Heads(p) : Prepare(card, job, c)
    BY <1>2 DEF AutoPlay
  <2>2. c \in Card /\ card[c].play # "running"
    BY <1>2 DEF Heads, Eligible, Queued, Played, Of
  <2> QED BY <2>1, <2>2, LaunchAloneAgrees DEF Prepare
<1> QED BY <1>1, <1>2

\* Every step keeps cards and jobs in agreement.
LEMMA StepAgrees ==
    ASSUME IInv, [Next]_vars
    PROVE  Agree(card', job', resumed')
<1> USE DEF IInv
<1>1. CASE UNCHANGED vars
  BY <1>1, UnchangedAgrees DEF vars, board
<1>2. ASSUME NEW c \in Card,
             \/ PlayCard(c) \/ PauseCard(c) \/ StartFromChannel(c) \/ DeleteCard(c)
             \/ \E column \in Columns : CreateCard(c, column) \/ MoveCard(c, column)
      PROVE  Agree(card', job', resumed')
  <2>1. CASE StartFromChannel(c)
    BY <2>1, LaunchAloneAgrees DEF StartFromChannel
  <2> QED BY <1>2, <2>1, PlayCardAgrees, PauseCardAgrees, EditsAgree
<1>3. ASSUME NEW j \in Job, (\E status \in Terminal : EndJob(j, status)) \/ ResumeJob(j)
      PROVE  Agree(card', job', resumed')
  BY <1>3, EndJobAgrees, ResumeJobAgrees
<1>4. ASSUME NEW p \in Project,
             \/ PlayProject(p) \/ PauseProject(p) \/ RefreshProject(p)
             \/ \E on \in BOOLEAN, columns \in SourceSets : Configure(p, on, columns)
      PROVE  Agree(card', job', resumed')
  <2>1. CASE PlayProject(p)
    BY <2>1, AutoPlayAgrees DEF PlayProject
  <2>2. CASE PauseProject(p)
    BY <2>2, PauseProjectAgrees
  <2>3. CASE RefreshProject(p)
    BY <2>3, AutoPlayAgrees, UnchangedAgrees DEF RefreshProject, AutoPlayRefused
  <2>4. CASE \E on \in BOOLEAN, columns \in SourceSets : Configure(p, on, columns)
    BY <2>4, UnchangedAgrees DEF Configure
  <2> QED BY <1>4, <2>1, <2>2, <2>3, <2>4
<1>5. CASE ScanPlays
  <2>1. scan.project \in Project
    BY <1>5 DEF ScanPlays, SchedulerOK
  <2> QED BY <1>5, <2>1, AutoPlayAgrees DEF ScanPlays
<1>6. CASE BeginScan \/ CheckRunning \/ ScanRefused \/ RecheckRunning \/ PickCandidate \/ ScanFails
  BY <1>6, UnchangedAgrees
     DEF BeginScan, CheckRunning, ScanRefused, AutoPlayRefused, RecheckRunning, PickCandidate,
         ScanFails
<1> QED BY <1>1, <1>2, <1>3, <1>4, <1>5, <1>6 DEF Next, Scanning

\* The scheduler keeps its types, and a scan that acts on a project has one.
LEMMA StepKeepsScheduler ==
    ASSUME IInv, [Next]_vars
    PROVE  SchedulerOK'
<1> USE DEF IInv
<1>1. CASE UNCHANGED <<settings, scheduler>>
  BY <1>1 DEF SchedulerOK, settings, scheduler
<1>2. ASSUME NEW p \in Project, AutoPlay(p) \/ AutoPlayRefused(p)
      PROVE  enabled' \in [Project -> BOOLEAN] /\ sources' = sources
  BY <1>2, Zenon DEF AutoPlay, AutoPlayRefused, settings, SchedulerOK
<1>3. ASSUME NEW p \in Project,
             \/ PlayProject(p) \/ PauseProject(p) \/ RefreshProject(p)
             \/ \E on \in BOOLEAN, columns \in SourceSets : Configure(p, on, columns)
      PROVE  SchedulerOK'
  <2>1. CASE PlayProject(p)
    BY <1>2, <2>1 DEF PlayProject, SchedulerOK, scheduler
  <2>2. CASE PauseProject(p)
    BY <2>2 DEF PauseProject, SchedulerOK, scheduler
  <2>3. CASE RefreshProject(p)
    BY <1>2, <2>3 DEF RefreshProject, SchedulerOK
  <2>4. CASE \E on \in BOOLEAN, columns \in SourceSets : Configure(p, on, columns)
    BY <2>4, ScrumAssumption DEF Configure, SchedulerOK
  <2> QED BY <1>3, <2>1, <2>2, <2>3, <2>4
<1>4. CASE ScanPlays \/ ScanRefused
  <2>1. scan.project \in Project
    BY <1>4 DEF ScanPlays, ScanRefused, SchedulerOK
  <2>2. enabled' \in [Project -> BOOLEAN] /\ sources' = sources /\ due' = due
    BY <1>2, <1>4, <2>1 DEF ScanPlays, ScanRefused
  <2>3. CASE ScanPlays
    BY <2>1, <2>2, <2>3 DEF ScanPlays, SchedulerOK, GoTo, EndScan
  <2>4. CASE ScanRefused
    BY <2>2, <2>4 DEF ScanRefused, SchedulerOK, GoTo, EndScan
  <2> QED BY <1>4, <2>3, <2>4
<1>5. CASE BeginScan \/ CheckRunning \/ RecheckRunning \/ PickCandidate \/ ScanFails
  <2>1. UNCHANGED <<enabled, sources, due>>
    BY <1>5 DEF BeginScan, CheckRunning, RecheckRunning, PickCandidate, ScanFails, settings
  <2>2. CASE BeginScan
    BY <2>1, <2>2 DEF BeginScan, SchedulerOK, GoTo
  <2>3. CASE CheckRunning
    BY <2>1, <2>3 DEF CheckRunning, SchedulerOK, GoTo, EndScan
  <2>4. CASE RecheckRunning
    BY <2>1, <2>4 DEF RecheckRunning, SchedulerOK, GoTo, EndScan
  <2>5. CASE PickCandidate
    BY <2>1, <2>5 DEF PickCandidate, Candidates, SchedulerOK, GoTo, EndScan
  <2>6. CASE ScanFails
    BY <2>1, <2>6 DEF ScanFails, SchedulerOK, GoTo, EndScan
  <2> QED BY <1>5, <2>2, <2>3, <2>4, <2>5, <2>6
<1>6. ASSUME NEW c \in Card,
             \/ PlayCard(c) \/ PauseCard(c) \/ StartFromChannel(c) \/ DeleteCard(c)
             \/ \E column \in Columns : CreateCard(c, column) \/ MoveCard(c, column)
      PROVE  SchedulerOK'
  BY <1>1, <1>6 DEF PlayCard, PauseCard, StartFromChannel, DeleteCard, CreateCard, MoveCard
<1>7. ASSUME NEW j \in Job, (\E status \in Terminal : EndJob(j, status)) \/ ResumeJob(j)
      PROVE  SchedulerOK'
  BY <1>1, <1>7, Zenon DEF EndJob, ResumeJob
<1>8. CASE UNCHANGED vars
  BY <1>1, <1>8 DEF vars, settings, scheduler
<1> QED BY <1>3, <1>4, <1>5, <1>6, <1>7, <1>8 DEF Next, Scanning

-----------------------------------------------------------------------------
(* The theorems. *)

\* IInv holds in all reachable states: running cards are live, open jobs are
\* played, no two cards name one job, and a scan knows the project it acts on.
THEOREM Inductive == Spec => []IInv
<1>1. Init => IInv
  <2> SUFFICES ASSUME Init PROVE IInv
    OBVIOUS
  <2>1. Blank \in CardState
    BY DEF Blank, CardState
  <2>2. card \in [Card -> CardState] /\ job \in [Job -> JobStatus] /\ resumed \in SUBSET Job
    BY <2>1 DEF Init, JobStatus
  <2>3. Live(card, job) /\ Shown(card, job, resumed) /\ Unshared(card)
    BY Zenon DEF Init, Live, Shown, Unshared, Blank
  <2>4. SchedulerOK
    BY DEF Init, SchedulerOK, AllColumns
  <2> QED BY <2>2, <2>3, <2>4 DEF IInv, Agree
<1>2. IInv /\ [Next]_vars => IInv'
  <2> SUFFICES ASSUME IInv, [Next]_vars PROVE IInv'
    OBVIOUS
  <2>1. Agree(card', job', resumed')
    BY StepAgrees
  <2>2. SchedulerOK'
    BY StepKeepsScheduler
  <2> QED BY <2>1, <2>2 DEF IInv, Agree, Live, Shown, Unshared
<1> QED BY <1>1, <1>2, PTL DEF Spec

\* Cards, jobs, settings and the scheduler keep their types.
THEOREM TypeCorrect == Spec => []TypeOK
<1>1. IInv => TypeOK
  BY DEF IInv, Agree, SchedulerOK, TypeOK, JobStatus
<1> QED BY <1>1, Inductive, PTL

\* A running card is in progress and its job is open, for any number of projects,
\* cards and jobs, and any interleaving of owners, workers and the scheduler.
THEOREM RunningCardsAreLive == Spec => []RunningCardIsLive
<1>1. IInv => RunningCardIsLive
  BY DEF IInv, Agree, Live, RunningCardIsLive
<1> QED BY <1>1, Inductive, PTL

\* An open job is shown by a running card unless it was resumed after a failure.
THEOREM OpenJobsAreAlwaysPlayed == Spec => []OpenJobsArePlayed
<1>1. IInv => OpenJobsArePlayed
  BY DEF IInv, Agree, Shown, OpenJobsArePlayed
<1> QED BY <1>1, Inductive, PTL

-----------------------------------------------------------------------------
(* How a card stops. *)

\* What ResultsAreShown says of one card.
Told(c) ==
    \/ /\ card'[c].column = "review"
       /\ card'[c].job = card[c].job
       /\ job'[card[c].job] = "completed"
    \/ /\ card'[c].column = "error"
       /\ card'[c].job = card[c].job
       /\ job'[card[c].job] \in {"failed", "canceled"}
    \/ /\ card'[c] = PausedCard
       /\ job'[card[c].job] = "canceled"

Stops(c) == card[c].play = "running" /\ card'[c].play # "running"

\* Cards that are paused, with or without a launch of another card.
LEMMA PauseTells ==
    ASSUME Agree(card, job, resumed), NEW S \in SUBSET Card,
           \/ card' = Paused(S) /\ job' = Canceled(S)
           \/ \E c \in Card \ S : Launch(Paused(S), Canceled(S), c),
           NEW d \in Card, Stops(d)
    PROVE  Told(d)
<1>1. card[d].job \in Job /\ job[card[d].job] = "open"
  BY DEF Agree, Live, Stops
<1>2. \A c \in Card : Paused(S)[c] = IF c \in S THEN PausedCard ELSE card[c]
  BY DEF Paused
<1>3. d \in S => Canceled(S)[card[d].job] = "canceled"
  BY <1>1 DEF Canceled, Stops
<1>4. CASE card' = Paused(S) /\ job' = Canceled(S)
  BY <1>2, <1>3, <1>4 DEF Stops, Told
<1>5. CASE \E c \in Card \ S : Launch(Paused(S), Canceled(S), c)
  <2> PICK c \in Card \ S : Launch(Paused(S), Canceled(S), c)
    BY <1>5
  <2>1. PICK j \in Fresh(c) :
          /\ card' = [Paused(S) EXCEPT ![c] = [column |-> "in_progress", play |-> "running",
                                               order |-> 0, job |-> j]]
          /\ job' = [Canceled(S) EXCEPT ![j] = "open"]
    BY Zenon DEF Launch
  <2>2. j \in Job /\ j # card[d].job
    BY <1>1 DEF Fresh, Terminal
  <2>3. d # c
    BY <2>1 DEF Stops, Paused
  <2>4. card'[d] = Paused(S)[d]
    BY <2>1, <2>3 DEF Paused
  <2>5. job'[card[d].job] = Canceled(S)[card[d].job]
    BY <1>1, <2>1, <2>2 DEF Canceled
  <2> QED BY <1>2, <1>3, <2>4, <2>5 DEF Stops, Told
<1> QED BY <1>4, <1>5

LEMMA LaunchTells ==
    ASSUME Agree(card, job, resumed), NEW c \in Card, Launch(card, job, c),
           NEW d \in Card, Stops(d)
    PROVE  Told(d)
<1>1. Launch(Paused({}), Canceled({}), c)
  BY PauseNone
<1> QED BY <1>1, PauseTells

LEMMA EditTells ==
    ASSUME Agree(card, job, resumed), NEW c \in Card, card[c].play # "running",
           NEW new, card' = [card EXCEPT ![c] = new],
           NEW d \in Card, Stops(d)
    PROVE  FALSE
BY DEF Agree, Stops

LEMMA EndTells ==
    ASSUME Agree(card, job, resumed), NEW j \in Job, NEW status \in Terminal, EndJob(j, status),
           NEW d \in Card, Stops(d)
    PROVE  Told(d)
<1>1. PICK c \in Card :
        /\ card[c].job = j
        /\ card' = [card EXCEPT ![c] = [column |-> Outcome(status), play |-> "",
                                        order |-> 0, job |-> j]]
  BY Zenon DEF EndJob, Accepts
<1>2. card \in [Card -> CardState] /\ job \in [Job -> JobStatus]
  BY DEF Agree
<1>3. d = c
  BY <1>1, <1>2, Zenon DEF Stops
<1>4. card'[d].column = Outcome(status) /\ card'[d].job = j /\ card[d].job = j
  BY <1>1, <1>2, <1>3, Zenon
<1>5. job'[j] = status
  BY <1>2, Zenon DEF EndJob
<1> QED BY <1>4, <1>5 DEF Told, Outcome, Terminal

LEMMA AutoPlayTells ==
    ASSUME Agree(card, job, resumed), NEW p \in Project, AutoPlay(p),
           NEW d \in Card, Stops(d)
    PROVE  Told(d)
<1>1. CASE UNCHANGED board
  BY <1>1 DEF board, Stops
<1>2. CASE \E c \in Heads(p) : Prepare(card, job, c)
  <2>1. PICK c \in Heads(p) : Launch(card, job, c)
    BY <1>2 DEF Prepare
  <2>2. c \in Card
    BY DEF Heads, Eligible, Queued, Played, Of
  <2> QED BY <2>1, <2>2, LaunchTells
<1> QED BY <1>1, <1>2 DEF AutoPlay

\* A card that stops running shows what became of its job, in the step in which
\* it stops: completed, failed, canceled, or paused with its job canceled.
THEOREM ResultsAreAlwaysShown == Spec => ResultsAreShown
<1>1. ASSUME IInv, Next, NEW d \in Card, Stops(d)
      PROVE  Told(d)
  <2> USE <1>1 DEF IInv
  <2>1. ASSUME NEW c \in Card, PlayCard(c)
        PROVE  Told(d)
    <3>1. CASE Prepare(card, job, c)
      BY <3>1, LaunchTells DEF Prepare
    <3>2. ASSUME NEW r \in Of(Home[c]) \ {c}, Prepare(Paused({r}), Canceled({r}), c)
          PROVE  Told(d)
      <4>1. {r} \in SUBSET Card /\ c \in Card \ {r}
        BY DEF Of
      <4> QED BY <3>2, <4>1, PauseTells DEF Prepare
    <3>3. ASSUME NEW r \in Of(Home[c]) \ {c}, Running(Home[c]) = {r}, Enqueue(c)
          PROVE  Told(d)
      <4>1. card[c].play # "running"
        BY <3>3 DEF Running, Played, Of
      <4> QED BY <3>3, <4>1, EditTells, Zenon DEF Enqueue
    <3> QED BY <2>1, <3>1, <3>2, <3>3, Zenon DEF PlayCard
  <2>2. ASSUME NEW c \in Card, PauseCard(c)
        PROVE  Told(d)
    <3>1. card' = Paused({c}) /\ job' = Canceled({c}) /\ {c} \in SUBSET Card
      BY <2>2 DEF PauseCard
    <3> QED BY <3>1, PauseTells
  <2>3. ASSUME NEW c \in Card, StartFromChannel(c)
        PROVE  Told(d)
    BY <2>3, LaunchTells DEF StartFromChannel
  <2>4. ASSUME NEW c \in Card, NEW column \in Columns,
               CreateCard(c, column) \/ MoveCard(c, column)
        PROVE  Told(d)
    <3>1. card[c].play # "running"
      BY <2>4 DEF CreateCard, MoveCard, Agree, Live
    <3> QED BY <2>4, <3>1, EditTells DEF CreateCard, MoveCard
  <2>5. ASSUME NEW c \in Card, DeleteCard(c)
        PROVE  Told(d)
    BY <2>5, EditTells, Zenon DEF DeleteCard
  <2>6. ASSUME NEW j \in Job, (\E status \in Terminal : EndJob(j, status)) \/ ResumeJob(j)
        PROVE  Told(d)
    <3>1. CASE ResumeJob(j)
      BY <3>1 DEF ResumeJob, Stops
    <3> QED BY <2>6, <3>1, EndTells
  <2>7. ASSUME NEW p \in Project, PauseProject(p)
        PROVE  Told(d)
    <3> DEFINE S == Running(p) \cup Queued(p)
    <3>1. S \in SUBSET Card
      BY DEF Running, Queued, Played, Of
    <3>2. Canceled(Running(p)) = Canceled(S)
      BY DEF Canceled, Running, Queued, Played, Of
    <3>3. card' = Paused(S) /\ job' = Canceled(S)
      BY <2>7, <3>2 DEF PauseProject
    <3> QED BY <3>1, <3>3, PauseTells
  <2>8. ASSUME NEW p \in Project,
               \/ PlayProject(p) \/ RefreshProject(p)
               \/ \E on \in BOOLEAN, columns \in SourceSets : Configure(p, on, columns)
        PROVE  Told(d)
    <3>1. ~ UNCHANGED board
      BY DEF board, Stops
    <3> QED BY <2>8, <3>1, AutoPlayTells DEF PlayProject, RefreshProject, AutoPlayRefused, Configure
  <2>9. CASE Scanning \/ ScanFails
    <3>1. ~ UNCHANGED board
      BY DEF board, Stops
    <3>2. ScanPlays
      BY <2>9, <3>1 DEF Scanning, BeginScan, CheckRunning, ScanRefused, AutoPlayRefused,
                        RecheckRunning, PickCandidate, ScanFails
    <3>3. scan.project \in Project
      BY <3>2 DEF ScanPlays, SchedulerOK
    <3> QED BY <3>2, <3>3, AutoPlayTells DEF ScanPlays
  <2> QED BY <2>1, <2>2, <2>3, <2>4, <2>5, <2>6, <2>7, <2>8, <2>9 DEF Next
<1>2. IInv /\ [Next]_vars => [\A c \in Card : Stops(c) => Told(c)]_vars
  BY <1>1
<1>3. (\A c \in Card : Stops(c) => Told(c)) <=>
      (\A c \in Card : card[c].play = "running" /\ card'[c].play # "running" =>
         \/ /\ card'[c].column = "review"
            /\ card'[c].job = card[c].job
            /\ job'[card[c].job] = "completed"
         \/ /\ card'[c].column = "error"
            /\ card'[c].job = card[c].job
            /\ job'[card[c].job] \in {"failed", "canceled"}
         \/ /\ card'[c] = PausedCard
            /\ job'[card[c].job] = "canceled")
  BY DEF Stops, Told
<1> QED BY <1>2, <1>3, Inductive, PTL DEF Spec, ResultsAreShown

-----------------------------------------------------------------------------
(* The queue. *)

\* Places in the queue are numbers that Enqueue can give.
Numbered == \A c \in Card : card[c].play = "queued" => card[c].order \in 0 .. MaxOrder

\* What a step may do to the place of card d: a card that waits keeps it, and a
\* card that begins to wait comes after those that wait in its project.
Placed(d) ==
    card'[d].play = "queued" =>
        \/ card[d].play = "queued" /\ card'[d].order = card[d].order
        \/ /\ card[d].play # "queued"
           /\ card'[d].order \in 0 .. MaxOrder
           /\ \A a \in Queued(Home[d]) : card[a].order < card'[d].order

\* A set of numbers with a bound has a greatest one: its distance to the bound is
\* least.
LEMMA GreatestExists ==
    ASSUME NEW B \in Nat, NEW T \in SUBSET (0 .. B), T # {}
    PROVE  \E m \in T : \A n \in T : n <= m
<1> DEFINE D == {B - m : m \in T}
<1>1. D \subseteq Nat /\ D # {}
  <2>1. \A m \in T : B - m \in Nat
    OBVIOUS
  <2>2. D \subseteq Nat
    BY <2>1
  <2>3. PICK m \in T : TRUE
    OBVIOUS
  <2>4. B - m \in D
    BY <2>3, Zenon
  <2> QED BY <2>2, <2>4
<1>2. PICK x \in D : \A y \in D : ~(<<y, x>> \in OpToRel(<, Nat))
  BY <1>1, NatLessThanWellFounded, WFMin, Zenon
<1>3. \A y \in D : ~(y < x)
  BY <1>1, <1>2 DEF OpToRel
<1>4. PICK m \in T : x = B - m
  OBVIOUS
<1>5. ASSUME NEW n \in T
      PROVE  n <= m
  <2>1. B - n \in D
    OBVIOUS
  <2>2. ~(B - n < B - m)
    BY <1>3, <1>4, <2>1
  <2> HIDE DEF D
  <2> QED BY <2>2
<1> QED BY <1>5

\* COALESCE(MAX(queue_order), 0) + 1 is above the place of every card that waits
\* in the project.
LEMMA NextOrderIsLast ==
    ASSUME ScrumAssumption, Numbered, NEW p \in Project, NEW a \in Queued(p)
    PROVE  card[a].order < NextOrder(p)
<1> DEFINE taken == {card[c].order : c \in Queued(p)} \cup {0}
           free == {m + 1 : m \in taken}
<1>1. taken \in SUBSET (0 .. MaxOrder) /\ MaxOrder \in Nat /\ taken # {}
  BY DEF ScrumAssumption, Numbered, Queued, Played, Of
<1>2. card[a].order \in taken
  OBVIOUS
<1>3. NextOrder(p) = CHOOSE n \in free : \A m \in taken : m < n
  BY DEF NextOrder
<1> HIDE DEF taken
<1>4. PICK g \in taken : \A n \in taken : n <= g
  BY <1>1, GreatestExists
<1>5. g + 1 \in free /\ \A m \in taken : m < g + 1
  BY <1>1, <1>4
<1> HIDE DEF free
<1>6. NextOrder(p) \in free /\ \A m \in taken : m < NextOrder(p)
  BY <1>3, <1>5
<1> QED BY <1>2, <1>6

LEMMA EnqueuePlaces ==
    ASSUME IInv, Numbered, NEW c \in Card, card[c].play # "queued", Enqueue(c),
           NEW d \in Card
    PROVE  Placed(d)
<1>1. card \in [Card -> CardState] /\ Home[c] \in Project
  BY ScrumAssumption DEF IInv, Agree
<1>2. NextOrder(Home[c]) \in 0 .. MaxOrder
  BY ScrumAssumption DEF Enqueue
<1>3. card' = [card EXCEPT ![c] = [column |-> "assigned", play |-> "queued",
                                   order |-> NextOrder(Home[c]), job |-> card[c].job]]
  BY DEF Enqueue
<1>4. CASE d = c
  <2>1. card'[d].order = NextOrder(Home[d])
    BY <1>1, <1>3, <1>4, Zenon
  <2>2. \A a \in Queued(Home[d]) : card[a].order < NextOrder(Home[d])
    BY <1>1, <1>4, NextOrderIsLast, ScrumAssumption
  <2> QED BY <1>2, <1>4, <2>1, <2>2, Zenon DEF Placed
<1>5. CASE d # c
  <2>1. card'[d] = card[d]
    BY <1>1, <1>3, <1>5, Zenon
  <2> QED BY <2>1, Zenon DEF Placed
<1> QED BY <1>4, <1>5

\* Cards that are paused or launched do not wait, and the others stay.
LEMMA PausePlaces ==
    ASSUME IInv, NEW S \in SUBSET Card,
           \/ card' = Paused(S)
           \/ \E c \in Card : Launch(Paused(S), Canceled(S), c),
           NEW d \in Card
    PROVE  Placed(d)
<1>1. Paused(S)[d] = IF d \in S THEN PausedCard ELSE card[d]
  BY DEF Paused
<1>2. Paused(S)[d].play = "queued" => Paused(S)[d] = card[d]
  BY <1>1 DEF PausedCard
<1>3. CASE card' = Paused(S)
  BY <1>2, <1>3, Zenon DEF Placed
<1>4. ASSUME NEW c \in Card, Launch(Paused(S), Canceled(S), c)
      PROVE  Placed(d)
  <2>1. PICK j \in Fresh(c) :
          card' = [Paused(S) EXCEPT ![c] = [column |-> "in_progress", play |-> "running",
                                            order |-> 0, job |-> j]]
    BY <1>4, Zenon DEF Launch
  <2>2. card'[d] = IF d = c THEN [column |-> "in_progress", play |-> "running",
                                  order |-> 0, job |-> j] ELSE Paused(S)[d]
    BY <2>1 DEF Paused
  <2>3. CASE d = c
    BY <2>2, <2>3 DEF Placed
  <2>4. CASE d # c
    BY <1>2, <2>2, <2>4, Zenon DEF Placed
  <2> QED BY <2>3, <2>4
<1> QED BY <1>3, <1>4

LEMMA LaunchPlaces ==
    ASSUME IInv, NEW c \in Card, Launch(card, job, c), NEW d \in Card
    PROVE  Placed(d)
<1>1. Launch(Paused({}), Canceled({}), c)
  BY PauseNone DEF IInv
<1> QED BY <1>1, PausePlaces

\* A card that changes and does not wait afterwards, or only changes its column.
LEMMA EditPlaces ==
    ASSUME IInv, NEW c \in Card, NEW new, card' = [card EXCEPT ![c] = new],
           new.play = "queued" => card[c].play = "queued" /\ new.order = card[c].order,
           NEW d \in Card
    PROVE  Placed(d)
<1>1. card \in [Card -> CardState]
  BY DEF IInv, Agree
<1>2. card'[d] = IF d = c THEN new ELSE card[d]
  BY <1>1, Zenon
<1>3. CASE d = c
  BY <1>2, <1>3, Zenon DEF Placed
<1>4. CASE d # c
  BY <1>2, <1>4, Zenon DEF Placed
<1> QED BY <1>3, <1>4

LEMMA StillPlaces ==
    ASSUME UNCHANGED card, NEW d \in Card
    PROVE  Placed(d)
BY Zenon DEF Placed

LEMMA AutoPlayPlaces ==
    ASSUME IInv, NEW p \in Project, AutoPlay(p), NEW d \in Card
    PROVE  Placed(d)
<1>1. CASE UNCHANGED board
  BY <1>1, StillPlaces DEF board
<1>2. CASE \E c \in Heads(p) : Prepare(card, job, c)
  <2>1. PICK c \in Heads(p) : Launch(card, job, c)
    BY <1>2 DEF Prepare
  <2>2. c \in Card
    BY DEF Heads, Eligible, Queued, Played, Of
  <2> QED BY <2>1, <2>2, LaunchPlaces
<1> QED BY <1>1, <1>2 DEF AutoPlay

\* Every step leaves the cards that wait in their places and appends the others.
LEMMA StepPlaces ==
    ASSUME IInv, Numbered, [Next]_vars, NEW d \in Card
    PROVE  Placed(d)
<1>1. ASSUME NEW c \in Card, PlayCard(c)
      PROVE  Placed(d)
  <2>1. CASE Prepare(card, job, c)
    BY <2>1, LaunchPlaces DEF Prepare
  <2>2. ASSUME NEW r \in Of(Home[c]) \ {c}, Prepare(Paused({r}), Canceled({r}), c)
        PROVE  Placed(d)
    <3>1. {r} \in SUBSET Card
      BY DEF Of
    <3> QED BY <2>2, <3>1, PausePlaces DEF Prepare
  <2>3. CASE card[c].play # "queued" /\ Enqueue(c)
    BY <2>3, EnqueuePlaces
  <2> QED BY <1>1, <2>1, <2>2, <2>3, Zenon DEF PlayCard
<1>2. ASSUME NEW c \in Card, PauseCard(c)
      PROVE  Placed(d)
  <2>1. card' = Paused({c}) /\ {c} \in SUBSET Card
    BY <1>2 DEF PauseCard
  <2> QED BY <2>1, PausePlaces
<1>3. ASSUME NEW c \in Card, StartFromChannel(c)
      PROVE  Placed(d)
  BY <1>3, LaunchPlaces DEF StartFromChannel
<1>4. ASSUME NEW c \in Card, NEW column \in Columns,
             CreateCard(c, column) \/ MoveCard(c, column)
      PROVE  Placed(d)
  <2> DEFINE new == [card[c] EXCEPT !.column = column]
  <2>1. card[c] \in CardState
    BY DEF IInv, Agree
  <2>2. new.play = card[c].play /\ new.order = card[c].order
    BY <2>1, Zenon DEF CardState
  <2>3. card' = [card EXCEPT ![c] = new]
    BY <1>4 DEF CreateCard, MoveCard
  <2> HIDE DEF new
  <2> QED BY <2>2, <2>3, EditPlaces, Zenon
<1>5. ASSUME NEW c \in Card, DeleteCard(c)
      PROVE  Placed(d)
  <2> DEFINE new == [Blank EXCEPT !.column = "deleted"]
  <2>1. new.play # "queued"
    BY DEF Blank
  <2>2. card' = [card EXCEPT ![c] = new]
    BY <1>5 DEF DeleteCard
  <2> HIDE DEF new
  <2> QED BY <2>1, <2>2, EditPlaces, Zenon
<1>6. ASSUME NEW j \in Job, NEW status \in Terminal, EndJob(j, status)
      PROVE  Placed(d)
  <2>1. PICK c \in Card :
          card' = [card EXCEPT ![c] = [column |-> Outcome(status), play |-> "",
                                       order |-> 0, job |-> j]]
    BY <1>6, Zenon DEF EndJob
  <2> DEFINE new == [column |-> Outcome(status), play |-> "", order |-> 0, job |-> j]
  <2>2. new.play # "queued"
    OBVIOUS
  <2>3. card' = [card EXCEPT ![c] = new]
    BY <2>1
  <2> HIDE DEF new
  <2> QED BY <2>2, <2>3, EditPlaces, Zenon
<1>7. ASSUME NEW p \in Project, PauseProject(p)
      PROVE  Placed(d)
  <2> DEFINE S == Running(p) \cup Queued(p)
  <2>1. S \in SUBSET Card
    BY DEF Running, Queued, Played, Of
  <2>2. card' = Paused(S)
    BY <1>7 DEF PauseProject
  <2> HIDE DEF S
  <2> QED BY <2>1, <2>2, PausePlaces
<1>8. ASSUME NEW p \in Project, AutoPlay(p)
      PROVE  Placed(d)
  BY <1>8, AutoPlayPlaces
<1>9. CASE UNCHANGED card
  BY <1>9, StillPlaces
<1>10. ASSUME NEW p \in Project,
              \/ PlayProject(p) \/ RefreshProject(p)
              \/ \E on \in BOOLEAN, columns \in SourceSets : Configure(p, on, columns)
       PROVE  Placed(d)
  BY <1>8, <1>9, <1>10 DEF PlayProject, RefreshProject, AutoPlayRefused, Configure, board
<1>11. CASE Scanning \/ ScanFails
  <2>1. CASE ScanPlays
    <3>1. scan.project \in Project
      BY <2>1 DEF ScanPlays, SchedulerOK, IInv
    <3> QED BY <1>8, <2>1, <3>1 DEF ScanPlays
  <2>2. CASE ~ScanPlays
    <3>1. UNCHANGED card
      BY <1>11, <2>2 DEF Scanning, BeginScan, CheckRunning, ScanRefused, AutoPlayRefused,
                         RecheckRunning, PickCandidate, ScanFails, board
    <3> QED BY <1>9, <3>1
  <2> QED BY <2>1, <2>2
<1>12. ASSUME NEW j \in Job, ResumeJob(j)
       PROVE  Placed(d)
  BY <1>9, <1>12 DEF ResumeJob
<1>13. CASE UNCHANGED vars
  BY <1>9, <1>13 DEF vars
<1> QED BY <1>1, <1>2, <1>3, <1>4, <1>5, <1>6, <1>7, <1>10, <1>11, <1>12, <1>13 DEF Next

\* The places of the queue stay between 0 and MaxOrder, which is why a greatest
\* one exists.
THEOREM PlacesAreNumbered == Spec => []Numbered
<1>1. Init => Numbered
  <2> SUFFICES ASSUME Init PROVE Numbered
    OBVIOUS
  <2>1. \A c \in Card : card[c].play # "queued"
    BY Zenon DEF Init, Blank
  <2> QED BY <2>1 DEF Numbered
<1>2. IInv /\ Numbered /\ [Next]_vars => Numbered'
  <2> SUFFICES ASSUME IInv, Numbered, [Next]_vars, NEW d \in Card, card'[d].play = "queued"
               PROVE  card'[d].order \in 0 .. MaxOrder
    BY DEF Numbered
  <2>1. Placed(d)
    BY StepPlaces
  <2> QED BY <2>1, Zenon DEF Placed, Numbered
<1> QED BY <1>1, <1>2, Inductive, PTL DEF Spec

\* queue_order is first come, first served: whatever the owners, the jobs and the
\* scheduler do, cards that wait keep their order, and a card that begins to wait
\* comes after all that wait in its project.
THEOREM QueueIsAlwaysFifo == Spec => QueueIsFifo
<1> DEFINE Fifo == \A p \in Project : \A a \in Queued(p) : \A b \in Of(p) \ {a} :
                     card'[a].play = "queued" /\ card'[b].play = "queued"
                     /\ (b \in Queued(p) => card[a].order < card[b].order)
                       => card'[a].order < card'[b].order
<1>1. IInv /\ Numbered /\ [Next]_vars => Fifo
  <2> SUFFICES ASSUME IInv, Numbered, [Next]_vars,
                      NEW p \in Project, NEW a \in Queued(p), NEW b \in Of(p) \ {a},
                      card'[a].play = "queued", card'[b].play = "queued",
                      b \in Queued(p) => card[a].order < card[b].order
               PROVE  card'[a].order < card'[b].order
    BY Zenon
  <2>1. /\ a \in Card /\ b \in Card /\ Home[a] = p /\ Home[b] = p
        /\ card[a].play = "queued"
        /\ card[b].play = "queued" => b \in Queued(p)
    BY DEF Queued, Played, Of
  <2>2. Placed(a) /\ Placed(b)
    BY <2>1, StepPlaces
  <2>3. card'[a].order = card[a].order
    BY <2>1, <2>2, Zenon DEF Placed
  <2>4. card[a].order < card'[b].order
    BY <2>1, <2>2, Zenon DEF Placed
  <2> QED BY <2>3, <2>4
<1>2. IInv /\ Numbered /\ [Next]_vars => [Fifo]_vars
  BY <1>1
<1> QED BY <1>2, Inductive, PlacesAreNumbered, PTL DEF Spec, QueueIsFifo

=============================================================================
