------------------------------- MODULE Outbox -------------------------------
(***************************************************************************)
(* One monitor's notifications (notifications/deliver.ts and settings.ts): *)
(* the settings row, whose lock serialises planners, senders and saves,    *)
(* the outbox of deliveries with the match ids each one carries, and the   *)
(* notify jobs that plan and send.                                         *)
(*                                                                         *)
(* Moments are kept as what they are compared with: `current` holds the    *)
(* matches created since settings.enabled_since, a job's `seen` those      *)
(* created before it started, and a digest or a retry is due or is not.    *)
(***************************************************************************)
EXTENDS Integers, Sequences, FiniteSets

CONSTANTS
  Matches,      \* numbers: matches.created_at grows with them
  Workers,      \* notify jobs that may run at once: one, more after an expiry
  None,         \* null
  DigestSize,   \* how many matches one digest carries (100)
  MaxAttempts,  \* attempts of one delivery (5)
  MaxFailures,  \* webhook failures in a row (5)
  Available,    \* the channels this deployment has a transport for
  Asked,        \* the forms a person may save
  MaxRevision,  \* bound: the last settings revision
  MaxCrashes,   \* bound: worker crashes
  Faults        \* what else may happen, a subset of AllFaults

AllFaults ==
  { "crash",   \* a worker dies, or its transaction is refused, before it commits
    "answer",  \* a receiver accepts and its answer is lost
    "hide",    \* reconcile hides a match whose post is gone
    "rescore", \* the classifier rates a match again
    "late" }   \* a save takes its moment before it takes the settings row

Channels == {"email", "webhook"}
Kinds == {"match", "digest"}
Lanes == Channels \X Kinds

\* What a person may save: the channels, the webhook's mode and whether the
\* immediate email has a floor.
Forms == [email : BOOLEAN, webhook : BOOLEAN, mode : Kinds, immediate : BOOLEAN]

\* A match's score, as the floors tell it apart: below both, for the digest and
\* the webhook (min_score), for the immediate email too (immediate_score).
Scores == 0..2

\* What a reader of a match's row sees of it.
Entries == [score : Scores, hidden : BOOLEAN]

ASSUME OutboxAssumption ==
  /\ Matches \subseteq Nat /\ IsFiniteSet(Matches)
  /\ None \notin Workers \cup Entries
  /\ DigestSize \in Nat \ {0}
  /\ MaxAttempts \in Nat \ {0} /\ MaxFailures \in Nat \ {0}
  /\ Available \subseteq Channels /\ Asked \subseteq Forms
  /\ MaxRevision \in Nat \ {0} /\ MaxCrashes \in Nat
  /\ Faults \subseteq AllFaults

VARIABLES
  inbox,     \* matches: match -> what a reader of the row sees, or None
  current,   \* the matches created since the settings were saved
  settings,  \* notification_settings
  saving,    \* a save that has taken its moment and not the row, or None
  outbox,    \* notification_deliveries and notification_items: lane -> rows
  lock,      \* the worker whose transaction holds the settings row, or None
  job,       \* the notify jobs
  heard,     \* observer: what receivers accepted, a set of <<lane, id, load>>
  crashes    \* bound: crashes so far

vars == <<inbox, current, settings, saving, outbox, lock, job, heard, crashes>>

Settings == [form : Forms, revision : 1..MaxRevision, failures : 0..MaxFailures,
             digestDue : BOOLEAN]

Statuses == {"pending", "sent", "failed", "skipped"}

\* A delivery with the ids of its items.  `due`: next_attempt_at has come.
Rows == [revision : 1..MaxRevision, load : SUBSET Matches, status : Statuses,
         attempts : 0..MaxAttempts, due : BOOLEAN]

\* A notify job: the matches its pass has seen, and the delivery in hand.
NotifyJobs == [pc : {"idle", "plan", "send", "sending", "accepted", "refused"},
               seen : SUBSET Matches, lane : Lanes \cup {None}, id : Nat,
               load : SUBSET Matches]

Created == {m \in Matches : inbox[m] # None}
Shown == {m \in Created : ~inbox[m].hidden}

Enabled(channel) == IF channel = "email" THEN settings.form.email ELSE settings.form.webhook

IdleJob == [pc |-> "idle", seen |-> {}, lane |-> None, id |-> 0, load |-> {}]

Init ==
  /\ inbox = [m \in Matches |-> None]
  /\ current = {}
  /\ settings \in [form : Asked, revision : {1}, failures : {0}, digestDue : {FALSE}]
  /\ saving = None
  /\ outbox = [lane \in Lanes |-> <<>>]
  /\ lock = None
  /\ job = [w \in Workers |-> IdleJob]
  /\ heard = {}
  /\ crashes = 0

---------------------------------------------------------------------------
\* What happens around the outbox.

\* The classifier writes a match, in creation order, or rates it again.
WriteMatch(m, score) ==
  /\ inbox[m] = None => \A earlier \in Matches : earlier < m => inbox[earlier] # None
  /\ inbox[m] # None => "rescore" \in Faults /\ inbox[m].score # score
  /\ inbox' = [inbox EXCEPT ![m] =
       IF inbox[m] = None THEN [score |-> score, hidden |-> FALSE]
       ELSE [inbox[m] EXCEPT !.score = score]]
  /\ current' = IF inbox[m] = None THEN current \cup {m} ELSE current
  /\ UNCHANGED <<settings, saving, outbox, lock, job, heard, crashes>>

\* A deleted post hides its match, and nothing shows it again.
HideMatch(m) ==
  /\ "hide" \in Faults
  /\ m \in Shown
  /\ inbox' = [inbox EXCEPT ![m].hidden = TRUE]
  /\ UNCHANGED <<current, settings, saving, outbox, lock, job, heard, crashes>>

\* next_digest_at, or a delivery's next_attempt_at, has come.
DigestFallsDue ==
  /\ ~settings.digestDue
  /\ settings' = [settings EXCEPT !.digestDue = TRUE]
  /\ UNCHANGED <<inbox, current, saving, outbox, lock, job, heard, crashes>>

RetryFallsDue(lane, id) ==
  /\ outbox[lane][id].status = "pending" /\ ~outbox[lane][id].due
  /\ outbox' = [outbox EXCEPT ![lane][id].due = TRUE]
  /\ UNCHANGED <<inbox, current, settings, saving, lock, job, heard, crashes>>

---------------------------------------------------------------------------
\* saveNotificationSettings: one upsert, which waits for the settings row.

\* A slip of Saved: it does not wait.
SavedAtOnce(form, new) ==
  /\ settings.revision < MaxRevision
  /\ settings' = [form |-> form, revision |-> settings.revision + 1, failures |-> 0,
                  digestDue |-> FALSE]
  /\ current' = new

Saved(form, new) ==
  /\ lock = None
  /\ settings.revision < MaxRevision
  /\ settings' = [form |-> form, revision |-> settings.revision + 1, failures |-> 0,
                  digestDue |-> FALSE]
  /\ current' = new

\* A slip of Save: the period is not started again.
SaveInPeriod(form) ==
  /\ "late" \notin Faults
  /\ Saved(form, current)
  /\ UNCHANGED <<inbox, saving, outbox, lock, job, heard, crashes>>

Save(form) ==
  /\ "late" \notin Faults
  /\ Saved(form, {})
  /\ UNCHANGED <<inbox, saving, outbox, lock, job, heard, crashes>>

\* `now` is taken when the request is handled, the row when it is free.
TakeMoment(form) ==
  /\ "late" \in Faults
  /\ saving = None
  /\ saving' = [form |-> form, before |-> Created]
  /\ UNCHANGED <<inbox, current, settings, outbox, lock, job, heard, crashes>>

SaveLate ==
  /\ saving # None
  /\ Saved(saving.form, Created \ saving.before)
  /\ saving' = None
  /\ UNCHANGED <<inbox, outbox, lock, job, heard, crashes>>

---------------------------------------------------------------------------
\* processNotifications: plan the outbox, then send what is due.

StartPass(w) ==
  /\ job[w].pc = "idle"
  /\ job' = [job EXCEPT ![w].pc = "plan", ![w].seen = Created]
  /\ UNCHANGED <<inbox, current, settings, saving, outbox, lock, heard, crashes>>

\* The lanes the settings ask for; a digest only when it is due.
PlannedLanes ==
  {lane \in Lanes :
     /\ Enabled(lane[1])
     /\ lane[1] = "webhook" => lane[2] = settings.form.mode
     /\ lane = <<"email", "match">> => settings.form.immediate
     /\ lane[2] = "digest" => settings.digestDue}

Floor(lane) == IF lane = <<"email", "match">> THEN 2 ELSE 1

\* The matches a delivery of the lane already carries.
Carried(lane) == UNION {outbox[lane][id].load : id \in DOMAIN outbox[lane]}

\* A slip of Wanted: matches that went out in another kind are left out, and
\* those of this kind are not.
WantedTwice(lane, seen) ==
  {m \in seen \cap current :
     /\ ~inbox[m].hidden /\ inbox[m].score >= Floor(lane)
     /\ \A other \in Lanes \ {lane} : other[1] = lane[1] => m \notin Carried(other)}

\* The period's matches, shown, over the floor, and in no delivery of the lane.
Wanted(lane, seen) ==
  {m \in seen \cap current :
     ~inbox[m].hidden /\ inbox[m].score >= Floor(lane) /\ m \notin Carried(lane)}

\* One message carries one match, or up to DigestSize of them in order.
Size(kind) == IF kind = "match" THEN 1 ELSE DigestSize

\* The rows in their order, `size` at a time.
Chunks(rows, size) ==
  LET place(m) == Cardinality({x \in rows : x < m})
  IN  [k \in 1..((Cardinality(rows) + size - 1) \div size) |->
         {m \in rows : place(m) \div size = k - 1}]

NewRow(load) == [revision |-> settings.revision, load |-> load, status |-> "pending",
                 attempts |-> 0, due |-> TRUE]

\* The planning transaction, under the settings row's lock.
Plan(w) ==
  /\ job[w].pc = "plan"
  /\ lock = None
  /\ outbox' = [lane \in Lanes |->
       IF lane \in PlannedLanes
       THEN LET chunks == Chunks(Wanted(lane, job[w].seen), Size(lane[2]))
            IN  outbox[lane] \o [k \in DOMAIN chunks |-> NewRow(chunks[k])]
       ELSE outbox[lane]]
  /\ settings' = [settings EXCEPT !.digestDue = FALSE]
  /\ job' = [job EXCEPT ![w].pc = "send", ![w].seen = {}]
  /\ UNCHANGED <<inbox, current, saving, lock, heard, crashes>>

Pending(lane, id) == outbox[lane][id].status = "pending"

\* A slip of Ready: a failed attempt is not tried again.
ReadyOnce(lane, id) ==
  /\ lane[1] \in Available /\ Pending(lane, id) /\ outbox[lane][id].due
  /\ outbox[lane][id].attempts = 0

\* What the sending loop picks.
Ready(lane, id) ==
  lane[1] \in Available /\ Pending(lane, id) /\ outbox[lane][id].due

\* A delivery of an older revision, or of a channel that is off, is cancelled.
Cancelled(lane, id) ==
  outbox[lane][id].revision # settings.revision \/ ~Enabled(lane[1])

\* What the attempt carries: the items, less what is hidden by now.
Visible(lane, id) == outbox[lane][id].load \cap Shown

\* One turn of the sending loop: a cancelled delivery, or one whose matches are
\* all hidden, is skipped,
SkipDelivery(w, lane, id) ==
  /\ job[w].pc = "send" /\ lock = None
  /\ Ready(lane, id)
  /\ Cancelled(lane, id) \/ Visible(lane, id) = {}
  /\ outbox' = [outbox EXCEPT ![lane][id].status = "skipped"]
  /\ UNCHANGED <<inbox, current, settings, saving, lock, job, heard, crashes>>

\* and any other is sent inside the transaction, the settings row held.
TakeDelivery(w, lane, id) ==
  /\ job[w].pc = "send" /\ lock = None
  /\ Ready(lane, id)
  /\ ~Cancelled(lane, id) /\ Visible(lane, id) # {}
  /\ lock' = w
  /\ job' = [job EXCEPT ![w] = [job[w] EXCEPT !.pc = "sending", !.lane = lane, !.id = id,
                                              !.load = Visible(lane, id)]]
  /\ UNCHANGED <<inbox, current, settings, saving, outbox, heard, crashes>>

\* The receiver, or the mail server, takes the message.
Heard(w) == heard \cup {<<job[w].lane, job[w].id, job[w].load>>}

Accept(w) ==
  /\ job[w].pc = "sending"
  /\ heard' = Heard(w)
  /\ job' = [job EXCEPT ![w].pc = "accepted"]
  /\ UNCHANGED <<inbox, current, settings, saving, outbox, lock, crashes>>

\* The send throws; the message may have arrived all the same.
Refuse(w) ==
  /\ job[w].pc = "sending"
  /\ heard' \in {heard} \cup (IF "answer" \in Faults THEN {Heard(w)} ELSE {})
  /\ job' = [job EXCEPT ![w].pc = "refused"]
  /\ UNCHANGED <<inbox, current, settings, saving, outbox, lock, crashes>>

\* The transaction ends: the row is released and the loop goes on.
Release(w) ==
  /\ lock' = None
  /\ job' = [job EXCEPT ![w] = [IdleJob EXCEPT !.pc = "send"]]

RecordSent(w) ==
  /\ job[w].pc = "accepted"
  /\ LET row == outbox[job[w].lane][job[w].id] IN
     outbox' = [outbox EXCEPT ![job[w].lane][job[w].id] =
                  [row EXCEPT !.status = "sent", !.attempts = row.attempts + 1]]
  /\ settings' = IF job[w].lane[1] = "webhook" THEN [settings EXCEPT !.failures = 0] ELSE settings
  /\ Release(w)
  /\ UNCHANGED <<inbox, current, saving, heard, crashes>>

\* A slip of GivesUp: only failures in a row turn the webhook off.
GivesUpInARow(failures, attempts) == failures >= MaxFailures

\* Failures in a row, or the attempts of one delivery, turn the webhook off.
GivesUp(failures, attempts) == failures >= MaxFailures \/ attempts >= MaxAttempts

\* A slip of Outcome: one attempt too many.
OutcomeLate(attempts) == IF attempts > MaxAttempts THEN "failed" ELSE "pending"

Outcome(attempts) == IF attempts >= MaxAttempts THEN "failed" ELSE "pending"

RecordFailure(w) ==
  /\ job[w].pc = "refused"
  /\ LET lane == job[w].lane
         row == outbox[lane][job[w].id]
         attempts == row.attempts + 1
         failures == settings.failures + 1
     IN  /\ outbox' = [outbox EXCEPT ![lane][job[w].id] =
               [row EXCEPT !.attempts = attempts, !.due = FALSE, !.status = Outcome(attempts)]]
         /\ settings' =
               IF lane[1] = "webhook"
               THEN [settings EXCEPT !.failures = failures,
                                     !.form.webhook = ~GivesUp(failures, attempts)]
               ELSE settings
  /\ Release(w)
  /\ UNCHANGED <<inbox, current, saving, heard, crashes>>

\* No delivery is ready: the pass is over.
EndPass(w) ==
  /\ job[w].pc = "send" /\ lock = None
  /\ \A lane \in Lanes : \A id \in DOMAIN outbox[lane] : ~Ready(lane, id)
  /\ job' = [job EXCEPT ![w] = IdleJob]
  /\ UNCHANGED <<inbox, current, settings, saving, outbox, lock, heard, crashes>>

\* The process dies: the transaction it was in rolls back.
Crash(w) ==
  /\ "crash" \in Faults /\ crashes < MaxCrashes
  /\ job[w].pc # "idle"
  /\ crashes' = crashes + 1
  /\ lock' = IF lock = w THEN None ELSE lock
  /\ job' = [job EXCEPT ![w] = IdleJob]
  /\ UNCHANGED <<inbox, current, settings, saving, outbox, heard>>

---------------------------------------------------------------------------
Notify(w) ==
  \/ StartPass(w) \/ Plan(w) \/ EndPass(w)
  \/ \E lane \in Lanes : \E id \in DOMAIN outbox[lane] :
       SkipDelivery(w, lane, id) \/ TakeDelivery(w, lane, id)
  \/ Accept(w) \/ Refuse(w) \/ RecordSent(w) \/ RecordFailure(w)

TimePasses ==
  \/ DigestFallsDue
  \/ \E lane \in Lanes : \E id \in DOMAIN outbox[lane] : RetryFallsDue(lane, id)

Next ==
  \/ \E w \in Workers : Notify(w) \/ Crash(w)
  \/ TimePasses
  \/ \E m \in Matches : HideMatch(m) \/ \E score \in Scores : WriteMatch(m, score)
  \/ \E form \in Asked : Save(form) \/ TakeMoment(form)
  \/ SaveLate

Spec == Init /\ [][Next]_vars

\* The sweep queues a job for every monitor each minute, a job runs to its end,
\* and what is due later falls due.
Fairness ==
  /\ \A w \in Workers : WF_vars(Notify(w))
  /\ WF_vars(DigestFallsDue)
  /\ \A lane \in Lanes, id \in 1..(Cardinality(Matches) * MaxRevision) :
       WF_vars(id \in DOMAIN outbox[lane] /\ RetryFallsDue(lane, id))

LiveSpec == Spec /\ Fairness

---------------------------------------------------------------------------
\* Properties.

TypeOK ==
  /\ inbox \in [Matches -> Entries \cup {None}]
  /\ current \in SUBSET Matches
  /\ settings \in Settings
  /\ saving \in [form : Forms, before : SUBSET Matches] \cup {None}
  /\ outbox \in [Lanes -> Seq(Rows)]
  /\ lock \in Workers \cup {None}
  /\ job \in [Workers -> NotifyJobs]
  /\ heard \in SUBSET (Lanes \X Nat \X SUBSET Matches)
  /\ crashes \in 0..MaxCrashes

\* The Receiver's promise, kept by deliver.ts under crashes, lost answers and
\* two notify jobs at once: each lane tells of a match under one delivery id.
Ids == 1..(Cardinality(Matches) * MaxRevision)

\* The matches told in a lane under an id.
HeardOf(lane, id) == UNION {e[3] : e \in {x \in heard : x[1] = lane /\ x[2] = id}}

Told == INSTANCE Receiver WITH
  told <- [lane \in Lanes |-> [id \in Ids |-> HeardOf(lane, id)]]

ToldOnce == Told!Spec

\* What leaves belongs to the settings in force: their revision, their channels
\* and their period, so a changed recipient never hears the backlog of another.
OldSettingsAreSilent ==
  \A w \in Workers : job[w].pc \in {"sending", "accepted"} =>
    /\ ~Cancelled(job[w].lane, job[w].id)
    /\ job[w].load \subseteq current

\* A match of the period in force is never lost to a cancelled delivery.
CancelledIsOld ==
  \A lane \in Lanes : \A id \in DOMAIN outbox[lane] :
    outbox[lane][id].revision # settings.revision => outbox[lane][id].load \cap current = {}

\* A webhook that is on has neither used up the failures in a row nor the
\* attempts of one of its deliveries.
FailingWebhookIsOff ==
  settings.form.webhook =>
    /\ settings.failures < MaxFailures
    /\ \A kind \in Kinds : \A id \in DOMAIN outbox[<<"webhook", kind>>] :
         LET row == outbox[<<"webhook", kind>>][id] IN
         row.revision = settings.revision => row.status # "failed"

\* A match a lane owes: the settings ask for the lane, and the match is of the
\* period, shown and over the lane's floor.
Owed(lane, m) ==
  /\ lane[1] \in Available /\ Enabled(lane[1])
  /\ lane[1] = "webhook" => lane[2] = settings.form.mode
  /\ lane = <<"email", "match">> => settings.form.immediate
  /\ m \in current \cap Shown /\ inbox[m].score >= Floor(lane)

\* The match reached its last state: its delivery was sent, or given up.
Settled(lane, m) ==
  \E id \in DOMAIN outbox[lane] :
    m \in outbox[lane][id].load /\ outbox[lane][id].status \in {"sent", "failed"}

\* No match is lost: what a lane owes is sent, or fails for good, or is no longer
\* owed, whatever jobs die or are dropped.
OwedIsSettled ==
  \A lane \in Lanes, m \in Matches : Owed(lane, m) ~> Settled(lane, m) \/ ~Owed(lane, m)
=============================================================================
