-------------------------------- MODULE Desk --------------------------------
(***************************************************************************)
(* The listing form of a seller: the autosaving DraftController            *)
(* (components/seller/draft-controller.ts), the form around it             *)
(* (CreateListingForm), the requests they send, and the lifecycle buttons  *)
(* of the same listing, beside the form or elsewhere                       *)
(* (ListingLifecycleActions).  A request is handled when it is answered:   *)
(* nothing on these pages reads the row in between.                        *)
(***************************************************************************)
EXTENDS ListingStatus, Integers

CONSTANTS
    Wordings,       \* what the fields may hold
    MaxQueue,       \* saves that wait
    MaxDeskFaults

NoText == "blank"
Placeholder == "placeholder"    \* DEFAULT_DRAFT_TITLE
Never == "never"

ASSUME DeskAssumption == Never \notin Wordings /\ MaxQueue \in Nat /\ MaxDeskFaults \in Nat

VARIABLES
    row,        \* the listing or NoRow: its status and what it holds
    drafts,     \* how many rows the form session created
    form,       \* the fields, the status and the timer of the form
    ctl,        \* the DraftController
    flow,       \* [{"publish", "exit"} -> the handler of the button]
    panel,      \* the lifecycle buttons
    misfires,   \* faults so far
    unheard,    \* history: an edit fell between the first create and its answer, or an
                \* update took effect that was not reported as done
    publishedAs \* history: what the row held when the form was told it is published

deskVars == <<row, drafts, form, ctl, flow, panel, misfires, unheard, publishedAs>>

Contents == Wordings \union {NoText}

NoDraft == [status |-> "none", text |-> Never]

Resting == [pc |-> "none", due |-> 0]

DeskTypeOK ==
    /\ row \in [status: ListingStatuses \union {"none"}, text: Contents \union {Placeholder, Never}]
    /\ drafts \in 0..2
    /\ form \in [text: Contents, status: {"draft", "paused", "published"}, timer: BOOLEAN]
    /\ ctl \in [ state: {"idle", "unsaved", "saving", "saved", "error"}, id: BOOLEAN,
                 boot: {"none", "sent", "rejected"}, payload: Contents,
                 lastSaved: Contents \union {Never}, waiting: 0..MaxQueue,
                 task: {"none", "ensure", "update"}, snapshot: Contents ]
    /\ flow \in [{"publish", "exit"} -> [pc: {"none", "flush", "asked", "left"}, due: 0..(MaxQueue + 1)]]
    /\ panel \in [status: ListingStatuses \union {"none"}, pc: {"none", "confirm", "asked"},
                  action: ListingActions \union {"none"}]
    /\ misfires \in 0..MaxDeskFaults /\ unheard \in BOOLEAN
    /\ publishedAs \in Contents \union {Placeholder, Never}

NoPanel == [status |-> "none", pc |-> "none", action |-> "none"]

\* The new page, or the edit page of a draft or a paused listing.
DeskInit ==
    /\ \/ row = NoDraft
       \/ \E s \in {"draft", "paused"}, w \in Wordings : row = [status |-> s, text |-> w]
    /\ form = [ text |-> IF row = NoDraft THEN NoText ELSE row.text, timer |-> FALSE,
                status |-> IF row = NoDraft THEN "draft" ELSE row.status ]
    /\ ctl = [ state |-> "idle", id |-> row # NoDraft, boot |-> "none", payload |-> NoText,
               lastSaved |-> Never, waiting |-> 0, task |-> "none", snapshot |-> NoText ]
    /\ drafts = 0
    /\ flow = [f \in {"publish", "exit"} |-> Resting]
    /\ panel = NoPanel
    /\ misfires = 0 /\ unheard = FALSE /\ publishedAs = Never

DeskFault == misfires < MaxDeskFaults /\ misfires' = misfires + 1

\* publishing disables the fields and both buttons.
Publishing == flow["publish"].pc # "none"

FormOpen == form.status # "published" /\ flow["exit"].pc # "left"

-----------------------------------------------------------------------------
(* The form *)

MayEdit == FormOpen /\ ~Publishing

\* set, scheduleSave and markUnsaved
Edit(text) ==
    /\ MayEdit /\ text # form.text
    /\ form' = [form EXCEPT !.text = text, !.timer = TRUE]
    /\ ctl' = [ctl EXCEPT !.state = "unsaved"]
    /\ unheard' = (unheard \/ ctl.boot = "sent" \/ (~ctl.id /\ drafts # 0))
    /\ UNCHANGED <<row, drafts, flow, panel, misfires, publishedAs>>

\* save: the queue, and what the continuation of a flush waits for.
Enqueued == [ctl EXCEPT !.waiting = @ + 1]

Ahead == ctl.waiting + IF ctl.task = "none" THEN 0 ELSE 1

TimerFires ==
    /\ form.timer /\ ctl.waiting < MaxQueue
    /\ form' = [form EXCEPT !.timer = FALSE]
    /\ ctl' = Enqueued
    /\ UNCHANGED <<row, drafts, flow, panel, misfires, unheard, publishedAs>>

Retry ==
    /\ FormOpen /\ ctl.state = "error" /\ ctl.waiting < MaxQueue
    /\ ctl' = Enqueued
    /\ UNCHANGED <<row, drafts, form, flow, panel, misfires, unheard, publishedAs>>

\* The next step of a handler whose flush is over.
NextStep == [publish |-> "asked", exit |-> "left"]

\* Mutant: the button does not wait for the saves.
ClickWithoutFlush(f) ==
    /\ MayEdit /\ flow[f].pc = "none" /\ ctl.waiting < MaxQueue
    /\ form' = [form EXCEPT !.timer = FALSE]
    /\ ctl' = Enqueued
    /\ flow' = [flow EXCEPT ![f] = [pc |-> IF ctl.id /\ ctl.state # "error" THEN NextStep[f] ELSE "none", due |-> 0]]
    /\ UNCHANGED <<row, drafts, panel, misfires, unheard, publishedAs>>

\* onPublish or onSaveAndExit, up to the end of its flush.
Click(f) ==
    /\ MayEdit /\ flow[f].pc = "none" /\ ctl.waiting < MaxQueue
    /\ form' = [form EXCEPT !.timer = FALSE]
    /\ ctl' = Enqueued
    /\ flow' = [flow EXCEPT ![f] = [pc |-> "flush", due |-> Ahead + 1]]
    /\ UNCHANGED <<row, drafts, panel, misfires, unheard, publishedAs>>

PublishAction == IF form.status = "paused" THEN "republish" ELSE "publish"

\* transitionListingAction
Published ==
    /\ flow["publish"].pc = "asked"
    /\ CanApply(row.status, PublishAction)
    /\ row' = [row EXCEPT !.status = "published"]
    /\ flow' = [flow EXCEPT !["publish"] = Resting]
    /\ form' = [form EXCEPT !.status = "published"]
    /\ publishedAs' = row.text
    /\ UNCHANGED <<drafts, ctl, panel, misfires, unheard>>

\* Incomplete, without a subscription, moved meanwhile; or the answer is false or lost.
PublishFails ==
    /\ flow["publish"].pc = "asked"
    /\ flow' = [flow EXCEPT !["publish"] = Resting]
    /\ \/ UNCHANGED <<row, misfires>>
       \/ DeskFault /\ CanApply(row.status, PublishAction) /\ row' = [row EXCEPT !.status = "published"]
    /\ UNCHANGED <<drafts, form, ctl, panel, unheard, publishedAs>>

-----------------------------------------------------------------------------
(* The controller *)

\* The save has failed, or there is no draft: an error is shown.
Unsaved(c) == ~c.id \/ c.state = "error"

\* One save is over; a flush that waited for it goes on before the next save does, or
\* ends with the rejection.  The page that is left takes its timer with it.
Completes(c, rejected) ==
    /\ ctl' = c
    /\ flow' = [f \in DOMAIN flow |->
          IF flow[f].pc # "flush" THEN flow[f]
          ELSE IF flow[f].due > 1 THEN [flow[f] EXCEPT !.due = @ - 1]
          ELSE IF rejected \/ Unsaved(c) THEN Resting ELSE [pc |-> NextStep[f], due |-> 0]]
    /\ form' = [form EXCEPT !.timer = @ /\ flow'["exit"].pc # "left"]

Over(c, state) == [c EXCEPT !.task = "none", !.state = state]

\* saveOnce with a listing: nothing to do, or an update.
Saves(c) ==
    IF form.text = c.lastSaved
    THEN Completes(Over(c, "saved"), FALSE)
    ELSE /\ ctl' = [c EXCEPT !.task = "update", !.state = "saving", !.snapshot = form.text]
         /\ UNCHANGED <<flow, form>>

\* ensureDraft: the request is sent once.
Bootstrapped(c) ==
    IF c.id \/ c.boot # "none" THEN c ELSE [c EXCEPT !.boot = "sent", !.payload = form.text]

\* The next saveOnce of the queue.
SaveStarts ==
    /\ ctl.task = "none" /\ ctl.waiting > 0
    /\ LET c == [ctl EXCEPT !.waiting = @ - 1]
       IN  CASE c.id -> Saves(c)
             [] ~c.id /\ c.boot = "rejected" -> Completes(c, TRUE)
             [] OTHER -> ctl' = [Bootstrapped(c) EXCEPT !.task = "ensure"] /\ UNCHANGED <<flow, form>>
    /\ UNCHANGED <<row, drafts, panel, misfires, unheard, publishedAs>>

\* A photo needs a listing to be added to.
PickPhoto ==
    /\ FormOpen
    /\ ctl' = Bootstrapped(ctl)
    /\ UNCHANGED <<row, drafts, form, flow, panel, misfires, unheard, publishedAs>>

\* Mutant: a create without the key.
CreateWithoutKey ==
    /\ row' = [status |-> "draft", text |-> IF ctl.payload = NoText THEN Placeholder ELSE ctl.payload]
    /\ drafts' = drafts + 1

\* createListingAction: idempotent by the key of the form session.
Create ==
    IF drafts # 0 THEN UNCHANGED <<row, drafts>>
    ELSE /\ row' = [status |-> "draft", text |-> IF ctl.payload = NoText THEN Placeholder ELSE ctl.payload]
         /\ drafts' = 1

\* Every caller of ensureDraft gets the id; the payload of now counts as saved.
Bootstraps ==
    /\ ctl.boot = "sent"
    /\ Create
    /\ LET c == [ctl EXCEPT !.boot = "none", !.id = TRUE, !.lastSaved = form.text]
       IN  IF c.task = "ensure" THEN Saves(c) ELSE ctl' = c /\ UNCHANGED <<flow, form>>
    /\ UNCHANGED <<panel, misfires, unheard, publishedAs>>

\* Nothing was created, or it was and is reported as a failure.
CreateReached == UNCHANGED <<row, drafts, misfires>> \/ (DeskFault /\ Create)

\* Refused: a later save asks again.
BootstrapRefused ==
    /\ ctl.boot = "sent"
    /\ CreateReached
    /\ LET c == [ctl EXCEPT !.boot = "none"]
       IN  IF c.task = "ensure" THEN Completes(Over(c, "error"), FALSE) ELSE ctl' = c /\ UNCHANGED <<flow, form>>
    /\ unheard' = (unheard /\ drafts' # 0)
    /\ UNCHANGED <<panel, publishedAs>>

\* No answer: the rejected promise is kept.
BootstrapLost ==
    /\ ctl.boot = "sent"
    /\ CreateReached
    /\ LET c == [ctl EXCEPT !.boot = "rejected"]
       IN  IF c.task = "ensure" THEN Completes([c EXCEPT !.task = "none"], TRUE) ELSE ctl' = c /\ UNCHANGED <<flow, form>>
    /\ UNCHANGED <<panel, unheard, publishedAs>>

\* updateListingAction: a field that is blank is not sent, and the row keeps it.
Update == row' = IF ctl.snapshot = NoText THEN row ELSE [row EXCEPT !.text = ctl.snapshot]

\* Mutant: what counts as saved is read after the answer.
SavedNow == [ctl EXCEPT !.lastSaved = form.text]

\* What was sent counts as saved.
SavedAsSent == [ctl EXCEPT !.lastSaved = ctl.snapshot]

UpdateAnswered ==
    /\ ctl.task = "update"
    /\ IsEditable(row.status)
    /\ Update
    /\ Completes(Over(SavedAsSent, "saved"), FALSE)
    /\ unheard' = FALSE
    /\ UNCHANGED <<drafts, panel, misfires, publishedAs>>

UpdateReached == UNCHANGED <<row, misfires>> \/ (DeskFault /\ IsEditable(row.status) /\ Update)

\* Not editable any more, over the limit, or the database failed.
UpdateRefused ==
    /\ ctl.task = "update"
    /\ UpdateReached
    /\ Completes(Over(ctl, "error"), FALSE)
    /\ unheard' = (unheard \/ misfires' # misfires)
    /\ UNCHANGED <<drafts, panel, publishedAs>>

\* No answer: the label stays at "Saving", the queue goes on.
UpdateLost ==
    /\ ctl.task = "update"
    /\ UpdateReached
    /\ Completes([ctl EXCEPT !.task = "none"], TRUE)
    /\ unheard' = (unheard \/ misfires' # misfires)
    /\ UNCHANGED <<drafts, panel, publishedAs>>

-----------------------------------------------------------------------------
(* ListingLifecycleActions *)

\* ACTIONS_BY_STATUS
Offered(status) ==
    CASE status = "published" -> {"markSold", "pause", "archive"}
      [] status = "paused"    -> {"markSold", "archive"}
      [] status = "sold"      -> {"markAvailable", "archive"}
      [] status = "archived"  -> {"relist"}
      [] OTHER                -> {}

NeedsConfirmation(action) == action \notin {"pause", "relist"}

\* The page is opened or refreshed; a draft has no buttons.
PanelRenders ==
    /\ panel.pc = "none" /\ row.status \notin {"none", "draft", panel.status}
    /\ panel' = [NoPanel EXCEPT !.status = row.status]
    /\ UNCHANGED <<row, drafts, form, ctl, flow, misfires, unheard, publishedAs>>

PanelClick(action) ==
    /\ panel.pc = "none" /\ action \in Offered(panel.status)
    /\ panel' = [panel EXCEPT !.action = action, !.pc = IF NeedsConfirmation(action) THEN "confirm" ELSE "asked"]
    /\ UNCHANGED <<row, drafts, form, ctl, flow, misfires, unheard, publishedAs>>

\* An open dialog does not close while the request is pending.
PanelDecides ==
    /\ panel.pc = "confirm"
    /\ panel' \in {[panel EXCEPT !.pc = "asked"], [NoPanel EXCEPT !.status = panel.status]}
    /\ UNCHANGED <<row, drafts, form, ctl, flow, misfires, unheard, publishedAs>>

\* A success refreshes the page.
PanelAnswered ==
    /\ panel.pc = "asked" /\ CanApply(row.status, panel.action)
    /\ row' = [row EXCEPT !.status = NextStatus(panel.action)]
    /\ panel' = [NoPanel EXCEPT !.status = IF row'.status = "draft" THEN "none" ELSE row'.status]
    /\ UNCHANGED <<drafts, form, ctl, flow, misfires, unheard, publishedAs>>

\* The dialog stays open with the error behind it.
PanelFails ==
    /\ panel.pc = "asked"
    /\ panel' = IF NeedsConfirmation(panel.action) THEN [panel EXCEPT !.pc = "confirm"]
                ELSE [NoPanel EXCEPT !.status = panel.status]
    /\ \/ UNCHANGED <<row, misfires>>
       \/ DeskFault /\ CanApply(row.status, panel.action) /\ row' = [row EXCEPT !.status = NextStatus(panel.action)]
    /\ UNCHANGED <<drafts, form, ctl, flow, unheard, publishedAs>>

FormStep ==
    \/ \E text \in Contents : Edit(text)
    \/ TimerFires \/ Retry \/ PickPhoto
    \/ \E f \in {"publish", "exit"} : Click(f)
    \/ Published \/ PublishFails
    \/ SaveStarts
    \/ Bootstraps \/ BootstrapRefused \/ BootstrapLost
    \/ UpdateAnswered \/ UpdateRefused \/ UpdateLost

PanelStep ==
    \/ PanelRenders \/ PanelDecides \/ PanelAnswered \/ PanelFails
    \/ \E action \in ListingActions : PanelClick(action)

DeskStep == FormStep \/ PanelStep

DeskSpec == DeskInit /\ [][DeskStep]_deskVars

-----------------------------------------------------------------------------
(* Properties *)

\* However often a create is retried after a failure, or asked for by an edit and by a
\* photo at once, a form session makes one draft.
OneDraftPerForm == drafts <= 1

\* The form is shown, nothing is scheduled and nothing on its way.
DeskRests == flow["exit"].pc # "left" /\ ~form.timer /\ ctl.waiting = 0 /\ ctl.task = "none" /\ ctl.boot # "sent"

Holds(text) == row.text = text \/ text = NoText

\* "Saved" is true when the form is at rest: edits made during updates are sent by later
\* ones, whatever failed in between; except after an edit that fell between a create
\* and its answer, and after an update that took effect and was reported as failed.
SavedUnlessUnheard == DeskRests /\ ctl.state = "saved" /\ ~unheard => Holds(form.text)

\* What the form was told is published is what it showed: publishing waits for every
\* save and gives up when the last one failed.
PublishedAsShown ==
    form.status = "published" /\ ~unheard => publishedAs = form.text \/ form.text = NoText

\* As documented: a save saves the current payload.
SavedMeansStored == DeskRests /\ ctl.state = "saved" => Holds(form.text)
=============================================================================
