----------------------------- MODULE DeskProofs -----------------------------
(***************************************************************************)
(* Theorems of Desk, for any texts, any number of waiting saves and any    *)
(* number of faults.                                                       *)
(***************************************************************************)
EXTENDS Desk, TLAPS

\* The create is asked for while there is no listing, and before anything else.
Ensuring ==
    /\ ctl.task = "ensure" => ctl.boot = "sent"
    /\ ctl.boot # "none" => ~ctl.id
    /\ ctl.task = "update" \/ ctl.state = "saved" => ctl.id
    /\ ctl.lastSaved # Never => ctl.id

\* What counts as saved is in the row.
Kept == ~unheard =>
    /\ ctl.lastSaved # Never => Holds(ctl.lastSaved)
    /\ ctl.boot = "sent" => ctl.payload = form.text
    /\ ~ctl.id /\ drafts # 0 => Holds(form.text)

\* A save will come, or the page is left.
Scheduled == form.timer \/ ctl.waiting > 0 \/ flow["exit"].pc = "left"

\* What was edited since an update was sent will be sent.
Resent == ctl.task = "update" => ctl.snapshot = form.text \/ Scheduled

Honest == ctl.state = "saved" /\ ~unheard => Holds(form.text) \/ Scheduled

\* What the button shows is what counts as saved.
Settled == ctl.id /\ ctl.lastSaved = form.text /\ ctl.task # "update"

\* The last save a publication waits for sends what the form shows.
Flushed ==
    /\ flow["publish"].pc = "flush" /\ flow["publish"].due <= 1 /\ ctl.task = "update" => ctl.snapshot = form.text
    /\ flow["publish"].pc \in {"asked", "left"} \/ form.status = "published" => Settled
    /\ form.status = "published" /\ ~unheard => publishedAs = form.text \/ form.text = NoText

-----------------------------------------------------------------------------
(* Types *)

DraftRow == [status: ListingStatuses \union {"none"}, text: Contents \union {Placeholder, Never}]

Form == [text: Contents, status: {"draft", "paused", "published"}, timer: BOOLEAN]

Ctl == [ state: {"idle", "unsaved", "saving", "saved", "error"}, id: BOOLEAN,
         boot: {"none", "sent", "rejected"}, payload: Contents,
         lastSaved: Contents \union {Never}, waiting: 0..MaxQueue,
         task: {"none", "ensure", "update"}, snapshot: Contents ]

Handler == [pc: {"none", "flush", "asked", "left"}, due: 0..(MaxQueue + 1)]

Panel == [status: ListingStatuses \union {"none"}, pc: {"none", "confirm", "asked"},
          action: ListingActions \union {"none"}]

FormTyped == form \in Form /\ ctl \in Ctl /\ flow \in [{"publish", "exit"} -> Handler]

RestTyped ==
    /\ row \in DraftRow /\ drafts \in 0..1
    /\ panel \in Panel /\ (panel.pc # "none" => panel.action \in ListingActions)
    /\ misfires \in 0..MaxDeskFaults /\ unheard \in BOOLEAN
    /\ publishedAs \in Contents \union {Placeholder, Never}

SaveInv == Ensuring /\ Kept /\ Resent /\ Honest /\ Flushed

Inv == FormTyped /\ RestTyped /\ SaveInv

\* The parts make the type invariant and the bound on the drafts.
LEMMA TypedParts == FormTyped /\ RestTyped => DeskTypeOK /\ OneDraftPerForm
  BY DEF FormTyped, RestTyped, DeskTypeOK, OneDraftPerForm, Form, Ctl, Handler, DraftRow, Panel

\* No text is the mark of nothing saved.
LEMMA TextIsText == \A w \in Contents : w # Never
  BY DeskAssumption DEF Contents, NoText, Never

\* The pages begin with nothing on its way.
LEMMA InitInv == DeskInit => Inv
<1> SUFFICES ASSUME DeskInit PROVE Inv
  OBVIOUS
<1>1. row \in DraftRow
  BY DEF DeskInit, DraftRow, NoDraft, Contents, ListingStatuses
<1>2. FormTyped
  BY <1>1, DeskAssumption
     DEF DeskInit, FormTyped, Form, Ctl, Handler, DraftRow, NoDraft, Contents, Resting
<1>3. RestTyped
  <2>1. panel \in Panel /\ panel.pc = "none"
    BY DEF DeskInit, Panel, NoPanel
  <2>2. drafts \in 0..1 /\ misfires \in 0..MaxDeskFaults
    BY DeskAssumption DEF DeskInit
  <2>3. unheard \in BOOLEAN /\ publishedAs = Never
    BY DEF DeskInit
  <2> QED
    BY <1>1, <2>1, <2>2, <2>3 DEF RestTyped
<1>4. SaveInv
  BY DEF DeskInit, SaveInv, Ensuring, Kept, Resent, Honest, Flushed, Resting
<1> QED
  BY <1>2, <1>3, <1>4 DEF Inv

-----------------------------------------------------------------------------
(* A save is over *)

GoingPublic == flow["publish"].pc \in {"asked", "left"} \/ form.status = "published"

\* What the controller may look like after a save.
SoundCtl(c) ==
    /\ c \in Ctl /\ c.task = "none"
    /\ c.boot # "none" => ~c.id
    /\ c.state = "saved" \/ c.lastSaved # Never => c.id
    /\ ~unheard' =>
         /\ c.lastSaved # Never => row'.text = c.lastSaved \/ c.lastSaved = NoText
         /\ c.boot = "sent" => c.payload = form.text
         /\ ~c.id /\ drafts' # 0 => row'.text = form.text \/ form.text = NoText
         /\ c.state = "saved" => \/ row'.text = form.text \/ form.text = NoText
                                 \/ form.timer \/ c.waiting > 0 \/ flow["exit"].pc = "left"
    /\ GoingPublic => c.id /\ c.lastSaved = form.text
    /\ form.status = "published" => unheard' = unheard

\* The handlers go on, or end.
LEMMA CompletesFlow ==
  ASSUME FormTyped, NEW c \in Ctl, NEW rejected \in BOOLEAN, Completes(c, rejected)
  PROVE  /\ FormTyped' /\ ctl' = c
         /\ form'.text = form.text /\ form'.status = form.status
         /\ flow["exit"].pc = "left" => flow'["exit"].pc = "left"
         /\ form.timer => form'.timer \/ flow'["exit"].pc = "left"
         /\ flow'["publish"].pc = "flush" => flow["publish"].pc = "flush"
         /\ flow'["publish"].pc \in {"asked", "left"} =>
              \/ flow["publish"].pc \in {"asked", "left"}
              \/ flow["publish"].pc = "flush" /\ flow["publish"].due <= 1 /\ ~rejected /\ ~Unsaved(c)
<1>1. \A f \in {"publish", "exit"} :
        flow'[f] = IF flow[f].pc # "flush" THEN flow[f]
                   ELSE IF flow[f].due > 1 THEN [flow[f] EXCEPT !.due = @ - 1]
                   ELSE IF rejected \/ Unsaved(c) THEN Resting ELSE [pc |-> NextStep[f], due |-> 0]
  BY DEF Completes, FormTyped
<1>2. \A f \in {"publish", "exit"} : NextStep[f] \in {"asked", "left"}
  BY DEF NextStep
<1>3. \A f \in {"publish", "exit"} : flow[f] \in Handler
  BY DEF FormTyped
<1>4. \A f \in {"publish", "exit"} : [flow[f] EXCEPT !.due = @ - 1].pc = flow[f].pc
  BY <1>3 DEF Handler
<1>5. \A f \in {"publish", "exit"} : flow'[f] \in Handler
  BY <1>1, <1>2, <1>3, DeskAssumption DEF Handler, Resting
<1>6. flow' \in [{"publish", "exit"} -> Handler]
  <2>1. flow' = [f \in {"publish", "exit"} |-> flow'[f]]
    BY DEF Completes, FormTyped
  <2> QED
    BY <1>5, <2>1
<1>7. form' = [form EXCEPT !.timer = form.timer /\ flow'["exit"].pc # "left"]
  BY DEF Completes, FormTyped, Form
<1>8. /\ form' \in Form /\ form'.text = form.text /\ form'.status = form.status
      /\ form'.timer = (form.timer /\ flow'["exit"].pc # "left")
  BY <1>7 DEF FormTyped, Form
<1>9. ctl' = c
  BY DEF Completes
<1>10. FormTyped'
  BY <1>6, <1>8, <1>9 DEF FormTyped
<1>11. flow["exit"].pc = "left" => flow'["exit"].pc = "left"
  BY <1>1
<1>12. form.timer => form'.timer \/ flow'["exit"].pc = "left"
  BY <1>8
<1>13. Resting.pc = "none"
  BY DEF Resting
<1>14. \/ flow'["publish"].pc = flow["publish"].pc
       \/ /\ flow["publish"].pc = "flush" /\ flow["publish"].due <= 1 /\ ~rejected /\ ~Unsaved(c)
          /\ flow'["publish"].pc \in {"asked", "left"}
       \/ flow'["publish"].pc = "none"
  <2>1. flow["publish"].due \in Nat
    BY <1>3 DEF Handler
  <2>2. CASE flow["publish"].pc # "flush"
    BY <1>1, <2>2
  <2>3. CASE flow["publish"].pc = "flush" /\ flow["publish"].due > 1
    BY <1>1, <1>4, <2>3
  <2>4. CASE flow["publish"].pc = "flush" /\ flow["publish"].due <= 1 /\ (rejected \/ Unsaved(c))
    BY <1>1, <1>13, <2>1, <2>4
  <2>5. CASE flow["publish"].pc = "flush" /\ flow["publish"].due <= 1 /\ ~(rejected \/ Unsaved(c))
    <3>1. flow'["publish"] = [pc |-> NextStep["publish"], due |-> 0]
      BY <1>1, <2>1, <2>5
    <3> QED
      BY <1>2, <2>5, <3>1
  <2> QED
    BY <2>1, <2>2, <2>3, <2>4, <2>5
<1> QED
  BY <1>8, <1>9, <1>10, <1>11, <1>12, <1>14

\* After a save everything is in order, and a publication that went on shows what is saved.
LEMMA CompletesInv ==
  ASSUME Inv, NEW c, NEW rejected \in BOOLEAN, Completes(c, rejected), SoundCtl(c), publishedAs' = publishedAs,
         flow["publish"].pc = "flush" /\ flow["publish"].due <= 1 /\ ~rejected /\ ~Unsaved(c)
           => c.lastSaved = form.text
  PROVE  FormTyped' /\ SaveInv'
<1>1. c \in Ctl
  BY DEF SoundCtl
<1>2. /\ FormTyped' /\ ctl' = c
      /\ form'.text = form.text /\ form'.status = form.status
      /\ flow["exit"].pc = "left" => flow'["exit"].pc = "left"
      /\ form.timer => form'.timer \/ flow'["exit"].pc = "left"
      /\ flow'["publish"].pc = "flush" => flow["publish"].pc = "flush"
      /\ flow'["publish"].pc \in {"asked", "left"} =>
           \/ flow["publish"].pc \in {"asked", "left"}
           \/ flow["publish"].pc = "flush" /\ flow["publish"].due <= 1 /\ ~rejected /\ ~Unsaved(c)
  BY <1>1, CompletesFlow DEF Inv
<1>3. Ensuring'
  BY <1>2 DEF SoundCtl, Ensuring
<1>4. Kept'
  BY <1>2 DEF SoundCtl, Kept, Holds
<1>5. Resent'
  BY <1>2 DEF SoundCtl, Resent
<1>6. Honest'
  BY <1>2 DEF SoundCtl, Honest, Holds, Scheduled
<1>7. Flushed'
  <2>1. flow'["publish"].pc \in {"asked", "left"} \/ form'.status = "published" => c.id /\ c.lastSaved = form.text
    BY <1>2 DEF SoundCtl, GoingPublic, Unsaved
  <2>2. form.status = "published" /\ ~unheard => publishedAs = form.text \/ form.text = NoText
    BY DEF Inv, SaveInv, Flushed
  <2> QED
    BY <1>2, <2>1, <2>2 DEF Flushed, Settled, SoundCtl
<1> QED
  BY <1>2, <1>3, <1>4, <1>5, <1>6, <1>7 DEF SaveInv

\* One more save starts, with a listing: all is saved already, or an update is sent.
LEMMA SavesInv ==
  ASSUME Inv, NEW c \in Ctl, Saves(c), c.id, c.boot = "none", c.task # "update",
         publishedAs' = publishedAs, unheard' = unheard,
         ~unheard /\ c.lastSaved # Never => row'.text = c.lastSaved \/ c.lastSaved = NoText,
         GoingPublic => c.lastSaved = form.text
  PROVE  FormTyped' /\ SaveInv'
<1>1. CASE form.text = c.lastSaved
  <2> DEFINE d == Over(c, "saved")
  <2>1. /\ d \in Ctl /\ d.task = "none" /\ d.state = "saved" /\ d.id /\ d.boot = "none"
        /\ d.lastSaved = form.text
    BY <1>1 DEF Over, Ctl
  <2>2. form.text # Never
    BY TextIsText DEF Inv, FormTyped, Form
  <2>3. Completes(d, FALSE)
    BY <1>1 DEF Saves
  <2>4. SoundCtl(d)
    <3> HIDE DEF d
    <3> QED
      BY <1>1, <2>1, <2>2 DEF SoundCtl
  <2> HIDE DEF d
  <2> QED
    BY <2>1, <2>3, <2>4, CompletesInv
<1>2. CASE form.text # c.lastSaved
  <2>1. /\ ctl' = [c EXCEPT !.task = "update", !.state = "saving", !.snapshot = form.text]
        /\ UNCHANGED <<flow, form>>
    BY <1>2 DEF Saves
  <2>2. /\ ctl' \in Ctl /\ ctl'.task = "update" /\ ctl'.state = "saving" /\ ctl'.snapshot = form.text
        /\ ctl'.id /\ ctl'.boot = "none" /\ ctl'.lastSaved = c.lastSaved
    BY <2>1 DEF Ctl, Inv, FormTyped, Form
  <2>3. ~GoingPublic
    BY <1>2
  <2> QED
    BY <2>1, <2>2, <2>3 DEF Inv, FormTyped, SaveInv, Ensuring, Kept, Resent, Honest, Flushed, Holds, GoingPublic
<1> QED
  BY <1>1, <1>2

\* Nothing of the form or the controller changes, nor what the row holds.
LEMMA OnlyTheRow ==
  ASSUME Inv, UNCHANGED <<form, ctl, drafts, unheard, publishedAs>>, row'.text = row.text,
         flow' \in [{"publish", "exit"} -> Handler], flow'["exit"] = flow["exit"],
         flow'["publish"] \in {flow["publish"], Resting}
  PROVE  FormTyped' /\ SaveInv'
  BY DEF Inv, FormTyped, SaveInv, Ensuring, Kept, Resent, Honest, Flushed, Settled, Holds, Scheduled, Resting

-----------------------------------------------------------------------------
(* The form *)

\* What every step of the form keeps.
LEMMA FormActions ==
  ASSUME Inv, \/ \E text \in Contents : Edit(text)
              \/ TimerFires \/ Retry \/ PickPhoto
              \/ \E f \in {"publish", "exit"} : Click(f)
              \/ Published \/ PublishFails
  PROVE  Inv'
<1> USE DEF Inv
<1>0. /\ form \in Form /\ ctl \in Ctl /\ flow \in [{"publish", "exit"} -> Handler]
      /\ form.text \in Contents /\ form.status \in {"draft", "paused", "published"} /\ form.timer \in BOOLEAN
      /\ ctl.waiting \in 0..MaxQueue /\ row \in DraftRow
  BY DEF FormTyped, RestTyped, Form, Ctl
<1>1. ASSUME NEW text \in Contents, Edit(text)
      PROVE  Inv'
  <2>1. /\ form' \in Form /\ form'.text = text /\ form'.status = form.status /\ form'.timer = TRUE
    BY <1>0, <1>1 DEF Edit, Form
  <2>2. /\ ctl' \in Ctl /\ ctl'.state = "unsaved" /\ ctl'.task = ctl.task /\ ctl'.boot = ctl.boot
        /\ ctl'.id = ctl.id /\ ctl'.lastSaved = ctl.lastSaved
    BY <1>0, <1>1 DEF Edit, Ctl
  <2>3. UNCHANGED <<row, drafts, flow, panel, misfires, publishedAs>> /\ unheard' \in BOOLEAN
    BY <1>1 DEF Edit, RestTyped, Ctl
  <2>4. ~unheard' => ~unheard /\ ctl.boot # "sent" /\ (ctl.id \/ drafts = 0)
    BY <1>1 DEF Edit
  <2>5. form.status # "published" /\ flow["publish"].pc = "none"
    BY <1>1 DEF Edit, MayEdit, FormOpen, Publishing
  <2> QED
    BY <2>1, <2>2, <2>3, <2>4, <2>5
       DEF FormTyped, RestTyped, SaveInv, Ensuring, Kept, Resent, Honest, Flushed, Holds, Scheduled
<1>2. CASE TimerFires \/ Retry
  <2>1. /\ ctl' \in Ctl /\ ctl'.waiting > 0 /\ ctl'.state = ctl.state /\ ctl'.task = ctl.task
        /\ ctl'.boot = ctl.boot /\ ctl'.id = ctl.id /\ ctl'.lastSaved = ctl.lastSaved
        /\ ctl'.payload = ctl.payload /\ ctl'.snapshot = ctl.snapshot
    BY <1>0, <1>2, DeskAssumption DEF TimerFires, Retry, Enqueued, Ctl
  <2>2. /\ form' \in Form /\ form'.text = form.text /\ form'.status = form.status
        /\ UNCHANGED <<row, drafts, flow, panel, misfires, unheard, publishedAs>>
    BY <1>0, <1>2 DEF TimerFires, Retry, Form
  <2> QED
    BY <2>1, <2>2 DEF FormTyped, RestTyped, SaveInv, Ensuring, Kept, Resent, Honest, Flushed, Settled,
        Holds, Scheduled
<1>3. CASE PickPhoto
  <2>1. UNCHANGED <<row, drafts, form, flow, panel, misfires, unheard, publishedAs>>
    BY <1>3 DEF PickPhoto
  <2>2. CASE ctl' = ctl
    BY <2>1, <2>2 DEF FormTyped, RestTyped, SaveInv, Ensuring, Kept, Resent, Honest, Flushed, Settled,
        Holds, Scheduled
  <2>3. CASE ~ctl.id /\ ctl.boot = "none" /\ ctl' = [ctl EXCEPT !.boot = "sent", !.payload = form.text]
    <3>1. /\ ctl' \in Ctl /\ ctl'.waiting = ctl.waiting /\ ctl'.state = ctl.state /\ ctl'.task = ctl.task
          /\ ctl'.boot = "sent" /\ ctl'.id = ctl.id /\ ctl'.lastSaved = ctl.lastSaved
          /\ ctl'.payload = form.text /\ ctl'.snapshot = ctl.snapshot
      BY <1>0, <2>3 DEF Ctl
    <3> QED
      BY <2>1, <2>3, <3>1 DEF FormTyped, RestTyped, SaveInv, Ensuring, Kept, Resent, Honest, Flushed, Settled,
          Holds, Scheduled
  <2> QED
    BY <1>3, <2>2, <2>3 DEF PickPhoto, Bootstrapped
<1>4. ASSUME NEW f \in {"publish", "exit"}, Click(f)
      PROVE  Inv'
  <2>1. /\ ctl' \in Ctl /\ ctl'.waiting > 0 /\ ctl'.state = ctl.state /\ ctl'.task = ctl.task
        /\ ctl'.boot = ctl.boot /\ ctl'.id = ctl.id /\ ctl'.lastSaved = ctl.lastSaved
        /\ ctl'.payload = ctl.payload /\ ctl'.snapshot = ctl.snapshot
    BY <1>0, <1>4, DeskAssumption DEF Click, Enqueued, Ctl
  <2>2. /\ form' \in Form /\ form'.text = form.text /\ form'.status = form.status
        /\ UNCHANGED <<row, drafts, panel, misfires, unheard, publishedAs>>
    BY <1>0, <1>4 DEF Click, Form
  <2>3. /\ flow' \in [{"publish", "exit"} -> Handler] /\ flow'[f] = [pc |-> "flush", due |-> Ahead + 1]
        /\ \A g \in {"publish", "exit"} \ {f} : flow'[g] = flow[g]
        /\ ctl.task = "update" => Ahead > 0
    BY <1>0, <1>4, DeskAssumption DEF Click, Ahead, Handler
  <2>4. /\ flow'[f].pc = "flush" /\ flow'[f].due = Ahead + 1 /\ Ahead \in Nat
    BY <1>0, <2>3, DeskAssumption DEF Ahead
  <2>5. form.status # "published"
    BY <1>4 DEF Click, MayEdit, FormOpen
  <2> QED
    BY <2>1, <2>2, <2>3, <2>4, <2>5 DEF FormTyped, RestTyped, SaveInv, Ensuring, Kept, Resent, Honest,
        Flushed, Settled, Holds, Scheduled
<1>5. CASE Published
  <2>1. /\ row' \in DraftRow /\ row'.text = row.text
    BY <1>0, <1>5 DEF Published, DraftRow, ListingStatuses
  <2>2. /\ form' \in Form /\ form'.text = form.text /\ form'.status = "published" /\ form'.timer = form.timer
        /\ UNCHANGED <<drafts, ctl, panel, misfires, unheard>> /\ publishedAs' = row.text
    BY <1>0, <1>5 DEF Published, Form
  <2>3. /\ flow' \in [{"publish", "exit"} -> Handler] /\ flow'["publish"].pc = "none" /\ flow'["exit"] = flow["exit"]
        /\ flow["publish"].pc = "asked"
    BY <1>0, <1>5, DeskAssumption DEF Published, Resting, Handler
  <2>4. row.text \in Contents \union {Placeholder, Never} /\ form.text # Never
    BY <1>0, TextIsText DEF DraftRow
  <2> QED
    BY <2>1, <2>2, <2>3, <2>4 DEF FormTyped, RestTyped, SaveInv, Ensuring, Kept, Resent, Honest, Flushed,
        Settled, Holds, Scheduled
<1>6. CASE PublishFails
  <2>1. row' \in DraftRow /\ row'.text = row.text
    BY <1>0, <1>6 DEF PublishFails, DraftRow, ListingStatuses
  <2>2. /\ flow' \in [{"publish", "exit"} -> Handler] /\ flow'["publish"] = Resting /\ flow'["exit"] = flow["exit"]
    BY <1>0, <1>6, DeskAssumption DEF PublishFails, Resting, Handler
  <2>3. UNCHANGED <<drafts, form, ctl, panel, unheard, publishedAs>> /\ misfires' \in 0..MaxDeskFaults
    BY <1>6, DeskAssumption DEF PublishFails, DeskFault, RestTyped
  <2>4. FormTyped' /\ SaveInv'
    BY <2>1, <2>2, <2>3, OnlyTheRow
  <2> QED
    BY <2>1, <2>3, <2>4 DEF RestTyped
<1> QED
  BY <1>1, <1>2, <1>3, <1>4, <1>5, <1>6

-----------------------------------------------------------------------------
(* The controller *)

\* The next save of the queue.
LEMMA SaveStartsInv == Inv /\ SaveStarts => Inv'
<1> SUFFICES ASSUME Inv, SaveStarts PROVE Inv'
  OBVIOUS
<1> DEFINE c == [ctl EXCEPT !.waiting = @ - 1]
<1>0. /\ ctl \in Ctl /\ ctl.task = "none" /\ ctl.waiting > 0 /\ ctl.waiting \in 0..MaxQueue
      /\ UNCHANGED <<row, drafts, panel, misfires, unheard, publishedAs>>
  BY DEF SaveStarts, Inv, FormTyped, Ctl
<1>1. /\ c \in Ctl /\ c.state = ctl.state /\ c.task = "none" /\ c.boot = ctl.boot /\ c.id = ctl.id
      /\ c.lastSaved = ctl.lastSaved /\ c.payload = ctl.payload /\ c.snapshot = ctl.snapshot
      /\ c.id \in BOOLEAN
  BY <1>0, DeskAssumption DEF Ctl
<1>2. CASE c.id /\ Saves(c)
  <2>1. c.boot = "none"
    BY <1>1, <1>2 DEF Inv, SaveInv, Ensuring, Ctl
  <2>2. ~unheard /\ c.lastSaved # Never => row'.text = c.lastSaved \/ c.lastSaved = NoText
    BY <1>0, <1>1 DEF Inv, SaveInv, Kept, Holds
  <2>3. GoingPublic => c.lastSaved = form.text
    BY <1>1 DEF Inv, SaveInv, Flushed, Settled, GoingPublic
  <2> HIDE DEF c
  <2>4. FormTyped' /\ SaveInv'
    BY <1>0, <1>1, <1>2, <2>1, <2>2, <2>3, SavesInv
  <2> QED
    BY <1>0, <2>4 DEF Inv, RestTyped
<1>3. CASE ~c.id /\ Completes(c, TRUE)
  <2>1. ~GoingPublic /\ c.state # "saved" /\ c.lastSaved = Never
    BY <1>1, <1>3 DEF Inv, SaveInv, Ensuring, Flushed, Settled, GoingPublic
  <2>2. ~unheard => /\ c.boot = "sent" => c.payload = form.text
                    /\ drafts # 0 => row.text = form.text \/ form.text = NoText
    BY <1>1, <1>3 DEF Inv, SaveInv, Kept, Holds
  <2>3. form.status # "published"
    BY <2>1 DEF GoingPublic
  <2> HIDE DEF c
  <2>4. SoundCtl(c)
    BY <1>0, <1>1, <1>3, <2>1, <2>2, <2>3 DEF SoundCtl
  <2>5. FormTyped' /\ SaveInv'
    BY <1>0, <1>3, <2>4, CompletesInv
  <2> QED
    BY <1>0, <2>5 DEF Inv, RestTyped
<1>4. CASE ~c.id /\ ctl' = [Bootstrapped(c) EXCEPT !.task = "ensure"] /\ UNCHANGED <<flow, form>> /\ c.boot # "rejected"
  <2>1. /\ ctl' \in Ctl /\ ctl'.state = ctl.state /\ ctl'.task = "ensure" /\ ctl'.boot = "sent" /\ ~ctl'.id
        /\ ctl'.lastSaved = ctl.lastSaved
        /\ ctl'.payload = form.text \/ (ctl.boot = "sent" /\ ctl'.payload = ctl.payload)
    <3> HIDE DEF c
    <3>1. CASE c.boot = "none"
      BY <1>1, <1>4, <3>1 DEF Bootstrapped, Ctl, Inv, FormTyped, Form
    <3>2. CASE c.boot = "sent"
      BY <1>1, <1>4, <3>2 DEF Bootstrapped, Ctl
    <3> QED
      BY <1>1, <1>4, <3>1, <3>2 DEF Ctl
  <2>2. ~ctl.id
    BY <1>1, <1>4
  <2> QED
    BY <1>0, <1>4, <2>1, <2>2 DEF Inv, FormTyped, RestTyped, SaveInv, Ensuring, Kept, Resent, Honest, Flushed,
        Settled, Holds, Scheduled
<1> QED
  BY <1>1, <1>2, <1>3, <1>4 DEF SaveStarts, Ctl

\* A create, the first or a repeated one: if no edit went unheard the row holds the form.
LEMMA CreateInv ==
  ASSUME Inv, ctl.boot = "sent", Create
  PROVE  /\ row' \in DraftRow /\ drafts' = 1 /\ ~ctl.id
         /\ ~unheard => row'.text = form.text \/ form.text = NoText
<1>1. ~ctl.id /\ drafts \in 0..1 /\ row \in DraftRow /\ ctl.payload \in Contents
  BY DEF Inv, SaveInv, Ensuring, RestTyped, FormTyped, Ctl
<1>2. ~unheard => ctl.payload = form.text /\ (drafts # 0 => Holds(form.text))
  BY <1>1 DEF Inv, SaveInv, Kept
<1>3. CASE drafts # 0
  BY <1>1, <1>2, <1>3 DEF Create, Holds
<1>4. CASE drafts = 0
  <2>1. row' = [status |-> "draft", text |-> IF ctl.payload = NoText THEN Placeholder ELSE ctl.payload] /\ drafts' = 1
    BY <1>4 DEF Create
  <2> QED
    BY <1>1, <1>2, <2>1 DEF DraftRow, ListingStatuses
<1> QED
  BY <1>3, <1>4

\* The listing is there, and the save that waited for it goes on.
LEMMA BootstrapsInv == Inv /\ Bootstraps => Inv'
<1> SUFFICES ASSUME Inv, Bootstraps PROVE Inv'
  OBVIOUS
<1> DEFINE c == [ctl EXCEPT !.boot = "none", !.id = TRUE, !.lastSaved = form.text]
<1>0. /\ ctl \in Ctl /\ ctl.boot = "sent" /\ form \in Form /\ form.text \in Contents
      /\ UNCHANGED <<panel, misfires, unheard, publishedAs>>
  BY DEF Bootstraps, Inv, FormTyped, Form
<1>1. /\ row' \in DraftRow /\ drafts' = 1 /\ ~ctl.id
      /\ ~unheard => row'.text = form.text \/ form.text = NoText
  BY CreateInv DEF Bootstraps
<1>2. /\ c \in Ctl /\ c.state = ctl.state /\ c.task = ctl.task /\ c.boot = "none" /\ c.id
      /\ c.lastSaved = form.text
  BY <1>0 DEF Ctl
<1>3. ctl.task # "update" /\ ctl.state # "saved" /\ ~GoingPublic
  BY <1>1 DEF Inv, SaveInv, Ensuring, Flushed, Settled, GoingPublic
<1>4. IF c.task = "ensure" THEN Saves(c) ELSE ctl' = c /\ UNCHANGED <<flow, form>>
  BY DEF Bootstraps
<1> HIDE DEF c
<1>5. FormTyped' /\ SaveInv'
  <2>1. CASE c.task = "ensure"
    BY <1>0, <1>1, <1>2, <1>3, <1>4, <2>1, SavesInv
  <2>2. CASE c.task # "ensure"
    BY <1>0, <1>1, <1>2, <1>3, <1>4, <2>2 DEF Inv, FormTyped, SaveInv, Ensuring, Kept, Resent, Honest, Flushed,
        Settled, Holds, Scheduled, GoingPublic
  <2> QED
    BY <2>1, <2>2
<1> QED
  BY <1>0, <1>1, <1>5 DEF Inv, RestTyped

\* The create fails, or is reported as failed: nothing that was heard is lost.
LEMMA BootstrapFailsInv == Inv /\ (BootstrapRefused \/ BootstrapLost) => Inv'
<1> SUFFICES ASSUME Inv, BootstrapRefused \/ BootstrapLost PROVE Inv'
  OBVIOUS
<1>0. /\ ctl \in Ctl /\ ctl.boot = "sent" /\ form \in Form
      /\ UNCHANGED <<panel, publishedAs>>
      /\ unheard' = (unheard /\ drafts' # 0) \/ unheard' = unheard
  BY DEF BootstrapRefused, BootstrapLost, Inv, FormTyped, Form
<1>1. ~ctl.id /\ ctl.lastSaved = Never /\ ctl.task # "update" /\ ctl.state # "saved" /\ ~GoingPublic
  BY <1>0 DEF Inv, SaveInv, Ensuring, Flushed, Settled, GoingPublic
<1>2. /\ row' \in DraftRow /\ drafts' \in 0..1 /\ misfires' \in 0..MaxDeskFaults /\ unheard' \in BOOLEAN
      /\ ~unheard /\ drafts' # 0 => row'.text = form.text \/ form.text = NoText
  <2>1. CASE UNCHANGED <<row, drafts, misfires>>
    BY <1>0, <1>1, <2>1 DEF Inv, RestTyped, SaveInv, Kept, Holds
  <2>2. CASE DeskFault /\ Create
    BY <1>0, <2>2, CreateInv, DeskAssumption DEF DeskFault, Inv, RestTyped
  <2> QED
    BY <2>1, <2>2 DEF BootstrapRefused, BootstrapLost, CreateReached
<1>3. ~unheard' /\ drafts' # 0 => row'.text = form.text \/ form.text = NoText
  BY <1>0, <1>2 DEF Inv, RestTyped
<1>4. form.status # "published" /\ flow["publish"].pc \notin {"asked", "left"}
  BY <1>1 DEF GoingPublic
<1>5. ASSUME NEW d \in Ctl, d.boot \in {"none", "rejected"}, ~d.id, d.lastSaved = Never, d.state # "saved",
             \/ \E rejected \in BOOLEAN : Completes(d, rejected) /\ d.task = "none" /\ (rejected \/ Unsaved(d))
             \/ d.task = ctl.task /\ ctl.task # "ensure" /\ ctl' = d /\ UNCHANGED <<flow, form>>
      PROVE  FormTyped' /\ SaveInv'
  <2>1. ASSUME NEW rejected \in BOOLEAN, Completes(d, rejected), d.task = "none", rejected \/ Unsaved(d)
        PROVE  FormTyped' /\ SaveInv'
    <3>1. SoundCtl(d)
      BY <1>1, <1>3, <1>4, <1>5, <2>1 DEF SoundCtl
    <3> QED
      BY <1>0, <2>1, <3>1, CompletesInv
  <2>2. CASE d.task = ctl.task /\ ctl.task # "ensure" /\ ctl' = d /\ UNCHANGED <<flow, form>>
    BY <1>0, <1>1, <1>3, <1>4, <1>5, <2>2 DEF Inv, FormTyped, SaveInv, Ensuring, Kept, Resent, Honest, Flushed,
        Settled, Holds, Scheduled
  <2> QED
    BY <1>5, <2>1, <2>2
<1>6. CASE BootstrapRefused
  <2> DEFINE d == [ctl EXCEPT !.boot = "none"]
             e == Over(d, "error")
  <2>1. /\ d \in Ctl /\ d.boot = "none" /\ ~d.id /\ d.lastSaved = Never /\ d.state # "saved" /\ d.task = ctl.task
        /\ e \in Ctl /\ e.boot = "none" /\ ~e.id /\ e.lastSaved = Never /\ e.state = "error" /\ e.task = "none"
    BY <1>0, <1>1 DEF Ctl, Over
  <2>2. IF d.task = "ensure" THEN Completes(e, FALSE) ELSE ctl' = d /\ UNCHANGED <<flow, form>>
    BY <1>6 DEF BootstrapRefused
  <2> HIDE DEF d, e
  <2>3. FormTyped' /\ SaveInv'
    <3>1. CASE d.task = "ensure"
      BY <1>5, <2>1, <2>2, <3>1 DEF Unsaved
    <3>2. CASE d.task # "ensure"
      BY <1>5, <2>1, <2>2, <3>2
    <3> QED
      BY <3>1, <3>2
  <2> QED
    BY <1>0, <1>2, <2>3 DEF Inv, RestTyped
<1>7. CASE BootstrapLost
  <2> DEFINE d == [ctl EXCEPT !.boot = "rejected"]
             e == [d EXCEPT !.task = "none"]
  <2>1. /\ d \in Ctl /\ d.boot = "rejected" /\ ~d.id /\ d.lastSaved = Never /\ d.state # "saved" /\ d.task = ctl.task
        /\ e \in Ctl /\ e.boot = "rejected" /\ ~e.id /\ e.lastSaved = Never /\ e.state # "saved" /\ e.task = "none"
    BY <1>0, <1>1 DEF Ctl
  <2>2. IF d.task = "ensure" THEN Completes(e, TRUE) ELSE ctl' = d /\ UNCHANGED <<flow, form>>
    BY <1>7 DEF BootstrapLost
  <2> HIDE DEF d, e
  <2>3. FormTyped' /\ SaveInv'
    <3>1. CASE d.task = "ensure"
      BY <1>5, <2>1, <2>2, <3>1
    <3>2. CASE d.task # "ensure"
      BY <1>5, <2>1, <2>2, <3>2
    <3> QED
      BY <3>1, <3>2
  <2> QED
    BY <1>0, <1>2, <2>3 DEF Inv, RestTyped
<1> QED
  BY <1>6, <1>7

\* An update that is done: what was sent is in the row.
LEMMA UpdateAnsweredInv == Inv /\ UpdateAnswered => Inv'
<1> SUFFICES ASSUME Inv, UpdateAnswered PROVE Inv'
  OBVIOUS
<1> DEFINE c == Over(SavedAsSent, "saved")
<1>0. /\ ctl \in Ctl /\ ctl.task = "update" /\ ctl.snapshot \in Contents /\ row \in DraftRow
      /\ UNCHANGED <<drafts, panel, misfires, publishedAs>> /\ unheard' = FALSE
  BY DEF UpdateAnswered, Inv, FormTyped, RestTyped, Ctl
<1>1. ctl.id /\ ctl.boot = "none" /\ ~GoingPublic
  BY <1>0 DEF Inv, SaveInv, Ensuring, Flushed, Settled, GoingPublic, Ctl
<1>2. row' \in DraftRow /\ (row'.text = ctl.snapshot \/ ctl.snapshot = NoText)
  BY <1>0 DEF UpdateAnswered, Update, DraftRow
<1>3. /\ c \in Ctl /\ c.task = "none" /\ c.id /\ c.boot = "none" /\ c.lastSaved = ctl.snapshot /\ c.state = "saved"
      /\ c.waiting = ctl.waiting
  BY <1>0, <1>1 DEF Over, SavedAsSent, Ctl
<1>4. ctl.snapshot = form.text \/ form.timer \/ c.waiting > 0 \/ flow["exit"].pc = "left"
  BY <1>0, <1>3 DEF Inv, SaveInv, Resent, Scheduled
<1>5. flow["publish"].pc = "flush" /\ flow["publish"].due <= 1 => ctl.snapshot = form.text
  BY <1>0 DEF Inv, SaveInv, Flushed
<1>6. Completes(c, FALSE)
  BY DEF UpdateAnswered
<1> HIDE DEF c
<1>7. form.status # "published"
  BY <1>1 DEF GoingPublic
<1>8. SoundCtl(c)
  BY <1>1, <1>2, <1>3, <1>4, <1>7 DEF SoundCtl
<1>9. FormTyped' /\ SaveInv'
  BY <1>0, <1>3, <1>5, <1>6, <1>8, CompletesInv
<1> QED
  BY <1>0, <1>2, <1>9 DEF Inv, RestTyped

\* An update that is refused or unanswered: if it took effect, it went unheard.
LEMMA UpdateFailsInv == Inv /\ (UpdateRefused \/ UpdateLost) => Inv'
<1> SUFFICES ASSUME Inv, UpdateRefused \/ UpdateLost PROVE Inv'
  OBVIOUS
<1>0. /\ ctl \in Ctl /\ ctl.task = "update" /\ row \in DraftRow /\ ctl.snapshot \in Contents
      /\ UNCHANGED <<drafts, panel, publishedAs>> /\ unheard' = (unheard \/ misfires' # misfires)
  BY DEF UpdateRefused, UpdateLost, Inv, FormTyped, RestTyped, Ctl
<1>1. ctl.id /\ ctl.boot = "none" /\ ~GoingPublic
  BY <1>0 DEF Inv, SaveInv, Ensuring, Flushed, Settled, GoingPublic, Ctl
<1>2. /\ row' \in DraftRow /\ misfires' \in 0..MaxDeskFaults /\ unheard' \in BOOLEAN
      /\ ~unheard' => ~unheard /\ row' = row
  <2>1. CASE UNCHANGED <<row, misfires>>
    BY <1>0, <2>1 DEF Inv, RestTyped
  <2>2. CASE DeskFault /\ Update
    <3>1. misfires' = misfires + 1 /\ misfires \in 0..MaxDeskFaults /\ misfires' \in 0..MaxDeskFaults
      BY <2>2, DeskAssumption DEF DeskFault, Inv, RestTyped
    <3>2. row' \in DraftRow
      BY <1>0, <2>2 DEF Update, DraftRow
    <3>3. misfires' # misfires
      BY <3>1
    <3>4. unheard' = TRUE
      BY <1>0, <3>3
    <3> QED
      BY <3>1, <3>2, <3>4
  <2> QED
    BY <2>1, <2>2 DEF UpdateRefused, UpdateLost, UpdateReached
<1>3. ~unheard /\ ctl.lastSaved # Never => row.text = ctl.lastSaved \/ ctl.lastSaved = NoText
  BY DEF Inv, SaveInv, Kept, Holds
<1>4. ~unheard /\ ctl.state = "saved" => \/ row.text = form.text \/ form.text = NoText
                                          \/ form.timer \/ ctl.waiting > 0 \/ flow["exit"].pc = "left"
  BY DEF Inv, SaveInv, Honest, Holds, Scheduled
<1>5. form.status # "published"
  BY <1>1 DEF GoingPublic
<1>6. ASSUME NEW c \in Ctl, NEW rejected \in BOOLEAN, Completes(c, rejected), rejected \/ Unsaved(c),
             c.task = "none", c.id, c.boot = "none", c.lastSaved = ctl.lastSaved, c.waiting = ctl.waiting,
             c.state \in {"error", ctl.state}
      PROVE  Inv'
  <2>1. SoundCtl(c)
    BY <1>1, <1>2, <1>3, <1>4, <1>5, <1>6 DEF SoundCtl
  <2>2. FormTyped' /\ SaveInv'
    BY <1>0, <1>6, <2>1, CompletesInv
  <2> QED
    BY <1>0, <1>2, <2>2 DEF Inv, RestTyped
<1>7. CASE UpdateRefused
  <2> DEFINE c == Over(ctl, "error")
  <2>1. /\ c \in Ctl /\ c.task = "none" /\ c.id /\ c.boot = "none" /\ c.lastSaved = ctl.lastSaved
        /\ c.waiting = ctl.waiting /\ c.state = "error"
    BY <1>0, <1>1 DEF Over, Ctl
  <2>2. Completes(c, FALSE)
    BY <1>7 DEF UpdateRefused
  <2> HIDE DEF c
  <2> QED
    BY <1>6, <2>1, <2>2 DEF Unsaved
<1>8. CASE UpdateLost
  <2> DEFINE c == [ctl EXCEPT !.task = "none"]
  <2>1. /\ c \in Ctl /\ c.task = "none" /\ c.id /\ c.boot = "none" /\ c.lastSaved = ctl.lastSaved
        /\ c.waiting = ctl.waiting /\ c.state = ctl.state
    BY <1>0, <1>1 DEF Ctl
  <2>2. Completes(c, TRUE)
    BY <1>8 DEF UpdateLost
  <2> HIDE DEF c
  <2> QED
    BY <1>6, <2>1, <2>2
<1> QED
  BY <1>7, <1>8

-----------------------------------------------------------------------------
(* The buttons, and the theorems *)

\* What the buttons are, and what they may do to the row.
LEMMA PanelStepInv == Inv /\ PanelStep => Inv'
<1> SUFFICES ASSUME Inv, PanelStep PROVE Inv'
  OBVIOUS
<1>0. /\ panel \in Panel /\ row \in DraftRow /\ flow \in [{"publish", "exit"} -> Handler]
      /\ panel.pc # "none" => panel.action \in ListingActions
  BY DEF Inv, FormTyped, RestTyped
<1>1. UNCHANGED <<drafts, form, ctl, flow, unheard, publishedAs>>
  BY DEF PanelStep, PanelRenders, PanelDecides, PanelAnswered, PanelFails, PanelClick
<1>2. row' \in DraftRow /\ row'.text = row.text /\ misfires' \in 0..MaxDeskFaults
  <2>1. \A action \in ListingActions : NextStatus(action) \in ListingStatuses
    BY DEF ListingActions, NextStatus, ListingTransitions, ListingStatuses
  <2>2. CASE UNCHANGED <<row, misfires>>
    BY <1>0, <2>2 DEF Inv, RestTyped
  <2>3. ASSUME row' = [row EXCEPT !.status = NextStatus(panel.action)], panel.pc = "asked",
               DeskFault \/ misfires' = misfires
        PROVE  row' \in DraftRow /\ row'.text = row.text /\ misfires' \in 0..MaxDeskFaults
    BY <1>0, <2>1, <2>3, DeskAssumption DEF DraftRow, DeskFault, Inv, RestTyped
  <2> QED
    BY <2>2, <2>3 DEF PanelStep, PanelRenders, PanelDecides, PanelAnswered, PanelFails, PanelClick
<1>3. panel' \in Panel /\ (panel'.pc # "none" => panel'.action \in ListingActions)
  <2>1. CASE PanelRenders
    BY <1>0, <2>1 DEF PanelRenders, Panel, NoPanel, DraftRow
  <2>2. CASE PanelDecides
    BY <1>0, <2>2 DEF PanelDecides, Panel, NoPanel
  <2>3. CASE PanelAnswered
    BY <1>0, <1>2, <2>3 DEF PanelAnswered, Panel, NoPanel, DraftRow
  <2>4. CASE PanelFails
    BY <1>0, <2>4 DEF PanelFails, Panel, NoPanel
  <2>5. ASSUME NEW action \in ListingActions, PanelClick(action)
        PROVE  panel' \in Panel /\ (panel'.pc # "none" => panel'.action \in ListingActions)
    BY <1>0, <2>5 DEF PanelClick, Panel
  <2> QED
    BY <2>1, <2>2, <2>3, <2>4, <2>5 DEF PanelStep
<1>4. FormTyped' /\ SaveInv'
  BY <1>0, <1>1, <1>2, OnlyTheRow
<1> QED
  BY <1>1, <1>2, <1>3, <1>4 DEF Inv, RestTyped

\* Every step keeps everything in order.
LEMMA StepInv == Inv /\ [DeskStep]_deskVars => Inv'
<1>1. Inv /\ FormStep => Inv'
  BY FormActions, SaveStartsInv, BootstrapsInv, BootstrapFailsInv, UpdateAnsweredInv, UpdateFailsInv DEF FormStep
<1>2. Inv /\ UNCHANGED deskVars => Inv'
  BY DEF Inv, FormTyped, RestTyped, SaveInv, Ensuring, Kept, Resent, Honest, Flushed, Settled, Holds,
      Scheduled, deskVars
<1> QED
  BY <1>1, <1>2, PanelStepInv DEF DeskStep

\* The reachable states of the form and the buttons are typed.
THEOREM DeskTypeCorrect == DeskSpec => []DeskTypeOK
<1>1. Inv => DeskTypeOK
  BY TypedParts DEF Inv
<1> QED
  BY InitInv, StepInv, <1>1, PTL DEF DeskSpec

\* A form session makes one draft, however often the create is sent, refused or lost.
THEOREM OneDraft == DeskSpec => []OneDraftPerForm
<1>1. Inv => OneDraftPerForm
  BY TypedParts DEF Inv
<1> QED
  BY InitInv, StepInv, <1>1, PTL DEF DeskSpec

\* "Saved" is true of a form at rest, whatever was edited, queued, refused or lost, but
\* for an edit that fell between the create and its answer and an update reported as
\* failed though it took effect.
THEOREM SavedIsSaved == DeskSpec => []SavedUnlessUnheard
<1>1. Inv => SavedUnlessUnheard
  BY DEF Inv, SaveInv, Honest, SavedUnlessUnheard, DeskRests, Scheduled, FormTyped, Ctl
<1> QED
  BY InitInv, StepInv, <1>1, PTL DEF DeskSpec

\* What is published is what the form showed: the click waits for all that was to be saved.
THEOREM PublishesWhatIsShown == DeskSpec => []PublishedAsShown
<1>1. Inv => PublishedAsShown
  BY DEF Inv, SaveInv, Flushed, PublishedAsShown
<1> QED
  BY InitInv, StepInv, <1>1, PTL DEF DeskSpec
=============================================================================
