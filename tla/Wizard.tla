------------------------------- MODULE Wizard -------------------------------
(***************************************************************************)
(* The event wizard's save engine (lib/organizer/wizard/use-wizard.ts) and *)
(* what it needs of the event API: a draft typed in one browser, its copy  *)
(* in localStorage, one save at a time with its timers, the undo history,  *)
(* publication, and the events on the server, which somebody else edits    *)
(* too.  Requests are refused, never arrive, or arrive and lose their      *)
(* answer; the tab is closed and opened again.                             *)
(*                                                                         *)
(* A draft's fields are two values: `text', what POST /events carries (0:  *)
(* not enough to create), and `rest', what only PATCH carries.  `rows' are *)
(* the staged sessions, running order, FAQs and questions.  `gen' stands   *)
(* for the fresh row and tier keys a reset or a clone starts with.         *)
(***************************************************************************)
EXTENDS Naturals, Sequences, FiniteSetsExt, SequencesExt

CONSTANTS
  Texts, Rests,              \* values of the two groups of fields
  Tiers,                     \* the ticket tiers of a draft, by key
  Rows, Crews,               \* staged rows, lineups
  NoPrint, NoDraft,
  LostAnswers,               \* may a request arrive and its answer get lost?
  HISTORY_LIMIT,
  MaxEdits, MaxTabs,         \* bounds: edits; openings, saves asked for, publications
  MaxWorld, MaxFaults        \* ... outages and others' changes; failed requests

VARIABLES
  w,                         \* the mounted wizard, or Closed
  stored,                    \* localStorage: a draft per storage key
  events,                    \* server: the events, in order of creation
  tierRows,                  \* server: the ticket types
  online, owned,             \* navigator.onLine; one organisation is owned
  typedRows,                 \* rows typed so far (each is typed once)
  edits, tabs, world, faults \* so far, for the bounds

countVars == <<edits, tabs, world, faults>>
vars == <<w, stored, events, tierRows, online, owned, typedRows, countVars>>
serverVars == <<events, tierRows>>

ASSUME WizardConstants ==
  /\ Texts # {} /\ 0 \notin Texts /\ 0 \in Rests /\ 0 \notin Crews
  /\ {MaxEdits, MaxTabs, MaxWorld, MaxFaults, HISTORY_LIMIT} \subseteq Nat
  /\ LostAnswers \in BOOLEAN

States == {"local", "dirty", "saving", "saved", "offline", "error"}

-----------------------------------------------------------------------------
(* Drafts.  `on' is a history field: the server's version that the fields  *)
(* in the draft were read at or saved as.                                  *)

NoTier == [val |-> 0, sid |-> 0, ver |-> 0]

emptyDraft(org, gen) ==
  [eid |-> 0, ver |-> 1, on |-> 1, gen |-> gen, org |-> org, text |-> 0, rest |-> 0,
   tiers |-> [k \in Tiers |-> NoTier], rows |-> {}, crew |-> 0]

canCreate(d) == d.org /\ d.text # 0

patchFingerprint(d) == <<d.text, d.rest>>

(* What is sent: the fields of a new event; all of them, with the version  *)
(* the draft was read at; a tier.                                          *)
toCreateInput(d) == [text |-> d.text, rest |-> 0]

toPatchInput(d) == [version |-> d.ver, text |-> d.text, rest |-> d.rest]

toTierInput(tier) == [val |-> tier.val]

tierIsSavable(tier) == tier.val # 0

(* What the API returns for event e, as a draft.                           *)
TiersOf(e) ==
  [k \in Tiers |->
     LET ids == {i \in DOMAIN tierRows : tierRows[i].event = e /\ tierRows[i].key = k}
     IN  IF ids = {} THEN NoTier
         ELSE [val |-> tierRows[Max(ids)].val, sid |-> Max(ids), ver |-> tierRows[Max(ids)].ver]]

draftFromEvent(e, gen) ==
  [emptyDraft(owned, gen) EXCEPT !.eid = e, !.ver = events[e].ver, !.on = events[e].ver,
     !.text = events[e].text, !.rest = events[e].rest, !.tiers = TiersOf(e)]

(* The source's fields and lineup, without its identity.  Its tiers and    *)
(* rows come under fresh keys; what is done with those is told by the ones *)
(* a person types.                                                         *)
cloneDraftFrom(e, gen) ==
  [emptyDraft(owned, gen) EXCEPT !.ver = 0, !.on = 0,
     !.text = events[e].text, !.rest = events[e].rest, !.crew = events[e].crew]

(* A stored draft is kept unless it was created under an organisation the  *)
(* account no longer owns.                                                 *)
restoreDraft(d, gen) ==
  IF d = NoDraft \/ (d # NoDraft /\ d.eid # 0 /\ d.org # owned)
  THEN emptyDraft(owned, gen)
  ELSE [d EXCEPT !.org = owned, !.gen = gen]

(* An edit has its own key; a new draft and a clone share the other.       *)
draftStorageKey(x) == IF x.mode = "edit" THEN x.source ELSE 0

-----------------------------------------------------------------------------
(* The wizard's state.  `savedEvent' and `savedTiers' are what the code    *)
(* takes for the last values the server confirmed; `told', and the versions *)
(* in `savedTiers', are history fields: the event and version of which the *)
(* server was sent, or returned, just these fields (NoTold: of none), and  *)
(* the version of each tier.  `save' is the running flush: the snapshot it *)
(* works on, the stage it is at, and what it has achieved.                 *)

NoTold == <<0, 0>>

Idle == [on |-> FALSE, draft |-> NoDraft, stage |-> 0, rows |-> {}, landed |-> {},
         crewSynced |-> FALSE]

Closed ==
  [mode |-> "none", source |-> 0, draft |-> NoDraft, past |-> <<>>, future |-> <<>>,
   savedEvent |-> NoPrint, told |-> NoTold, savedTiers |-> <<>>, st |-> "local", file |-> FALSE,
   timer |-> FALSE, retryTimer |-> FALSE, retryUsed |-> FALSE, pending |-> FALSE,
   save |-> Idle, publishing |-> "no", submittable |-> TRUE, pressed |-> NoDraft, touched |-> FALSE]

Open == w.mode # "none"

Init ==
  /\ w = Closed
  /\ stored = <<>>
  /\ events = <<[text |-> CHOOSE text \in Texts : TRUE, rest |-> 0, ver |-> 1, rows |-> {}, crew |-> 0, live |-> FALSE]>>
  /\ tierRows = <<>>
  /\ online = TRUE /\ owned = TRUE
  /\ typedRows = {}
  /\ edits = 0 /\ tabs = 0 /\ world = 0 /\ faults = 0

(* schedule() restarts the autosave timer; `touched' is a history flag: a  *)
(* save was asked for since the draft was loaded.                          *)
schedule(x) == [x EXCEPT !.timer = TRUE, !.touched = TRUE]

Dirty(x) == [x EXCEPT !.st = IF @ = "offline" THEN @ ELSE "dirty"]

(* past.slice(-HISTORY_LIMIT)                                              *)
Kept(past) == SubSeq(past, Max({1, Len(past) - HISTORY_LIMIT + 1}), Len(past))

commit(x, next) ==
  [x EXCEPT !.past = Append(Kept(@), x.draft), !.future = <<>>, !.draft = next]

update(x, next) == schedule(Dirty(commit(x, next)))

(* A key of localStorage, or of savedTiers, gets a value.                  *)
Put(f, key, value) == [i \in DOMAIN f \cup {key} |-> IF i = key THEN value ELSE f[i]]

(* The persist effect runs after every render with a new draft.            *)
Persist_Debounced(x) ==
  IF x.timer THEN UNCHANGED stored
  ELSE stored' = Put(stored, draftStorageKey(x), x.draft)

Persist(x) == stored' = Put(stored, draftStorageKey(x), x.draft)

Stored(key) == IF key \in DOMAIN stored THEN stored[key] ELSE NoDraft

Show(x) == w' = x /\ Persist(x)

-----------------------------------------------------------------------------
(* flush().  Stages of a save: 1 the event, 2 the poster, 3 the staged     *)
(* rows, 4 the lineup, 5 the tiers; a stage without work is passed at once *)
(* and the last one ends in the merge.                                     *)

Unsaved(x, k) ==
  LET tier == x.save.draft.tiers[k]
  IN  /\ tierIsSavable(tier)
      /\ tier.sid = 0 \/ (tier.sid \in DOMAIN x.savedTiers => x.savedTiers[tier.sid].val # tier.val)

HasWork(x, i) ==
  CASE i = 1 -> x.save.draft.eid = 0 \/ patchFingerprint(x.save.draft) # x.savedEvent
    [] i = 2 -> x.file
    [] i = 3 -> x.save.rows # {}
    [] i = 4 -> x.save.draft.crew # 0
    [] i = 5 -> \E k \in Tiers : Unsaved(x, k)

Finish_DropsPending(x) ==
  [x EXCEPT !.save = Idle, !.pending = FALSE,
            !.publishing = IF @ = "flushing" THEN "call" ELSE @]

(* The `finally' block: the next save, and whoever awaits this one.        *)
Finish(x) ==
  LET y == [x EXCEPT !.save = Idle, !.pending = FALSE,
                     !.publishing = IF @ = "flushing" THEN "call" ELSE @]
  IN  IF x.pending THEN schedule(y) ELSE y

(* Merge rather than replace.                                              *)
MergedTier(x, k) ==
  IF x.draft.gen # x.save.draft.gen THEN x.draft.tiers[k]
  ELSE [x.draft.tiers[k] EXCEPT !.sid = x.save.draft.tiers[k].sid, !.ver = x.save.draft.tiers[k].ver]

Merged_Snapshot(x) ==
  [x.save.draft EXCEPT !.gen = x.draft.gen, !.rows = {}, !.crew = 0]

Merged(x) ==
  [x.draft EXCEPT !.eid = x.save.draft.eid, !.ver = x.save.draft.ver, !.on = x.save.draft.on,
     !.tiers = [k \in Tiers |-> MergedTier(x, k)],
     !.rows = @ \ (IF x.draft.gen = x.save.draft.gen THEN x.save.landed ELSE {}),
     !.crew = IF x.save.crewSynced THEN 0 ELSE @]

Succeed(x) ==
  Finish([x EXCEPT !.draft = Merged(x), !.retryUsed = FALSE,
                   !.st = IF x.pending THEN "dirty" ELSE "saved"])

Fail(x, networkish) ==
  Finish([x EXCEPT !.st = IF networkish THEN "offline" ELSE "error",
                   !.retryTimer = @ \/ (networkish /\ ~x.retryUsed),
                   !.retryUsed = @ \/ networkish])

(* After stage i: the next one with something to do, or the end.           *)
After(x, i) ==
  LET left == {j \in i + 1 .. 5 : HasWork(x, j)}
  IN  IF left = {} THEN Succeed(x) ELSE [x EXCEPT !.save.stage = Min(left)]

flush(x, connected) ==
  IF ~connected THEN [x EXCEPT !.st = "offline"]
  ELSE IF x.save.on THEN [x EXCEPT !.pending = TRUE]
  ELSE IF ~canCreate(x.draft) THEN [x EXCEPT !.st = "local"]
  ELSE After([x EXCEPT !.st = "saving",
                !.save = [on |-> TRUE, draft |-> x.draft, stage |-> 0, rows |-> x.draft.rows,
                          landed |-> {}, crewSynced |-> FALSE]], 0)

-----------------------------------------------------------------------------
(* Requests.  The server accepts and answers, accepts and its answer is    *)
(* lost, refuses, or is not reached.                                       *)

Fault == faults < MaxFaults /\ faults' = faults + 1

Request(accepts, apply, done, refused, lost) ==
  /\ \/ online /\ accepts /\ apply /\ Show(done) /\ UNCHANGED faults
     \/ online /\ accepts /\ apply /\ Show(lost) /\ LostAnswers /\ Fault
     \/ online /\ ~accepts /\ Show(refused) /\ UNCHANGED <<events, tierRows, faults>>
     \/ online /\ accepts /\ Fault /\ Show(refused) /\ UNCHANGED serverVars
     \/ (online => Fault) /\ (~online => UNCHANGED faults) /\ Show(lost) /\ UNCHANGED serverVars
  /\ UNCHANGED <<online, owned, typedRows, edits, tabs, world>>

At(i) == w.save.on /\ w.save.stage = i

Saving(d) == [w EXCEPT !.save.draft = d]

(* createEvent, which sends `text' only, after which all fields are taken  *)
(* for saved ...                                                           *)
CreateEvent ==
  LET d == w.save.draft
      input == toCreateInput(d)
      e == Len(events) + 1
      made == [d EXCEPT !.eid = e, !.ver = 1, !.on = 1]
  IN  /\ At(1) /\ d.eid = 0
      /\ Request(owned,
                 /\ events' = Append(events, [text |-> input.text, rest |-> input.rest, ver |-> 1,
                                              rows |-> {}, crew |-> 0, live |-> FALSE])
                 /\ UNCHANGED tierRows,
                 After([Saving(made) EXCEPT
                          !.savedEvent = patchFingerprint(made),
                          !.told = IF input.rest = d.rest THEN <<e, 1>> ELSE NoTold], 1),
                 Fail(w, FALSE), Fail(w, TRUE))

(* Mutant: what was typed while the request was on its way counts as saved. *)
Updated_Shown(d, moved) ==
  [Saving(moved) EXCEPT !.savedEvent = patchFingerprint(w.draft), !.told = <<d.eid, moved.ver>>]

Updated(d, moved) ==
  [Saving(moved) EXCEPT !.savedEvent = patchFingerprint(d), !.told = <<d.eid, moved.ver>>]

(* ... or updateEvent, with the version the draft carries.                 *)
UpdateEvent ==
  LET d == w.save.draft
      input == toPatchInput(d)
      moved == [d EXCEPT !.ver = @ + 1, !.on = d.ver + 1]
  IN  /\ At(1) /\ d.eid # 0
      /\ Request(input.version = events[d.eid].ver,
                 /\ events' = [events EXCEPT ![d.eid].text = input.text, ![d.eid].rest = input.rest,
                                             ![d.eid].ver = @ + 1]
                 /\ UNCHANGED tierRows,
                 After(Updated(d, moved), 1),
                 Fail(w, FALSE), Fail(w, TRUE))

UploadPoster ==
  LET d == w.save.draft
      moved == [d EXCEPT !.ver = @ + 1, !.on = d.ver + 1]
  IN  /\ At(2)
      /\ Request(d.ver = events[d.eid].ver,
                 events' = [events EXCEPT ![d.eid].ver = @ + 1] /\ UNCHANGED tierRows,
                 After([Saving(moved) EXCEPT !.file = FALSE,
                          !.told = IF @ = <<d.eid, d.ver>> THEN <<d.eid, moved.ver>> ELSE @], 2),
                 Fail(w, FALSE), Fail(w, TRUE))

(* One staged row; a failure leaves it staged and the save goes on.        *)
AddRow(r) ==
  LET e == w.save.draft.eid
      tried == [w EXCEPT !.save.rows = @ \ {r}]
  IN  /\ At(3) /\ r \in w.save.rows
      /\ Request(TRUE,
                 events' = [events EXCEPT ![e].rows = @ \cup {r}] /\ UNCHANGED tierRows,
                 After([tried EXCEPT !.save.landed = @ \cup {r}], 2),
                 After(tried, 2), After(tried, 2))

(* The lineup, sent whole.                                                 *)
SetEventCrew ==
  LET d == w.save.draft
  IN  /\ At(4)
      /\ Request(TRUE,
                 events' = [events EXCEPT ![d.eid].crew = d.crew] /\ UNCHANGED tierRows,
                 After([w EXCEPT !.save.crewSynced = TRUE], 4),
                 After(w, 4), After(w, 4))

WriteTier(k) ==
  LET d == w.save.draft
      tier == d.tiers[k]
      sid == IF tier.sid = 0 THEN Len(tierRows) + 1 ELSE tier.sid
      row == [event |-> d.eid, key |-> k, val |-> toTierInput(tier).val,
              ver |-> IF tier.sid = 0 THEN 1 ELSE tier.ver + 1]
  IN  /\ At(5) /\ Unsaved(w, k)
      /\ Request(tier.sid # 0 => sid \in DOMAIN tierRows /\ tier.ver = tierRows[sid].ver,
                 /\ tierRows' = IF tier.sid = 0 THEN Append(tierRows, row)
                                ELSE [tierRows EXCEPT ![sid] = row]
                 /\ UNCHANGED events,
                 After([Saving([d EXCEPT !.tiers[k].sid = sid, !.tiers[k].ver = row.ver])
                          EXCEPT !.savedTiers = Put(@, sid, [val |-> tier.val, ver |-> row.ver])], 4),
                 Fail(w, FALSE), Fail(w, TRUE))

SaveStep ==
  \/ CreateEvent \/ UpdateEvent \/ UploadPoster \/ SetEventCrew
  \/ \E r \in Rows : AddRow(r)
  \/ \E k \in Tiers : WriteTier(k)

-----------------------------------------------------------------------------
(* Timers.                                                                 *)

TimerFires ==
  /\ Open /\ w.timer
  /\ Show(flush([w EXCEPT !.timer = FALSE], online))
  /\ UNCHANGED <<events, tierRows, online, owned, typedRows, countVars>>

RetryFires ==
  /\ Open /\ w.retryTimer
  /\ Show(flush([w EXCEPT !.retryTimer = FALSE], online))
  /\ UNCHANGED <<events, tierRows, online, owned, typedRows, countVars>>

-----------------------------------------------------------------------------
(* What people do.                                                         *)

Edit == edits < MaxEdits /\ edits' = edits + 1 /\ UNCHANGED <<tabs, world, faults>>
Tab == tabs < MaxTabs /\ tabs' = tabs + 1 /\ UNCHANGED <<edits, world, faults>>
World == world < MaxWorld /\ world' = world + 1 /\ UNCHANGED <<edits, tabs, faults>>

Calm == UNCHANGED <<events, tierRows, online, owned>>

Type(text, rest) ==
  /\ Edit /\ Open
  /\ (text = w.draft.text) # (rest = w.draft.rest)
  /\ Show(update(w, [w.draft EXCEPT !.text = text, !.rest = rest]))
  /\ Calm /\ UNCHANGED typedRows

setTiers(k, val) ==
  /\ Edit /\ Open /\ val # w.draft.tiers[k].val
  /\ Show(update(w, [w.draft EXCEPT !.tiers[k].val = val]))
  /\ Calm /\ UNCHANGED typedRows

(* Rows and the lineup are staged while the draft has no event.            *)
StageRow(r) ==
  /\ Edit /\ Open /\ w.draft.eid = 0 /\ r \notin typedRows
  /\ Show(update(w, [w.draft EXCEPT !.rows = @ \cup {r}]))
  /\ typedRows' = typedRows \cup {r}
  /\ Calm

StageCrew(c) ==
  /\ Edit /\ Open /\ w.draft.eid = 0 /\ c # w.draft.crew
  /\ Show(update(w, [w.draft EXCEPT !.crew = c]))
  /\ Calm /\ UNCHANGED typedRows

(* The file waits in the wizard; its preview is an update of the draft.    *)
setPoster ==
  /\ Edit /\ Open /\ ~w.file
  /\ Show([update(w, w.draft) EXCEPT !.file = TRUE])
  /\ Calm /\ UNCHANGED typedRows

undo ==
  /\ Edit /\ Open /\ w.past # <<>>
  /\ Show(schedule([w EXCEPT !.draft = Last(w.past), !.past = Front(@),
                             !.future = <<w.draft>> \o @, !.st = "dirty"]))
  /\ Calm /\ UNCHANGED typedRows

redo ==
  /\ Open /\ w.future # <<>>
  /\ Show(schedule([w EXCEPT !.draft = Head(w.future), !.future = Tail(@),
                             !.past = Append(@, w.draft), !.st = "dirty"]))
  /\ Calm /\ UNCHANGED <<typedRows, countVars>>

saveNow ==
  /\ Tab /\ Open
  /\ Show(flush([w EXCEPT !.timer = FALSE], online))
  /\ Calm /\ UNCHANGED typedRows

GoOffline ==
  /\ World /\ online /\ online' = FALSE
  /\ w' = IF Open THEN [w EXCEPT !.st = "offline"] ELSE w
  /\ UNCHANGED <<stored, events, tierRows, owned, typedRows>>

GoOnline ==
  /\ ~online /\ online' = TRUE
  /\ IF Open
     THEN Show(flush([w EXCEPT !.st = IF @ = "offline" THEN "dirty" ELSE @], TRUE))
     ELSE UNCHANGED <<w, stored>>
  /\ UNCHANGED <<events, tierRows, owned, typedRows, countVars>>

(* The list of owned organisations changes, and the draft adopts it.       *)
OwnedChanges ==
  /\ World /\ owned' = ~owned
  /\ IF Open /\ w.draft.org # owned'
     THEN LET x == [w EXCEPT !.draft.org = owned']
          IN  Show(IF owned' THEN schedule(x) ELSE x)
     ELSE UNCHANGED <<w, stored>>
  /\ UNCHANGED <<events, tierRows, online, typedRows>>

-----------------------------------------------------------------------------
(* Hydration.                                                              *)

(* The server has the fields of d.                                         *)
OnServer(d) == d.eid # 0 /\ patchFingerprint(d) = patchFingerprint(events[d.eid])

(* A new draft: whatever is stored, all of it taken for saved if it has an *)
(* event, and a save for one that was complete and never created.          *)
HydrateNew ==
  LET d == restoreDraft(Stored(0), tabs)
      x == [Closed EXCEPT !.mode = "create", !.draft = d,
              !.savedEvent = IF d.eid # 0 THEN patchFingerprint(d) ELSE NoPrint,
              !.told = IF OnServer(d) THEN <<d.eid, events[d.eid].ver>> ELSE NoTold,
              !.st = IF d.eid # 0 THEN "saved" ELSE "local"]
  IN  Show(IF d.eid = 0 /\ canCreate(d) THEN schedule(x) ELSE x)

(* An edit: the server's event, under the stored draft if that was typed   *)
(* over this very version.                                                 *)
Usable_AnyVersion(d, server) == d # NoDraft

Usable(d, server) == d # NoDraft /\ d.ver = server.ver

HydrateEdit(e) ==
  LET server == draftFromEvent(e, tabs)
      d == Stored(e)
      restored == IF Usable(d, server)
                  THEN [d EXCEPT !.eid = e, !.ver = server.ver, !.gen = tabs]
                  ELSE server
  IN  Show([Closed EXCEPT !.mode = "edit", !.source = e, !.draft = restored,
              !.savedEvent = patchFingerprint(server), !.told = <<e, server.ver>>,
              !.savedTiers = [i \in {server.tiers[k].sid : k \in Tiers} \ {0} |->
                               [val |-> tierRows[i].val, ver |-> tierRows[i].ver]],
              !.submittable = ~events[e].live, !.st = "saved"])

(* A clone, on a fresh page or over the draft in hand: the timers and a    *)
(* running save are left as they are.                                      *)
HydrateClone(e) ==
  Show([w EXCEPT !.mode = "clone", !.draft = cloneDraftFrom(e, tabs),
          !.past = <<>>, !.future = <<>>, !.savedEvent = NoPrint, !.told = NoTold, !.savedTiers = <<>>,
          !.file = FALSE, !.st = "local", !.touched = FALSE])

Mount ==
  /\ Tab /\ online
  /\ \/ ~Open /\ HydrateNew
     \/ ~Open /\ \E e \in DOMAIN events : HydrateEdit(e)
     \/ w.mode # "edit" /\ \E e \in DOMAIN events : HydrateClone(e)
  /\ Calm /\ UNCHANGED typedRows

(* The tab closes; the draft stays in localStorage.  Openings are counted.  *)
Close ==
  /\ Open
  /\ w' = Closed
  /\ Calm /\ UNCHANGED <<stored, typedRows, countVars>>

-----------------------------------------------------------------------------
(* Publication.  The button asks that nothing required is missing, that    *)
(* the event and every tier exist, and that the event was not live when    *)
(* the page read it; then flush() is awaited, which returns at once if a   *)
(* save is running.  `pressed' is a history field: the draft as it was     *)
(* when the button was pressed.                                            *)

publishBlockers ==
  \/ w.draft.eid = 0 \/ w.draft.text = 0
  \/ \A k \in Tiers : w.draft.tiers[k].val = 0
  \/ \E k \in Tiers : w.draft.tiers[k].val # 0 /\ w.draft.tiers[k].sid = 0

publish ==
  LET x == flush(w, online)
  IN  /\ Tab /\ Open /\ w.publishing = "no"
      /\ ~publishBlockers
      /\ w.submittable
      /\ Show([x EXCEPT !.publishing = IF x.save.on /\ ~w.save.on THEN "flushing" ELSE "call",
                      !.pressed = w.draft])
      /\ Calm /\ UNCHANGED typedRows

(* Success clears the stored copy and leaves the page; so does a refusal   *)
(* that says the event is live already, by way of reset().                 *)
LeaveNothing ==
  /\ w' = Closed
  /\ stored' = Restrict(stored, DOMAIN stored \ {draftStorageKey(w)})

LeaveEmpty ==
  /\ w' = Closed
  /\ stored' = Put(stored, draftStorageKey(w), emptyDraft(owned, 0))

GoLive(e) ==
  /\ ~events[e].live
  /\ events' = [events EXCEPT ![e].live = TRUE, ![e].ver = @ + 1]

NotPublished == Show([w EXCEPT !.publishing = "no", !.pressed = NoDraft])

PublishCall ==
  /\ Open /\ w.publishing = "call"
  /\ LET e == w.draft.eid
         sent == e # 0 /\ online
     IN  \/ sent /\ GoLive(e) /\ LeaveNothing /\ UNCHANGED <<tierRows, faults>>
         \/ sent /\ GoLive(e) /\ NotPublished /\ LostAnswers /\ Fault /\ UNCHANGED tierRows
         \/ /\ sent /\ events[e].live
            /\ LeaveEmpty
            /\ UNCHANGED <<events, tierRows, faults>>
         \/ sent /\ Fault /\ NotPublished /\ UNCHANGED serverVars
         \/ ~sent /\ NotPublished /\ UNCHANGED <<events, tierRows, faults>>
  /\ UNCHANGED <<online, owned, typedRows, edits, tabs, world>>

(* Somebody else saves the event.                                          *)
OtherEdit(e, text, rest) ==
  /\ World /\ (text = events[e].text) # (rest = events[e].rest)
  /\ events' = [events EXCEPT ![e].text = text, ![e].rest = rest, ![e].ver = @ + 1]
  /\ UNCHANGED <<w, stored, tierRows, online, owned, typedRows>>

(* ... or publishes it, from another tab.                                  *)
OtherPublish(e) ==
  /\ World /\ GoLive(e)
  /\ UNCHANGED <<w, stored, tierRows, online, owned, typedRows>>

-----------------------------------------------------------------------------
Person ==
  \/ \E text \in Texts \cup {0}, rest \in Rests : Type(text, rest)
  \/ \E k \in Tiers, val \in 0 .. 2 : setTiers(k, val)
  \/ \E r \in Rows : StageRow(r)
  \/ \E c \in Crews \cup {0} : StageCrew(c)
  \/ setPoster \/ undo \/ redo \/ saveNow
  \/ Mount \/ Close \/ publish
  \/ \E e \in DOMAIN events, text \in Texts, rest \in Rests : OtherEdit(e, text, rest)
  \/ \E e \in DOMAIN events : OtherPublish(e)

Network == GoOffline \/ GoOnline \/ OwnedChanges

Timers == TimerFires \/ RetryFires

Next == SaveStep \/ Timers \/ PublishCall \/ Person \/ Network

Spec == Init /\ [][Next]_vars

-----------------------------------------------------------------------------
(* Types, and a save's shape: what it works on exists by the stage it is   *)
(* at, and the draft shown is the one in localStorage.                     *)
WizTypeOK ==
  /\ w.mode \in {"none", "create", "edit", "clone"}
  /\ w.st \in States
  /\ w.save.on => w.save.stage \in 1 .. 5 /\ (w.save.stage > 1 => w.save.draft.eid \in DOMAIN events)
  /\ ~w.save.on => w.save = Idle
  /\ Open => Stored(draftStorageKey(w)) = w.draft
  /\ Open /\ w.draft.eid # 0 => w.draft.eid \in DOMAIN events

(* The code takes the fields shown for saved, and is wrong in one of five  *)
(* ways it does not guard against: they are those of a new event and went  *)
(* beyond what POST carries (use-wizard.ts:505), they were typed over a    *)
(* created draft that was then reopened (use-wizard.ts:324), somebody has  *)
(* saved the event since, a save whose answer was lost changed it, or they *)
(* were confirmed for another event, which undo and redo bring back.       *)
Misled ==
  /\ w.draft.eid # 0 /\ patchFingerprint(w.draft) = w.savedEvent
  /\ w.told # <<w.draft.eid, events[w.draft.eid].ver>>

(* A tier is on the server, or a save of it whose answer was lost changed  *)
(* it there since these values were confirmed.                             *)
TierOnServer(tier) ==
  /\ tier.sid # 0
  /\ \/ tierRows[tier.sid].val = tier.val
     \/ /\ tier.sid \in DOMAIN w.savedTiers /\ w.savedTiers[tier.sid].val = tier.val
        /\ w.savedTiers[tier.sid].ver # tierRows[tier.sid].ver

(* NO EDIT IS STRANDED: once a save has been asked for, a creatable draft  *)
(* with fields or tiers that the server does not have has something coming *)
(* for it (the autosave timer, the one retry, a queued save, a running one *)
(* that started from these very values, the reconnect), or the badge says  *)
(* why not.  The ways in which the code is Misled are left out.            *)
Confirmed ==
  /\ OnServer(w.draft) \/ Misled
  /\ \A k \in Tiers : tierIsSavable(w.draft.tiers[k]) => TierOnServer(w.draft.tiers[k])

BeingSaved ==
  /\ w.save.on
  /\ patchFingerprint(w.save.draft) = patchFingerprint(w.draft)
  /\ \A k \in Tiers : w.save.draft.tiers[k].val = w.draft.tiers[k].val

NoStrandedEdit ==
  Open /\ w.touched /\ canCreate(w.draft) /\ ~Confirmed
    => w.timer \/ w.retryTimer \/ w.pending \/ BeingSaved \/ ~online \/ w.st \in {"offline", "error"}

(* A SAVE KEEPS WHAT IS TYPED MEANWHILE: no step but a person's changes a  *)
(* field, a tier's values or the staged rows of the draft in hand, except  *)
(* that a row goes once it is on the event the draft belongs to.           *)
SaveKeepsTyping ==
  [][Open /\ w'.mode # "none" /\ UNCHANGED <<edits, tabs>> /\ w'.future = w.future =>
       /\ patchFingerprint(w'.draft) = patchFingerprint(w.draft)
       /\ \A k \in Tiers : w'.draft.tiers[k].val = w.draft.tiers[k].val
       /\ w'.draft.rows \subseteq w.draft.rows
       /\ \A r \in w.draft.rows \ w'.draft.rows : r \in events'[w'.draft.eid].rows]_vars

(* NOBODY'S EDIT IS REVERTED UNSEEN: a save overwrites an event's fields   *)
(* only with a draft whose fields were read at, or saved as, the version   *)
(* the event still has, across crashes, restores, undo and other editors.  *)
NoSilentRevert ==
  [][\A e \in DOMAIN events :
       patchFingerprint(events'[e]) # patchFingerprint(events[e]) /\ world' = world
         => w.save.draft.on = events[e].ver]_vars

(* THE BADGE SETTLES: with no timer, save or publication left to run, it   *)
(* reads `local', `saved', `offline' or `error', and `saved' only if "the  *)
(* server has it" (use-wizard.ts:57), but for the ways in which the code   *)
(* is Misled.                                                              *)
Quiet == Open /\ online /\ ~w.timer /\ ~w.retryTimer /\ ~w.save.on /\ w.publishing = "no"

BadgeSettles ==
  Quiet => /\ w.st \in {"local", "saved", "offline", "error"} /\ ~w.pending
           /\ w.st = "saved" /\ w.touched => OnServer(w.draft) \/ Misled

(* WORK IS NEVER LOST (use-wizard.ts:46-52): publishing, which throws the  *)
(* local copy away, finds on the server every field and tier that the      *)
(* draft held when the button was pressed.                                 *)
PublishKeepsWork ==
  [][\A e \in DOMAIN events :
       events'[e].live /\ ~events[e].live /\ w'.mode = "none" =>
         /\ patchFingerprint(events[e]) = patchFingerprint(w.pressed)
         /\ \A k \in Tiers : w.pressed.tiers[k].val # 0
              => tierRows[w.pressed.tiers[k].sid].val = w.pressed.tiers[k].val]_vars
=============================================================================
