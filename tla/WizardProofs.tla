---------------------------- MODULE WizardProofs ----------------------------
(***************************************************************************)
(* Proofs about Wizard, for any number of edits, openings, faults, tiers   *)
(* and rows.  The first part is the shape of a wizard and of its drafts,   *)
(* the second what the timers and the badge owe to an edit.                *)
(***************************************************************************)
EXTENDS Wizard, SumLemmas, SequenceTheorems

-----------------------------------------------------------------------------
(* The greatest and the least of some numbers exist.                       *)

LEMMA MaxIsThere ==
  ASSUME NEW n \in Nat, NEW S \in SUBSET (1 .. n), S # {}
  PROVE  Max(S) \in S
<1> DEFINE T == {m \in Nat : \A U \in SUBSET (1 .. m) : U # {} => \E x \in U : \A y \in U : x >= y}
<1>1. 0 \in T
  <2>1. 1 .. 0 = {}
    OBVIOUS
  <2> QED
    BY <2>1
<1>2. ASSUME NEW m \in Nat, m \in T PROVE m + 1 \in T
  <2> SUFFICES ASSUME NEW U \in SUBSET (1 .. m + 1), U # {}
               PROVE  \E x \in U : \A y \in U : x >= y
    OBVIOUS
  <2>1. CASE m + 1 \in U
    BY <2>1
  <2>2. CASE m + 1 \notin U
    <3>1. U \in SUBSET (1 .. m)
      BY <2>2
    <3> QED
      BY <1>2, <3>1
  <2> QED
    BY <2>1, <2>2
<1> HIDE DEF T
<1>3. n \in T
  BY <1>1, <1>2, InductionOnNat
<1>4. PICK x \in S : \A y \in S : x >= y
  BY <1>3 DEF T
<1> QED
  BY <1>4 DEF Max

LEMMA MinIsThere ==
  ASSUME NEW S \in SUBSET (1 .. 5), S # {}
  PROVE  Min(S) \in S /\ \A y \in S : Min(S) =< y
<1>1. \E x \in S : \A y \in S : x =< y
  <2>1. CASE 1 \in S
    BY <2>1
  <2>2. CASE 1 \notin S /\ 2 \in S
    BY <2>2
  <2>3. CASE 1 \notin S /\ 2 \notin S /\ 3 \in S
    BY <2>3
  <2>4. CASE 1 \notin S /\ 2 \notin S /\ 3 \notin S /\ 4 \in S
    BY <2>4
  <2>5. CASE 1 \notin S /\ 2 \notin S /\ 3 \notin S /\ 4 \notin S
    <3>1. \A x \in S : x \in {1, 2, 3, 4, 5}
      OBVIOUS
    <3>2. S = {5}
      BY <2>5, <3>1
    <3> QED
      BY <3>2
  <2> QED
    BY <2>1, <2>2, <2>3, <2>4, <2>5
<1> QED
  BY <1>1 DEF Min

-----------------------------------------------------------------------------
(* The drafts whose event, if they have one, is among the first n; `ver'   *)
(* is the version their fields were read at or saved as.                   *)

TextVals == Texts \cup {0}

Lineups == Crews \cup {0}

TierRecs == [val : 0 .. 2, sid : Nat, ver : Nat]

DraftRecs(n) ==
  [eid : 0 .. n, ver : Nat, on : Nat, gen : Nat, org : BOOLEAN, text : TextVals, rest : Rests,
   tiers : [Tiers -> TierRecs], rows : SUBSET Rows, crew : Lineups]

Drafts(n) == {d \in DraftRecs(n) : d.ver = d.on}

Events == [text : TextVals, rest : Rests, ver : Nat, rows : SUBSET Rows, crew : Lineups, live : BOOLEAN]

TierRows == [event : Nat, key : Tiers, val : 0 .. 2, ver : Nat]

ServerOK == events \in Seq(Events) /\ tierRows \in Seq(TierRows)

LEMMA DraftsGrow ==
  ASSUME NEW m \in Nat, NEW n \in Nat, m =< n
  PROVE  Drafts(m) \subseteq Drafts(n)
  BY DEF Drafts, DraftRecs

LEMMA EmptyDraft ==
  ASSUME NEW n \in Nat, NEW org \in BOOLEAN, NEW gen \in Nat
  PROVE  emptyDraft(org, gen) \in Drafts(n) /\ emptyDraft(org, gen).eid = 0
  BY WizardConstants DEF emptyDraft, Drafts, DraftRecs, NoTier, TierRecs, TextVals, Lineups

(* What a person, a hydration or a change of organisations does to a draft.*)
LEMMA DraftEdits ==
  ASSUME NEW n \in Nat, NEW d \in Drafts(n)
  PROVE  /\ \A text \in TextVals, rest \in Rests : [d EXCEPT !.text = text, !.rest = rest] \in Drafts(n)
         /\ \A k \in Tiers, val \in 0 .. 2 : [d EXCEPT !.tiers[k].val = val] \in Drafts(n)
         /\ \A r \in Rows : [d EXCEPT !.rows = @ \cup {r}] \in Drafts(n)
         /\ \A c \in Lineups : [d EXCEPT !.crew = c] \in Drafts(n)
         /\ \A org \in BOOLEAN : [d EXCEPT !.org = org] \in Drafts(n)
         /\ \A org \in BOOLEAN, gen \in Nat : [d EXCEPT !.org = org, !.gen = gen] \in Drafts(n)
         /\ \A e \in 1 .. n, gen \in Nat : [d EXCEPT !.eid = e, !.ver = d.ver, !.gen = gen] \in Drafts(n)
<1>1. \A k \in Tiers, val \in 0 .. 2 : [d EXCEPT !.tiers[k].val = val] \in Drafts(n)
  BY DEF Drafts, DraftRecs, TierRecs
<1>2. \A text \in TextVals, rest \in Rests : [d EXCEPT !.text = text, !.rest = rest] \in Drafts(n)
  BY DEF Drafts, DraftRecs
<1>3. \A r \in Rows : [d EXCEPT !.rows = @ \cup {r}] \in Drafts(n)
  BY DEF Drafts, DraftRecs
<1>4. \A c \in Lineups : [d EXCEPT !.crew = c] \in Drafts(n)
  BY DEF Drafts, DraftRecs
<1>5. \A org \in BOOLEAN : [d EXCEPT !.org = org] \in Drafts(n)
  BY DEF Drafts, DraftRecs
<1>6. \A org \in BOOLEAN, gen \in Nat : [d EXCEPT !.org = org, !.gen = gen] \in Drafts(n)
  BY DEF Drafts, DraftRecs
<1>7. ASSUME NEW e \in 1 .. n, NEW gen \in Nat
      PROVE  [d EXCEPT !.eid = e, !.ver = d.ver, !.gen = gen] \in Drafts(n)
  <2> DEFINE c == [d EXCEPT !.eid = e, !.ver = d.ver, !.gen = gen]
  <2>1. d \in DraftRecs(n) /\ d.ver = d.on /\ d.ver \in Nat /\ e \in 0 .. n
    BY DEF Drafts, DraftRecs
  <2>2. c \in DraftRecs(n)
    BY <2>1 DEF DraftRecs
  <2>3. c.ver = c.on
    BY <2>1 DEF DraftRecs
  <2> QED
    BY <2>2, <2>3 DEF Drafts
<1> QED
  BY <1>1, <1>2, <1>3, <1>4, <1>5, <1>6, <1>7, Zenon

(* What the answers of the server do to the draft of a save.               *)
LEMMA DraftAnswers ==
  ASSUME NEW n \in Nat, NEW d \in Drafts(n)
  PROVE  /\ \A e \in 1 .. n : [d EXCEPT !.eid = e, !.ver = 1, !.on = 1] \in Drafts(n)
         /\ [d EXCEPT !.ver = @ + 1, !.on = d.ver + 1] \in Drafts(n)
         /\ \A k \in Tiers, sid \in Nat, ver \in Nat :
              [d EXCEPT !.tiers[k].sid = sid, !.tiers[k].ver = ver] \in Drafts(n)
<1>1. ASSUME NEW k \in Tiers, NEW sid \in Nat, NEW ver \in Nat
      PROVE  [d EXCEPT !.tiers[k].sid = sid, !.tiers[k].ver = ver] \in Drafts(n)
  <2> DEFINE c == [d EXCEPT !.tiers[k].sid = sid]
  <2>1. c \in Drafts(n)
    BY DEF Drafts, DraftRecs, TierRecs
  <2> HIDE DEF c
  <2>2. [c EXCEPT !.tiers[k].ver = ver] \in Drafts(n)
    BY <2>1 DEF Drafts, DraftRecs, TierRecs
  <2> QED
    BY <2>2 DEF c
<1>2. ASSUME NEW e \in 1 .. n
      PROVE  [d EXCEPT !.eid = e, !.ver = 1, !.on = 1] \in Drafts(n)
  <2> DEFINE c == [d EXCEPT !.eid = e, !.ver = 1, !.on = 1]
  <2>1. d \in DraftRecs(n) /\ e \in 0 .. n
    BY DEF Drafts
  <2>2. c \in DraftRecs(n)
    BY <2>1 DEF DraftRecs
  <2>3. c.ver = c.on
    BY <2>1 DEF DraftRecs
  <2> QED
    BY <2>2, <2>3 DEF Drafts
<1>3. [d EXCEPT !.ver = @ + 1, !.on = d.ver + 1] \in Drafts(n)
  <2> DEFINE c == [d EXCEPT !.ver = @ + 1, !.on = d.ver + 1]
  <2>1. d \in DraftRecs(n) /\ d.ver \in Nat /\ d.ver + 1 \in Nat
    BY DEF Drafts, DraftRecs
  <2>2. c \in DraftRecs(n)
    BY <2>1 DEF DraftRecs
  <2>3. c.ver = c.on
    BY <2>1 DEF DraftRecs
  <2> QED
    BY <2>2, <2>3 DEF Drafts
<1> QED
  BY <1>1, <1>2, <1>3, Zenon

(* Two drafts that hold the same work, whatever the server has called it.  *)
Same(c, d) ==
  /\ patchFingerprint(c) = patchFingerprint(d) /\ c.gen = d.gen
  /\ \A k \in Tiers : c.tiers[k].val = d.tiers[k].val

LEMMA AnswersKeepWork ==
  ASSUME NEW n \in Nat, NEW d \in Drafts(n)
  PROVE  /\ \A e \in 1 .. n : Same(d, [d EXCEPT !.eid = e, !.ver = 1, !.on = 1])
         /\ Same(d, [d EXCEPT !.ver = @ + 1, !.on = d.ver + 1])
         /\ \A k \in Tiers, sid \in Nat, ver \in Nat :
              Same(d, [d EXCEPT !.tiers[k].sid = sid, !.tiers[k].ver = ver])
<1>1. ASSUME NEW k \in Tiers, NEW sid \in Nat, NEW ver \in Nat
      PROVE  Same(d, [d EXCEPT !.tiers[k].sid = sid, !.tiers[k].ver = ver])
  <2> DEFINE c == [d EXCEPT !.tiers[k].sid = sid]
             b == [c EXCEPT !.tiers[k].ver = ver]
  <2>1. c \in Drafts(n)
    BY DEF Drafts, DraftRecs, TierRecs
  <2>2. Same(d, c)
    BY DEF Drafts, DraftRecs, TierRecs, Same, patchFingerprint
  <2> HIDE DEF c
  <2>3. Same(c, b)
    BY <2>1 DEF Drafts, DraftRecs, TierRecs, Same, patchFingerprint
  <2>4. b = [d EXCEPT !.tiers[k].sid = sid, !.tiers[k].ver = ver]
    BY DEF c
  <2> HIDE DEF b
  <2>5. Same(d, b)
    BY <2>2, <2>3 DEF Same
  <2> QED
    BY <2>4, <2>5
<1>2. \A e \in 1 .. n : Same(d, [d EXCEPT !.eid = e, !.ver = 1, !.on = 1])
  BY DEF Drafts, DraftRecs, Same, patchFingerprint
<1>3. Same(d, [d EXCEPT !.ver = @ + 1, !.on = d.ver + 1])
  BY DEF Drafts, DraftRecs, Same, patchFingerprint
<1> QED
  BY <1>1, <1>2, <1>3, Zenon

LEMMA TiersOfType ==
  ASSUME ServerOK, NEW e \in DOMAIN events
  PROVE  TiersOf(e) \in [Tiers -> TierRecs]
<1> SUFFICES ASSUME NEW k \in Tiers PROVE TiersOf(e)[k] \in TierRecs
  BY DEF TiersOf
<1> DEFINE ids == {i \in DOMAIN tierRows : tierRows[i].event = e /\ tierRows[i].key = k}
<1>1. CASE ids = {}
  BY <1>1 DEF TiersOf, NoTier, TierRecs
<1>2. CASE ids # {}
  <2>1. Len(tierRows) \in Nat /\ ids \in SUBSET (1 .. Len(tierRows))
    BY DEF ServerOK
  <2> HIDE DEF ids
  <2>2. PICK i \in ids : i = Max(ids)
    BY <1>2, <2>1, MaxIsThere
  <2>3. i \in Nat /\ i \in DOMAIN tierRows /\ tierRows[i] \in TierRows
    BY <2>1, ServerOK, ElementOfSeq DEF ServerOK
  <2>4. TiersOf(e)[k] = [val |-> tierRows[i].val, sid |-> i, ver |-> tierRows[i].ver]
    BY <1>2, <2>2 DEF TiersOf, ids
  <2> QED
    BY <2>3, <2>4 DEF TierRows, TierRecs
<1> QED
  BY <1>1, <1>2

LEMMA ServerDrafts ==
  ASSUME ServerOK, NEW e \in DOMAIN events, owned \in BOOLEAN, NEW gen \in Nat
  PROVE  /\ draftFromEvent(e, gen) \in Drafts(Len(events))
         /\ draftFromEvent(e, gen).eid = e /\ draftFromEvent(e, gen).ver = events[e].ver
         /\ cloneDraftFrom(e, gen) \in Drafts(Len(events))
         /\ cloneDraftFrom(e, gen).eid = 0
<1>1. events[e] \in Events /\ e \in 1 .. Len(events) /\ Len(events) \in Nat
  BY ElementOfSeq DEF ServerOK
<1>2. TiersOf(e) \in [Tiers -> TierRecs]
  BY TiersOfType
<1> DEFINE d == emptyDraft(owned, gen)
<1>3. d \in Drafts(Len(events)) /\ d.eid = 0
  BY <1>1, EmptyDraft
<1>4. /\ draftFromEvent(e, gen) =
           [d EXCEPT !.eid = e, !.ver = events[e].ver, !.on = events[e].ver,
              !.text = events[e].text, !.rest = events[e].rest, !.tiers = TiersOf(e)]
      /\ cloneDraftFrom(e, gen) =
           [d EXCEPT !.ver = 0, !.on = 0, !.text = events[e].text, !.rest = events[e].rest,
              !.crew = events[e].crew]
  BY DEF draftFromEvent, cloneDraftFrom
<1> HIDE DEF d
<1>5. /\ draftFromEvent(e, gen) \in DraftRecs(Len(events))
      /\ draftFromEvent(e, gen).eid = e /\ draftFromEvent(e, gen).ver = events[e].ver
      /\ draftFromEvent(e, gen).on = events[e].ver
  <2>1. d \in DraftRecs(Len(events)) /\ e \in 0 .. Len(events)
    BY <1>1, <1>3 DEF Drafts
  <2> QED
    BY <1>1, <1>2, <1>4, <2>1 DEF Events, DraftRecs
<1>6. /\ cloneDraftFrom(e, gen) \in DraftRecs(Len(events))
      /\ cloneDraftFrom(e, gen).eid = 0
      /\ cloneDraftFrom(e, gen).ver = cloneDraftFrom(e, gen).on
  <2>1. d \in DraftRecs(Len(events))
    BY <1>3 DEF Drafts
  <2>2. events[e].text \in TextVals /\ events[e].rest \in Rests /\ events[e].crew \in Lineups
    BY <1>1 DEF Events
  <2>3. cloneDraftFrom(e, gen) \in DraftRecs(Len(events))
    <3> DEFINE Clone(text, rest, crew) ==
          [d EXCEPT !.ver = 0, !.on = 0, !.text = text, !.rest = rest, !.crew = crew]
    <3>1. \A text \in TextVals, rest \in Rests, crew \in Lineups :
            Clone(text, rest, crew) \in DraftRecs(Len(events))
      BY <2>1 DEF DraftRecs
    <3>2. cloneDraftFrom(e, gen) = Clone(events[e].text, events[e].rest, events[e].crew)
      BY <1>4
    <3> HIDE DEF Clone
    <3> QED
      BY <2>2, <3>1, <3>2
  <2>4. cloneDraftFrom(e, gen).ver = 0 /\ cloneDraftFrom(e, gen).on = 0
    BY <1>4, <2>1 DEF DraftRecs
  <2>5. cloneDraftFrom(e, gen).eid = 0
    BY <1>3, <1>4, <2>1 DEF DraftRecs
  <2> QED
    BY <2>3, <2>4, <2>5
<1> QED
  BY <1>5, <1>6 DEF Drafts

-----------------------------------------------------------------------------
(* The wizards over the first n events.                                    *)

TierMarks == [val : 0 .. 2, ver : Nat]

SavedMaps == UNION {[S -> TierMarks] : S \in SUBSET Nat}

Tolds == Nat \X Nat

LEMMA ToldPairs == ASSUME NEW e \in Nat, NEW ver \in Nat PROVE <<e, ver>> \in Tolds /\ NoTold \in Tolds
  BY DEF Tolds, NoTold

MaybeDrafts(n) == Drafts(n) \cup {NoDraft}

Prints == (TextVals \X Rests) \cup {NoPrint}

Saves(n) ==
  [on : BOOLEAN, draft : MaybeDrafts(n), stage : 0 .. 5, rows : SUBSET Rows,
   landed : SUBSET Rows, crewSynced : BOOLEAN]

Wizards(n) ==
  [mode : {"none", "create", "edit", "clone"}, source : 0 .. n, draft : MaybeDrafts(n),
   past : Seq(Drafts(n)), future : Seq(Drafts(n)), savedEvent : Prints, told : Tolds,
   savedTiers : SavedMaps, st : States, file : BOOLEAN, timer : BOOLEAN, retryTimer : BOOLEAN, retryUsed : BOOLEAN,
   pending : BOOLEAN, save : Saves(n), publishing : {"no", "flushing", "call"},
   submittable : BOOLEAN, pressed : MaybeDrafts(n), touched : BOOLEAN]

(* A save that runs, at or past the first stage.                           *)
Begun(s, n) == s.on /\ s.draft \in Drafts(n)

SaveOK(s, n) ==
  \/ s = Idle
  \/ Begun(s, n) /\ s.stage \in 1 .. 5 /\ (s.stage > 1 => s.draft.eid # 0)

(* An open wizard, in between and when it is shown.                        *)
Loaded(x, n) == x \in Wizards(n) /\ x.mode # "none" /\ x.draft \in Drafts(n)

Fit(x, n) == Loaded(x, n) /\ SaveOK(x.save, n)

LEMMA WizardsGrow ==
  ASSUME NEW m \in Nat, NEW n \in Nat, m =< n
  PROVE  /\ Wizards(m) \subseteq Wizards(n)
         /\ \A s : SaveOK(s, m) => SaveOK(s, n)
         /\ \A x : Loaded(x, m) => Loaded(x, n)
         /\ \A x : Fit(x, m) => Fit(x, n)
<1>1. Drafts(m) \subseteq Drafts(n)
  BY DraftsGrow
<1>2. \A f : f \in Seq(Drafts(m)) => f \in Seq(Drafts(n))
  BY <1>1, SeqMonotonic
<1>3. MaybeDrafts(m) \subseteq MaybeDrafts(n) /\ 0 .. m \subseteq 0 .. n
  BY <1>1 DEF MaybeDrafts
<1>4. Saves(m) \subseteq Saves(n)
  BY <1>3 DEF Saves
<1>5. Wizards(m) \subseteq Wizards(n)
  BY <1>2, <1>3, <1>4 DEF Wizards
<1> QED
  BY <1>1, <1>5 DEF SaveOK, Begun, Loaded, Fit

(* A timer that fires and a connection that comes back touch only their    *)
(* own field of the wizard.                                                *)
Fired(x) == {[x EXCEPT !.timer = FALSE], [x EXCEPT !.retryTimer = FALSE]}

Woken(x) == [x EXCEPT !.st = IF @ = "offline" THEN "dirty" ELSE @]

LEMMA FieldsTouched ==
  ASSUME NEW n, NEW x, Fit(x, n)
  PROVE  /\ \A y \in Fired(x) : /\ Fit(y, n) /\ y.save = x.save /\ y.pending = x.pending
                               /\ y.st = x.st /\ y.draft = x.draft
         /\ Fit(Woken(x), n) /\ Woken(x).save = x.save /\ Woken(x).pending = x.pending
         /\ Woken(x).draft = x.draft /\ (Woken(x).st = x.st \/ Woken(x).st # "saved")
<1>1. x \in Wizards(n) /\ x.mode # "none" /\ x.draft \in Drafts(n) /\ SaveOK(x.save, n)
  BY DEF Fit, Loaded
<1>2. ASSUME NEW y, y = [x EXCEPT !.timer = FALSE] \/ y = [x EXCEPT !.retryTimer = FALSE]
      PROVE  /\ y \in Wizards(n) /\ y.mode = x.mode /\ y.draft = x.draft /\ y.save = x.save
             /\ y.pending = x.pending /\ y.st = x.st
  <2>1. CASE y = [x EXCEPT !.timer = FALSE]
    BY ONLY <1>1, <2>1 DEF Wizards
  <2>2. CASE y = [x EXCEPT !.retryTimer = FALSE]
    BY ONLY <1>1, <2>2 DEF Wizards
  <2> QED
    BY <1>2, <2>1, <2>2
<1>3. PICK st \in States : (st = x.st \/ st # "saved") /\ st = IF x.st = "offline" THEN "dirty" ELSE x.st
  BY ONLY <1>1 DEF Wizards, States
<1>4. PICK z : z = Woken(x)
  OBVIOUS
<1>5. z = [x EXCEPT !.st = st]
  BY <1>3, <1>4 DEF Woken
<1>6. /\ z \in Wizards(n) /\ z.mode = x.mode /\ z.draft = x.draft /\ z.save = x.save
      /\ z.pending = x.pending /\ z.st = st
  BY ONLY <1>1, <1>3, <1>5 DEF Wizards
<1>7. Fit(z, n)
  BY <1>1, <1>6 DEF Fit, Loaded
<1>8. ASSUME NEW y \in Fired(x)
      PROVE  /\ Fit(y, n) /\ y.save = x.save /\ y.pending = x.pending
             /\ y.st = x.st /\ y.draft = x.draft
  <2>1. /\ y \in Wizards(n) /\ y.mode = x.mode /\ y.draft = x.draft /\ y.save = x.save
        /\ y.pending = x.pending /\ y.st = x.st
    BY <1>2, <1>8 DEF Fired
  <2> QED
    BY <1>1, <2>1 DEF Fit, Loaded
<1> QED
  BY <1>3, <1>4, <1>6, <1>7, <1>8

LEMMA SavedMapsGrow ==
  ASSUME NEW f \in SavedMaps, NEW sid \in Nat, NEW mark \in TierMarks
  PROVE  Put(f, sid, mark) \in SavedMaps
<1>1. PICK S \in SUBSET Nat : f \in [S -> TierMarks]
  BY DEF SavedMaps
<1>2. Put(f, sid, mark) \in [S \cup {sid} -> TierMarks]
  BY <1>1 DEF Put
<1>3. S \cup {sid} \in SUBSET Nat
  OBVIOUS
<1> QED
  BY <1>2, <1>3 DEF SavedMaps

LEMMA ClosedType == ASSUME NEW n \in Nat PROVE Closed \in Wizards(n) /\ Closed.mode = "none"
<1>1. <<>> \in Seq(Drafts(n))
  BY EmptySeq
<1>2. <<>> \in SavedMaps
  <2>1. <<>> \in [{} -> TierMarks]
    OBVIOUS
  <2> QED
    BY <2>1 DEF SavedMaps
<1>3. Idle \in Saves(n)
  BY DEF Idle, Saves, MaybeDrafts
<1>4. NoTold \in Tolds
  BY DEF NoTold, Tolds
<1> QED
  BY <1>1, <1>2, <1>3, <1>4 DEF Closed, Wizards, MaybeDrafts, Prints, States

(* The undo history is cut at its limit.                                   *)
LEMMA KeptType ==
  ASSUME NEW S, NEW past \in Seq(S)
  PROVE  Kept(past) \in Seq(S)
<1> DEFINE a == Len(past) - HISTORY_LIMIT + 1
<1>1. a \in Int /\ Len(past) \in Nat
  BY WizardConstants
<1>2. PICK m \in {1, a} : m = Max({1, a})
  <2>1. \E x \in {1, a} : \A y \in {1, a} : x >= y
    BY <1>1
  <2> QED
    BY <2>1 DEF Max
<1>3. m >= 1 /\ m \in Int
  <2>1. \A y \in {1, a} : m >= y
    <3>1. \E x \in {1, a} : \A y \in {1, a} : x >= y
      BY <1>1
    <3> QED
      BY <1>2, <3>1 DEF Max
  <2> QED
    BY <1>1, <1>2, <2>1
<1>4. \A i \in m .. Len(past) : past[i] \in S
  BY <1>1, <1>3, ElementOfSeq
<1>5. Kept(past) = SubSeq(past, m, Len(past))
  BY <1>2 DEF Kept
<1> QED
  BY <1>1, <1>3, <1>4, <1>5, SubSeqProperties

LEMMA CommitType ==
  ASSUME NEW n \in Nat, NEW x, Loaded(x, n), NEW next \in Drafts(n)
  PROVE  /\ commit(x, next) \in Wizards(n)
         /\ commit(x, next).mode = x.mode /\ commit(x, next).draft = next
         /\ commit(x, next).save = x.save
<1> PICK q : q = Append(Kept(x.past), x.draft)
  OBVIOUS
<1>1. q \in Seq(Drafts(n)) /\ <<>> \in Seq(Drafts(n))
  <2>1. x.past \in Seq(Drafts(n)) /\ x.draft \in Drafts(n)
    BY DEF Loaded, Wizards
  <2> QED
    BY <2>1, KeptType, EmptySeq
<1> DEFINE Made(p) == [x EXCEPT !.past = p, !.future = <<>>, !.draft = next]
<1>2. x \in Wizards(n) /\ next \in MaybeDrafts(n)
  BY DEF Loaded, MaybeDrafts
<1>3. commit(x, next) = Made(q)
  BY DEF commit
<1>4. \A p \in Seq(Drafts(n)) :
        Made(p) \in Wizards(n) /\ Made(p).mode = x.mode /\ Made(p).draft = next /\ Made(p).save = x.save
  BY <1>1, <1>2 DEF Wizards
<1> HIDE DEF Made
<1>5. Made(q) \in Wizards(n) /\ Made(q).mode = x.mode /\ Made(q).draft = next /\ Made(q).save = x.save
  BY <1>1, <1>4
<1> QED
  BY <1>3, <1>5

LEMMA UpdateType ==
  ASSUME NEW n \in Nat, NEW x, Fit(x, n), NEW next \in Drafts(n)
  PROVE  Fit(update(x, next), n)
<1> DEFINE y == commit(x, next)
<1>1. y \in Wizards(n) /\ y.mode # "none" /\ y.draft \in Drafts(n) /\ y.save = x.save
  BY CommitType DEF Fit, Loaded
<1>2. update(x, next) = [[y EXCEPT !.st = IF @ = "offline" THEN @ ELSE "dirty"]
                           EXCEPT !.timer = TRUE, !.touched = TRUE]
  BY DEF update, schedule, Dirty
<1> HIDE DEF y
<1> DEFINE z == [y EXCEPT !.st = IF @ = "offline" THEN @ ELSE "dirty"]
<1>3. z \in Wizards(n) /\ z.mode = y.mode /\ z.draft = y.draft /\ z.save = y.save
  BY <1>1 DEF Wizards, States
<1> HIDE DEF z
<1>4. [z EXCEPT !.timer = TRUE, !.touched = TRUE] \in Wizards(n)
  BY <1>3 DEF Wizards
<1>5. update(x, next) = [z EXCEPT !.timer = TRUE, !.touched = TRUE]
  BY <1>2 DEF z
<1> QED
  BY <1>1, <1>3, <1>4, <1>5 DEF Fit, Loaded, Wizards

LEMMA FinishType ==
  ASSUME NEW n \in Nat, NEW x, Loaded(x, n)
  PROVE  /\ Fit(Finish(x), n)
         /\ Finish(x).draft = x.draft /\ Finish(x).st = x.st /\ Finish(x).mode = x.mode
         /\ Finish(x).save = Idle
<1> DEFINE y == [x EXCEPT !.save = Idle, !.pending = FALSE,
                          !.publishing = IF @ = "flushing" THEN "call" ELSE @]
           z == [y EXCEPT !.timer = TRUE, !.touched = TRUE]
<1>1. Idle \in Saves(n)
  BY DEF Idle, Saves, MaybeDrafts
<1>2. /\ y \in Wizards(n) /\ y.draft = x.draft /\ y.st = x.st /\ y.mode = x.mode /\ y.save = Idle
  BY <1>1 DEF Loaded, Wizards
<1>3. Finish(x) = IF x.pending THEN z ELSE y
  BY DEF Finish, schedule
<1> HIDE DEF y
<1>4. z \in Wizards(n) /\ z.draft = x.draft /\ z.st = x.st /\ z.mode = x.mode /\ z.save = Idle
  BY <1>2 DEF Wizards
<1> HIDE DEF z
<1> QED
  BY <1>2, <1>3, <1>4 DEF Fit, Loaded, SaveOK

LEMMA MergedTierType ==
  ASSUME NEW n \in Nat, NEW x, x.draft \in Drafts(n), x.save.draft \in Drafts(n), NEW k \in Tiers
  PROVE  /\ MergedTier(x, k) \in TierRecs
         /\ MergedTier(x, k).val = x.draft.tiers[k].val
         /\ x.draft.gen = x.save.draft.gen => MergedTier(x, k).sid = x.save.draft.tiers[k].sid
<1>1. x.draft.tiers[k] \in TierRecs /\ x.save.draft.tiers[k] \in TierRecs
  BY DEF Drafts, DraftRecs
<1> QED
  BY <1>1 DEF MergedTier, TierRecs

LEMMA MergedType ==
  ASSUME NEW n \in Nat, NEW x, Loaded(x, n), Begun(x.save, n)
  PROVE  /\ Merged(x) \in Drafts(n)
         /\ Merged(x).text = x.draft.text /\ Merged(x).rest = x.draft.rest
         /\ Merged(x).eid = x.save.draft.eid
         /\ Merged(x).rows = x.draft.rows \ (IF x.draft.gen = x.save.draft.gen THEN x.save.landed ELSE {})
         /\ \A k \in Tiers : Merged(x).tiers[k] = MergedTier(x, k)
<1>1. x.draft \in DraftRecs(n) /\ x.save.draft \in DraftRecs(n) /\ x.save.draft.ver = x.save.draft.on
  BY DEF Loaded, Begun, Drafts
<1> PICK ts : ts = [k \in Tiers |-> MergedTier(x, k)]
  OBVIOUS
<1>2. ts \in [Tiers -> TierRecs]
  BY MergedTierType DEF Loaded, Begun
<1> PICK rs : rs = x.draft.rows \ (IF x.draft.gen = x.save.draft.gen THEN x.save.landed ELSE {})
  OBVIOUS
<1>3. rs \in SUBSET Rows
  BY <1>1 DEF DraftRecs
<1> PICK c : c = IF x.save.crewSynced THEN 0 ELSE x.draft.crew
  OBVIOUS
<1>4. c \in Lineups
  BY <1>1 DEF DraftRecs, Lineups
<1> DEFINE Made(d, eid, ver, on, t, r, l) ==
      [d EXCEPT !.eid = eid, !.ver = ver, !.on = on, !.tiers = t, !.rows = r, !.crew = l]
<1>5. Merged(x) = Made(x.draft, x.save.draft.eid, x.save.draft.ver, x.save.draft.on, ts, rs, c)
  BY DEF Merged
<1>6. ASSUME NEW d \in DraftRecs(n), NEW eid \in 0 .. n, NEW ver \in Nat,
             NEW t \in [Tiers -> TierRecs], NEW r \in SUBSET Rows, NEW l \in Lineups
      PROVE  /\ Made(d, eid, ver, ver, t, r, l) \in DraftRecs(n)
             /\ Made(d, eid, ver, ver, t, r, l).text = d.text
             /\ Made(d, eid, ver, ver, t, r, l).rest = d.rest
             /\ Made(d, eid, ver, ver, t, r, l).eid = eid
             /\ Made(d, eid, ver, ver, t, r, l).ver = Made(d, eid, ver, ver, t, r, l).on
             /\ Made(d, eid, ver, ver, t, r, l).rows = r
             /\ Made(d, eid, ver, ver, t, r, l).tiers = t
  BY DEF DraftRecs
<1> HIDE DEF Made
<1>7. x.save.draft.eid \in 0 .. n /\ x.save.draft.ver \in Nat
  BY <1>1 DEF DraftRecs
<1>8. /\ Merged(x) \in DraftRecs(n) /\ Merged(x).ver = Merged(x).on
      /\ Merged(x).text = x.draft.text /\ Merged(x).rest = x.draft.rest
      /\ Merged(x).eid = x.save.draft.eid /\ Merged(x).rows = rs /\ Merged(x).tiers = ts
  BY <1>1, <1>2, <1>3, <1>4, <1>5, <1>6, <1>7
<1> QED
  BY <1>8 DEF Drafts

LEMMA SucceedType ==
  ASSUME NEW n \in Nat, NEW x, Loaded(x, n), Begun(x.save, n)
  PROVE  Fit(Succeed(x), n)
<1> PICK d : d = Merged(x)
  OBVIOUS
<1>1. d \in Drafts(n) /\ d \in MaybeDrafts(n) /\ x \in Wizards(n) /\ x.mode # "none"
  BY MergedType DEF Loaded, MaybeDrafts
<1> DEFINE y == [x EXCEPT !.draft = d, !.retryUsed = FALSE,
                          !.st = IF x.pending THEN "dirty" ELSE "saved"]
<1>2. Loaded(y, n)
  BY <1>1 DEF Loaded, Wizards, States
<1>3. Succeed(x) = Finish(y)
  BY DEF Succeed
<1> HIDE DEF y
<1> QED
  BY <1>2, <1>3, FinishType

LEMMA FailType ==
  ASSUME NEW n \in Nat, NEW x, Loaded(x, n), NEW networkish \in BOOLEAN
  PROVE  Fit(Fail(x, networkish), n)
<1>1. PICK s \in States : s = IF networkish THEN "offline" ELSE "error"
  BY DEF States
<1>2. PICK a \in BOOLEAN : a = (x.retryTimer \/ (networkish /\ ~x.retryUsed))
  OBVIOUS
<1>3. PICK b \in BOOLEAN : b = (x.retryUsed \/ networkish)
  OBVIOUS
<1> DEFINE y == [x EXCEPT !.st = s, !.retryTimer = a, !.retryUsed = b]
<1>4. Loaded(y, n)
  BY DEF Loaded, Wizards
<1>5. Fail(x, networkish) = Finish(y)
  BY <1>1, <1>2, <1>3 DEF Fail
<1> HIDE DEF y
<1> QED
  BY <1>4, <1>5, FinishType

LEMMA AfterType ==
  ASSUME NEW n \in Nat, NEW x, Loaded(x, n), Begun(x.save, n), NEW i \in 0 .. 4,
         i >= 1 => x.save.draft.eid # 0
  PROVE  Fit(After(x, i), n)
<1> DEFINE left == {j \in i + 1 .. 5 : HasWork(x, j)}
<1>1. CASE left = {}
  BY <1>1, SucceedType DEF After
<1>2. CASE left # {}
  <2>1. left \in SUBSET (1 .. 5) /\ (x.save.draft.eid = 0 => 1 \in left)
    <3>1. left \in SUBSET (1 .. 5)
      OBVIOUS
    <3>2. ASSUME x.save.draft.eid = 0 PROVE 1 \in left
      <4>1. i = 0
        BY <3>2
      <4>2. HasWork(x, 1)
        BY <3>2 DEF HasWork
      <4> QED
        BY <4>1, <4>2
    <3> QED
      BY <3>1, <3>2
  <2>2. PICK m \in left : m = Min(left) /\ \A j \in left : m =< j
    BY <1>2, <2>1, MinIsThere
  <2>3. m \in 1 .. 5 /\ (m > 1 => x.save.draft.eid # 0)
    BY <2>1, <2>2
  <2>4. After(x, i) = [x EXCEPT !.save.stage = m]
    BY <1>2, <2>2 DEF After
  <2> HIDE DEF left
  <2>5. x.save \in Saves(n) /\ x \in Wizards(n)
    BY DEF Loaded, Wizards
  <2> PICK s : s = [x.save EXCEPT !.stage = m]
    OBVIOUS
  <2>6. s \in Saves(n) /\ s.on = x.save.on /\ s.draft = x.save.draft /\ s.stage = m
    BY <2>3, <2>5 DEF Saves
  <2> DEFINE y == [x EXCEPT !.save = s]
  <2>7. y \in Wizards(n) /\ y.mode = x.mode /\ y.draft = x.draft /\ y.save = s
    BY <2>5, <2>6 DEF Wizards
  <2>8. After(x, i) = y
    BY <2>4
  <2> HIDE DEF y
  <2> QED
    BY <2>3, <2>6, <2>7, <2>8 DEF Fit, Loaded, SaveOK, Begun
<1> QED
  BY <1>1, <1>2

LEMMA FlushType ==
  ASSUME NEW n \in Nat, NEW x, Fit(x, n), NEW connected
  PROVE  Fit(flush(x, connected), n)
<1>1. x \in Wizards(n) /\ x.save \in Saves(n) /\ x.draft \in Drafts(n) /\ Loaded(x, n)
  BY DEF Fit, Loaded, Wizards
<1>2. Fit([x EXCEPT !.st = "offline"], n)
  BY <1>1 DEF Fit, Loaded, Wizards, States
<1>3. Fit([x EXCEPT !.pending = TRUE], n)
  BY <1>1 DEF Fit, Loaded, Wizards
<1>4. Fit([x EXCEPT !.st = "local"], n)
  BY <1>1 DEF Fit, Loaded, Wizards, States
<1> PICK s : s = [on |-> TRUE, draft |-> x.draft, stage |-> 0, rows |-> x.draft.rows,
                  landed |-> {}, crewSynced |-> FALSE]
  OBVIOUS
<1>5. s \in Saves(n) /\ Begun(s, n)
  BY <1>1 DEF Saves, Begun, MaybeDrafts, Drafts, DraftRecs
<1> DEFINE y == [x EXCEPT !.st = "saving", !.save = s]
<1>6. Loaded(y, n) /\ y.save = s
  BY <1>1, <1>5 DEF Loaded, Wizards, States
<1>7. flush(x, connected) =
        IF ~connected THEN [x EXCEPT !.st = "offline"]
        ELSE IF x.save.on THEN [x EXCEPT !.pending = TRUE]
        ELSE IF ~canCreate(x.draft) THEN [x EXCEPT !.st = "local"]
        ELSE After(y, 0)
  BY DEF flush
<1> HIDE DEF y
<1>8. Fit(After(y, 0), n)
  BY <1>5, <1>6, AfterType
<1> QED
  BY <1>2, <1>3, <1>4, <1>7, <1>8

-----------------------------------------------------------------------------
(* The invariant of the first part: what is in memory, in localStorage and *)
(* on the server fits together.                                            *)

StoreFits(s, n) == DOMAIN s \subseteq Nat /\ \A key \in DOMAIN s : s[key] \in Drafts(n)

InStore(x, s) == draftStorageKey(x) \in DOMAIN s /\ s[draftStorageKey(x)] = x.draft

ShapeInv ==
  /\ ServerOK
  /\ w = Closed \/ (Fit(w, Len(events)) /\ InStore(w, stored))
  /\ StoreFits(stored, Len(events))
  /\ online \in BOOLEAN /\ owned \in BOOLEAN /\ tabs \in Nat

(* What the server keeps when it changes.                                  *)
Grows ==
  /\ ServerOK'
  /\ Len(events) =< Len(events')
  /\ \A e \in DOMAIN events : events[e].rows \subseteq events'[e].rows

LEMMA NothingGrows == ASSUME ServerOK, UNCHANGED <<events, tierRows>> PROVE Grows
<1>1. Len(events) \in Nat
  BY DEF ServerOK
<1> QED
  BY <1>1 DEF Grows, ServerOK

LEMMA StoreGrows ==
  ASSUME NEW m \in Nat, NEW n \in Nat, m =< n, NEW s, StoreFits(s, m)
  PROVE  StoreFits(s, n)
  BY DraftsGrow DEF StoreFits

LEMMA OpenIsFit ==
  ASSUME ShapeInv, Open
  PROVE  Fit(w, Len(events)) /\ Loaded(w, Len(events)) /\ Len(events) \in Nat /\ InStore(w, stored)
  BY DEF ShapeInv, Open, Closed, Fit, ServerOK

(* Every step that shows a wizard, or leaves it as it is.                  *)
LEMMA ShowType ==
  ASSUME ShapeInv, Grows, NEW x, Show(x), Fit(x, Len(events')),
         online' \in BOOLEAN, owned' \in BOOLEAN, tabs' \in Nat
  PROVE  ShapeInv'
<1>1. PICK m \in Nat : m = Len(events)
  BY DEF ShapeInv, ServerOK
<1>2. PICK n \in Nat : n = Len(events') /\ m =< n
  BY <1>1 DEF Grows, ServerOK
<1>3. PICK key \in Nat : key = draftStorageKey(x)
  BY <1>2 DEF Fit, Loaded, Wizards, draftStorageKey
<1>4. w' = x /\ stored' = Put(stored, key, x.draft)
  BY <1>3 DEF Show, Persist
<1>5. StoreFits(stored, n)
  BY <1>1, <1>2, StoreGrows DEF ShapeInv
<1>6. x.draft \in Drafts(n)
  BY <1>2 DEF Fit, Loaded
<1>7. StoreFits(stored', n)
  BY <1>4, <1>5, <1>6 DEF StoreFits, Put
<1>8. key \in DOMAIN stored' /\ stored'[key] = x.draft
  BY <1>4 DEF Put
<1>9. InStore(x, stored')
  BY <1>3, <1>8 DEF InStore
<1>10. InStore(w, stored)'
  BY <1>4, <1>9 DEF InStore, draftStorageKey
<1>11. Fit(w, Len(events))'
  BY <1>4 DEF Fit, Loaded
<1>12. StoreFits(stored, Len(events))'
  BY <1>2, <1>7 DEF StoreFits
<1> QED
  BY <1>10, <1>11, <1>12 DEF ShapeInv, Grows

LEMMA KeepType ==
  ASSUME ShapeInv, Grows, UNCHANGED <<w, stored>>,
         online' \in BOOLEAN, owned' \in BOOLEAN, tabs' \in Nat
  PROVE  ShapeInv'
<1>1. PICK m \in Nat : m = Len(events)
  BY DEF ShapeInv, ServerOK
<1>2. PICK n \in Nat : n = Len(events') /\ m =< n
  BY <1>1 DEF Grows, ServerOK
<1>3. StoreFits(stored, n)
  BY <1>1, <1>2, StoreGrows DEF ShapeInv
<1>4. Fit(w, m) => Fit(w, n)
  BY <1>1, <1>2, WizardsGrow
<1>5. w = Closed \/ (Fit(w, n) /\ InStore(w, stored))
  BY <1>1, <1>4 DEF ShapeInv
<1>6. (w = Closed \/ (Fit(w, Len(events)) /\ InStore(w, stored)))'
  BY <1>2, <1>5 DEF Fit, Loaded, InStore, draftStorageKey, Closed
<1>7. StoreFits(stored, Len(events))'
  BY <1>2, <1>3 DEF StoreFits
<1> QED
  BY <1>6, <1>7 DEF ShapeInv, Grows

LEMMA ShapeInit == Init => ShapeInv
<1> SUFFICES ASSUME Init PROVE ShapeInv
  OBVIOUS
<1>1. PICK text \in Texts : events = <<[text |-> text, rest |-> 0, ver |-> 1, rows |-> {},
                                       crew |-> 0, live |-> FALSE]>>
  BY WizardConstants DEF Init
<1>2. events[1] \in Events /\ events \in Seq(Events)
  BY <1>1, WizardConstants DEF Events, TextVals, Lineups
<1>3. tierRows \in Seq(TierRows)
  BY EmptySeq DEF Init
<1>4. StoreFits(stored, Len(events))
  BY DEF Init, StoreFits
<1> QED
  BY <1>2, <1>3, <1>4 DEF Init, ShapeInv, ServerOK

-----------------------------------------------------------------------------
(* The requests of a save.                                                 *)

LEMMA SavingNow ==
  ASSUME ShapeInv, w.save.on
  PROVE  /\ Open /\ Loaded(w, Len(events)) /\ Begun(w.save, Len(events)) /\ Len(events) \in Nat
         /\ w \in Wizards(Len(events)) /\ w.save \in Saves(Len(events))
         /\ SaveOK(w.save, Len(events)) /\ w.save # Idle
<1>1. w # Closed /\ w.save # Idle
  BY DEF Closed, Idle
<1>2. Fit(w, Len(events)) /\ Len(events) \in Nat
  BY <1>1 DEF ShapeInv, ServerOK
<1> QED
  BY <1>1, <1>2 DEF Fit, Loaded, SaveOK, Open, Wizards

(* The fields that an answer of the save leaves alone.                     *)
LeftAlone(y) ==
  /\ y.mode = w.mode /\ y.draft = w.draft /\ y.st = w.st /\ y.timer = w.timer
  /\ y.pending = w.pending /\ y.touched = w.touched

LEMMA SavedDraft ==
  ASSUME NEW n \in Nat, Loaded(w, n), Begun(w.save, n), NEW d \in Drafts(n), NEW z, z = Saving(d)
  PROVE  /\ Loaded(z, n) /\ Begun(z.save, n) /\ z.save.draft = d /\ z.save.landed = w.save.landed
         /\ LeftAlone(z) /\ z.savedEvent = w.savedEvent
         /\ z.told = w.told /\ z.savedTiers = w.savedTiers
<1>1. w \in Wizards(n) /\ w.save \in Saves(n) /\ w.save.on /\ d \in MaybeDrafts(n)
  BY DEF Loaded, Wizards, Begun, MaybeDrafts
<1> DEFINE c == [w.save EXCEPT !.draft = d]
<1>2. c \in Saves(n) /\ c.on /\ c.draft = d /\ c.landed = w.save.landed
  BY <1>1 DEF Saves
<1>3. z = [w EXCEPT !.save = c]
  BY DEF Saving
<1> HIDE DEF c
<1>4. z \in Wizards(n) /\ z.save = c
  BY <1>1, <1>2, <1>3 DEF Wizards
<1>5. /\ LeftAlone(z) /\ z.savedEvent = w.savedEvent
      /\ z.told = w.told /\ z.savedTiers = w.savedTiers
  BY <1>1, <1>3 DEF Wizards, LeftAlone
<1> QED
  BY <1>1, <1>2, <1>4, <1>5 DEF Loaded, Begun, LeftAlone

LEMMA PrintType ==
  ASSUME NEW n \in Nat, NEW d \in Drafts(n)
  PROVE  patchFingerprint(d) \in Prints
  BY DEF Drafts, DraftRecs, Prints, patchFingerprint

LEMMA EventsKept ==
  ASSUME ServerOK, UNCHANGED tierRows, NEW e \in DOMAIN events, NEW row \in Events,
         events[e].rows \subseteq row.rows, events' = [events EXCEPT ![e] = row]
  PROVE  Grows /\ Len(events') = Len(events)
  BY DEF ServerOK, Grows

(* A save past its first stage has an event.                               *)
LEMMA SaveHasEvent ==
  ASSUME ShapeInv, w.save.on, w.save.draft.eid # 0
  PROVE  /\ w.save.draft.eid \in DOMAIN events
         /\ events[w.save.draft.eid] \in Events
         /\ w.save.draft \in Drafts(Len(events))
<1>1. w.save.draft \in Drafts(Len(events)) /\ Len(events) \in Nat
  BY SavingNow DEF Begun
<1>2. w.save.draft.eid \in 1 .. Len(events)
  BY <1>1 DEF Drafts, DraftRecs
<1>3. events \in Seq(Events)
  BY DEF ShapeInv, ServerOK
<1> QED
  BY <1>1, <1>2, <1>3, ElementOfSeq

(* y is the wizard w when the running save has got an answer, with these   *)
(* rows on the event so far.                                               *)
Answered(y, n, landed) ==
  /\ Loaded(y, n) /\ Begun(y.save, n) /\ y.save.draft.eid # 0
  /\ LeftAlone(y) /\ Same(w.save.draft, y.save.draft)
  /\ y.save.landed = landed /\ w.save.draft.eid \in {0, y.save.draft.eid}
  /\ \/ y.savedEvent = patchFingerprint(y.save.draft)
     \/ w.save.stage > 1 /\ y.savedEvent = w.savedEvent

(* What a wizard knows of the server.                                      *)
Recalls(y, told, print, tiers) == y.told = told /\ y.savedEvent = print /\ y.savedTiers = tiers

LEMMA CreateAnswer ==
  ASSUME ShapeInv, w.save.on, w.save.draft.eid = 0, NEW n \in Nat, n = Len(events) + 1,
         NEW c, c = [w.save.draft EXCEPT !.eid = n, !.ver = 1, !.on = 1],
         NEW told \in Tolds,
         NEW y, y = [Saving(c) EXCEPT !.savedEvent = patchFingerprint(c), !.told = told]
  PROVE  /\ Answered(y, n, w.save.landed) /\ y.save.draft.eid = n
         /\ Recalls(y, told, patchFingerprint(w.save.draft), w.savedTiers)
<1>1. PICK m \in Nat : m = Len(events) /\ m =< n /\ n \in 1 .. n
  BY DEF ShapeInv, ServerOK
<1>2. Loaded(w, n) /\ Begun(w.save, n) /\ w.save.draft \in Drafts(n)
  <2>1. Loaded(w, m) /\ Begun(w.save, m)
    BY <1>1, SavingNow
  <2> QED
    BY <1>1, <2>1, DraftsGrow, WizardsGrow DEF Begun
<1>3. c \in Drafts(n) /\ Same(w.save.draft, c)
  BY <1>1, <1>2, DraftAnswers, AnswersKeepWork, Zenon
<1>4. c.eid = n /\ c.eid # 0
  BY <1>1, <1>2 DEF Drafts, DraftRecs
<1>5. PICK z : z = Saving(c)
  OBVIOUS
<1>6. PICK p \in Prints : p = patchFingerprint(c)
  BY <1>3, PrintType
<1>7. /\ Loaded(z, n) /\ Begun(z.save, n) /\ z.save.draft = c /\ z.save.landed = w.save.landed
      /\ LeftAlone(z) /\ z.savedTiers = w.savedTiers
  BY <1>2, <1>3, <1>5, SavedDraft
<1>8. y = [z EXCEPT !.savedEvent = p, !.told = told]
  BY <1>5, <1>6
<1>9. /\ Loaded(y, n) /\ y.save = z.save /\ LeftAlone(y) /\ y.savedEvent = p
      /\ y.told = told /\ y.savedTiers = z.savedTiers
  <2>1. z \in Wizards(n) /\ p \in Prints /\ told \in Tolds
    BY <1>6, <1>7 DEF Loaded
  <2>2. /\ y \in Wizards(n) /\ y.save = z.save /\ y.savedEvent = p
        /\ y.told = told /\ y.savedTiers = z.savedTiers
    BY ONLY <1>8, <2>1 DEF Wizards
  <2>3. /\ y.mode = z.mode /\ y.draft = z.draft /\ y.st = z.st /\ y.timer = z.timer
        /\ y.pending = z.pending /\ y.touched = z.touched
    BY ONLY <1>8, <2>1 DEF Wizards
  <2> QED
    BY <1>7, <2>2, <2>3 DEF Loaded, LeftAlone
<1>10. /\ Begun(y.save, n) /\ y.save.draft.eid # 0 /\ Same(w.save.draft, y.save.draft)
       /\ y.save.landed = w.save.landed
  <2>1. Begun(y.save, n) /\ y.save.draft = c
    BY <1>7, <1>9, Zenon
  <2>2. y.save.landed = w.save.landed
    BY <1>7, <1>9, Zenon
  <2>3. y.save.draft.eid # 0 /\ Same(w.save.draft, y.save.draft)
    BY <1>3, <1>4, <2>1, Zenon
  <2> QED
    BY <2>1, <2>2, <2>3
<1>11. w.save.draft.eid \in {0, y.save.draft.eid}
  OBVIOUS
<1>12. y.savedEvent = patchFingerprint(y.save.draft)
  BY <1>6, <1>7, <1>9
<1> QED
  <2>1. \/ y.savedEvent = patchFingerprint(y.save.draft)
        \/ w.save.stage > 1 /\ y.savedEvent = w.savedEvent
    BY ONLY <1>12
  <2>2. Answered(y, n, w.save.landed)
    BY ONLY <1>9, <1>10, <1>11, <2>1 DEF Answered
  <2>3. p = patchFingerprint(w.save.draft)
    BY <1>3, <1>6 DEF Same
  <2> QED
    BY <1>4, <1>7, <1>9, <2>2, <2>3 DEF Recalls

LEMMA UpdateAnswer ==
  ASSUME ShapeInv, w.save.on, w.save.draft.eid # 0, NEW n \in Nat, n = Len(events),
         NEW c, c = [w.save.draft EXCEPT !.ver = @ + 1, !.on = w.save.draft.ver + 1],
         NEW told \in Tolds,
         NEW y, y = [Saving(c) EXCEPT !.savedEvent = patchFingerprint(w.save.draft), !.told = told]
  PROVE  /\ Answered(y, n, w.save.landed) /\ y.save.draft.eid = w.save.draft.eid
         /\ Recalls(y, told, patchFingerprint(w.save.draft), w.savedTiers)
<1>1. Loaded(w, n) /\ Begun(w.save, n) /\ w.save.draft \in Drafts(n)
  BY SavingNow DEF Begun
<1>2. c \in Drafts(n) /\ Same(w.save.draft, c)
  BY <1>1, DraftAnswers, AnswersKeepWork, Zenon
<1>3. c.eid = w.save.draft.eid
  BY <1>1 DEF Drafts, DraftRecs
<1>4. PICK z : z = Saving(c)
  OBVIOUS
<1>5. PICK p \in Prints : p = patchFingerprint(w.save.draft)
  BY <1>1, PrintType
<1>6. /\ Loaded(z, n) /\ Begun(z.save, n) /\ z.save.draft = c /\ z.save.landed = w.save.landed
      /\ LeftAlone(z) /\ z.savedTiers = w.savedTiers
  BY <1>1, <1>2, <1>4, SavedDraft
<1>7. y = [z EXCEPT !.savedEvent = p, !.told = told]
  BY <1>4, <1>5
<1>8. /\ Loaded(y, n) /\ y.save = z.save /\ LeftAlone(y) /\ y.savedEvent = p
      /\ y.told = told /\ y.savedTiers = z.savedTiers
  <2>1. z \in Wizards(n) /\ z.mode # "none" /\ z.draft \in Drafts(n)
    BY <1>6 DEF Loaded
  <2>2. y \in Wizards(n)
    BY ONLY told \in Tolds, p \in Prints, <1>7, <2>1 DEF Wizards
  <2>3. /\ y.mode = z.mode /\ y.draft = z.draft /\ y.st = z.st /\ y.timer = z.timer
        /\ y.pending = z.pending /\ y.touched = z.touched
        /\ y.save = z.save /\ y.savedEvent = p /\ y.told = told /\ y.savedTiers = z.savedTiers
    BY ONLY <1>7, <2>1 DEF Wizards
  <2> QED
    BY <1>6, <2>1, <2>2, <2>3 DEF Loaded, LeftAlone
<1>9. p = patchFingerprint(c)
  BY <1>2, <1>5 DEF Same
<1> QED
  BY <1>2, <1>3, <1>5, <1>6, <1>8, <1>9 DEF Answered, Recalls

LEMMA PosterAnswer ==
  ASSUME ShapeInv, w.save.on, w.save.stage = 2, NEW n \in Nat, n = Len(events),
         NEW c, c = [w.save.draft EXCEPT !.ver = @ + 1, !.on = w.save.draft.ver + 1],
         NEW told \in Tolds,
         NEW y, y = [Saving(c) EXCEPT !.file = FALSE, !.told = told]
  PROVE  /\ Answered(y, n, w.save.landed) /\ y.save.draft.eid = w.save.draft.eid
         /\ Recalls(y, told, w.savedEvent, w.savedTiers)
<1>1. Loaded(w, n) /\ Begun(w.save, n) /\ w.save.draft \in Drafts(n) /\ w.save.draft.eid # 0
  BY SavingNow DEF Begun, SaveOK
<1>2. c \in Drafts(n) /\ Same(w.save.draft, c)
  BY <1>1, DraftAnswers, AnswersKeepWork, Zenon
<1>3. c.eid = w.save.draft.eid
  BY <1>1 DEF Drafts, DraftRecs
<1>4. PICK z : z = Saving(c)
  OBVIOUS
<1>5. /\ Loaded(z, n) /\ Begun(z.save, n) /\ z.save.draft = c /\ z.save.landed = w.save.landed
      /\ LeftAlone(z) /\ z.savedEvent = w.savedEvent /\ z.savedTiers = w.savedTiers
  BY <1>1, <1>2, <1>4, SavedDraft
<1>6. y = [z EXCEPT !.file = FALSE, !.told = told]
  BY <1>4
<1>7. /\ Loaded(y, n) /\ y.save = z.save /\ LeftAlone(y) /\ y.savedEvent = z.savedEvent
      /\ y.told = told /\ y.savedTiers = z.savedTiers
  <2>1. z \in Wizards(n) /\ z.mode # "none" /\ z.draft \in Drafts(n) /\ told \in Tolds
    BY <1>5 DEF Loaded
  <2>2. y \in Wizards(n)
    BY ONLY <1>6, <2>1 DEF Wizards
  <2>3. /\ y.mode = z.mode /\ y.draft = z.draft /\ y.st = z.st /\ y.timer = z.timer
        /\ y.pending = z.pending /\ y.touched = z.touched
        /\ y.save = z.save /\ y.savedEvent = z.savedEvent
        /\ y.told = told /\ y.savedTiers = z.savedTiers
    BY ONLY <1>6, <2>1 DEF Wizards
  <2> QED
    BY <1>5, <2>1, <2>2, <2>3 DEF Loaded, LeftAlone
<1>8. w.save.stage > 1 /\ y.savedEvent = w.savedEvent /\ y.save.draft = c
  BY <1>5, <1>7
<1>9. Begun(y.save, n) /\ y.save.landed = w.save.landed /\ y.save.draft.eid # 0
  <2>1. y.save = z.save /\ Begun(z.save, n) /\ z.save.landed = w.save.landed /\ z.save.draft = c
    BY <1>5, <1>7
  <2> QED
    BY ONLY <1>1, <1>3, <2>1 DEF Begun
<1>10. Answered(y, n, w.save.landed)
  <2>1. Loaded(y, n) /\ LeftAlone(y)
    BY <1>7
  <2>2. Same(w.save.draft, y.save.draft) /\ w.save.draft.eid \in {0, y.save.draft.eid}
    BY <1>2, <1>3, <1>8
  <2> QED
    BY <1>8, <1>9, <2>1, <2>2, Zenon DEF Answered
<1> QED
  BY <1>3, <1>5, <1>7, <1>8, <1>10 DEF Recalls

(* What a wizard remembers of the server.                                  *)
Memory(x) == <<x.told, x.savedEvent, x.savedTiers>>

(* What is left of w.save when its rows or its lineup are ticked off.      *)
LEMMA TickedOff ==
  ASSUME ShapeInv, w.save.on, w.save.stage \in 2 .. 5, NEW n \in Nat, n = Len(events),
         NEW s \in Saves(n), s.on, s.draft = w.save.draft,
         NEW y, y = [w EXCEPT !.save = s]
  PROVE  Answered(y, n, s.landed) /\ y.save = s /\ Memory(y) = Memory(w)
<1>1. Loaded(w, n) /\ Begun(w.save, n) /\ w.save.draft \in Drafts(n)
  BY SavingNow DEF Begun
<1>2. w.save.draft.eid # 0
  BY SavingNow DEF SaveOK
<1>3. /\ Loaded(y, n) /\ y.save = s /\ LeftAlone(y) /\ y.savedEvent = w.savedEvent
      /\ Memory(y) = Memory(w)
  <2>1. y = [w EXCEPT !.save = s] /\ s \in Saves(n)
    OBVIOUS
  <2> QED
    BY ONLY <1>1, <2>1 DEF Loaded, Wizards, LeftAlone, Memory
<1>4. Same(w.save.draft, s.draft)
  BY DEF Same
<1> QED
  BY <1>1, <1>2, <1>3, <1>4 DEF Answered, Begun

LEMMA RowAnswer ==
  ASSUME ShapeInv, w.save.on, w.save.stage = 3, NEW n \in Nat, n = Len(events), NEW r \in Rows,
         NEW tried, tried = [w EXCEPT !.save.rows = @ \ {r}],
         NEW put, put = [tried EXCEPT !.save.landed = @ \cup {r}]
  PROVE  /\ Answered(tried, n, w.save.landed) /\ tried.save.draft = w.save.draft
         /\ Answered(put, n, w.save.landed \cup {r}) /\ put.save.draft = w.save.draft
         /\ Memory(tried) = Memory(w) /\ Memory(put) = Memory(w)
<1>1. w \in Wizards(n) /\ w.save \in Saves(n)
  BY SavingNow
<1> DEFINE s == [w.save EXCEPT !.rows = @ \ {r}]
           t == [s EXCEPT !.landed = @ \cup {r}]
<1>2. s \in Saves(n) /\ s.on /\ s.draft = w.save.draft /\ s.landed = w.save.landed
  BY <1>1 DEF Saves
<1>3. tried = [w EXCEPT !.save = s]
  OBVIOUS
<1> HIDE DEF s
<1>4. t \in Saves(n) /\ t.on /\ t.draft = w.save.draft /\ t.landed = w.save.landed \cup {r}
  BY <1>2 DEF Saves
<1>5. put = [w EXCEPT !.save = t]
  <2>1. tried.save = s
    BY <1>1, <1>3 DEF Wizards
  <2>2. put = [tried EXCEPT !.save = t]
    BY <2>1
  <2> HIDE DEF t
  <2> QED
    BY <1>3, <2>2
<1> HIDE DEF t
<1>6. ShapeInv /\ w.save.on /\ w.save.stage \in 2 .. 5 /\ n \in Nat /\ n = Len(events)
  OBVIOUS
<1>7. Answered(tried, n, s.landed) /\ tried.save = s /\ Memory(tried) = Memory(w)
  BY ONLY <1>2, <1>3, <1>6, TickedOff, Zenon
<1>8. Answered(put, n, t.landed) /\ put.save = t /\ Memory(put) = Memory(w)
  BY ONLY <1>4, <1>5, <1>6, TickedOff, Zenon
<1> QED
  BY <1>2, <1>4, <1>7, <1>8, Zenon

LEMMA CrewAnswer ==
  ASSUME ShapeInv, w.save.on, w.save.stage = 4, NEW n \in Nat, n = Len(events),
         NEW synced, synced = [w EXCEPT !.save.crewSynced = TRUE]
  PROVE  /\ Answered(synced, n, w.save.landed) /\ synced.save.draft = w.save.draft
         /\ Answered(w, n, w.save.landed) /\ Memory(synced) = Memory(w)
<1>1. w \in Wizards(n) /\ w.save \in Saves(n) /\ w.save.stage \in 2 .. 5
  BY SavingNow
<1> DEFINE s == [w.save EXCEPT !.crewSynced = TRUE]
<1>2. s \in Saves(n) /\ s.on /\ s.draft = w.save.draft /\ s.landed = w.save.landed
  BY <1>1 DEF Saves
<1>3. synced = [w EXCEPT !.save = s]
  OBVIOUS
<1>0. ShapeInv /\ w.save.on /\ n \in Nat /\ n = Len(events)
  OBVIOUS
<1> HIDE DEF s
<1>4. Answered(synced, n, w.save.landed) /\ synced.save = s /\ Memory(synced) = Memory(w)
  BY ONLY <1>0, <1>1, <1>2, <1>3, TickedOff
<1>5. w = [w EXCEPT !.save = w.save]
  BY <1>1 DEF Wizards
<1>6. Answered(w, n, w.save.landed)
  BY <1>1, <1>5, TickedOff
<1> QED
  BY <1>2, <1>4, <1>6

LEMMA TierAnswer ==
  ASSUME ShapeInv, w.save.on, w.save.stage = 5, NEW n \in Nat, n = Len(events),
         NEW i \in Nat, NEW mark \in TierMarks, NEW c \in Drafts(n),
         Same(w.save.draft, c), c.eid = w.save.draft.eid,
         NEW y, y = [Saving(c) EXCEPT !.savedTiers = Put(@, i, mark)]
  PROVE  /\ Answered(y, n, w.save.landed) /\ y.save.draft.eid = w.save.draft.eid
         /\ Recalls(y, w.told, w.savedEvent, Put(w.savedTiers, i, mark))
<1>1. Loaded(w, n) /\ Begun(w.save, n) /\ w.save.draft \in Drafts(n)
  BY SavingNow DEF Begun
<1>2. w.save.draft.eid # 0
  BY SavingNow DEF SaveOK
<1>6. PICK z : z = Saving(c)
  OBVIOUS
<1>7. /\ Loaded(z, n) /\ Begun(z.save, n) /\ z.save.draft = c /\ z.save.landed = w.save.landed
      /\ LeftAlone(z) /\ z.savedEvent = w.savedEvent /\ z.told = w.told
      /\ z.savedTiers = w.savedTiers
  BY <1>1, <1>6, SavedDraft
<1>8. PICK f \in SavedMaps : f = Put(z.savedTiers, i, mark)
  <2>1. z.savedTiers \in SavedMaps
    BY <1>7 DEF Loaded, Wizards
  <2> QED
    BY <2>1, SavedMapsGrow
<1>9. y = [z EXCEPT !.savedTiers = f]
  BY <1>6, <1>8
<1>10. /\ Loaded(y, n) /\ y.save = z.save /\ LeftAlone(y) /\ y.savedEvent = z.savedEvent
       /\ y.told = z.told /\ y.savedTiers = f
  <2>1. z \in Wizards(n) /\ f \in SavedMaps
    BY <1>7, <1>8 DEF Loaded
  <2>2. y \in Wizards(n)
    BY ONLY <1>9, <2>1 DEF Wizards
  <2>3. /\ y.mode = z.mode /\ y.draft = z.draft /\ y.st = z.st /\ y.timer = z.timer
        /\ y.pending = z.pending /\ y.touched = z.touched
        /\ y.save = z.save /\ y.savedEvent = z.savedEvent /\ y.told = z.told /\ y.savedTiers = f
    BY ONLY <1>9, <2>1 DEF Wizards
  <2> QED
    BY <1>7, <2>2, <2>3 DEF Loaded, LeftAlone
<1>11. w.save.stage > 1
  OBVIOUS
<1>12. /\ y.savedEvent = w.savedEvent /\ y.save.draft = c /\ Begun(y.save, n)
       /\ y.save.landed = w.save.landed
  BY <1>7, <1>10, Zenon
<1>13. y.save.draft.eid = w.save.draft.eid /\ y.save.draft.eid # 0
  BY <1>2, <1>12, Zenon
<1>14. Answered(y, n, w.save.landed)
  BY <1>10, <1>11, <1>12, <1>13, Zenon DEF Answered
<1> QED
  BY <1>7, <1>8, <1>10, <1>12, <1>13, <1>14 DEF Recalls

(* What a request of the save leads to.                                    *)
Outcome(x) ==
  \/ x = Fail(w, TRUE) \/ x = Fail(w, FALSE)
  \/ \E i \in 1 .. 4 : \E y, landed :
       /\ Answered(y, Len(events'), landed) /\ x = After(y, i)
       /\ landed \subseteq w.save.landed \cup events'[y.save.draft.eid].rows

Sent ==
  /\ w.save.on /\ Grows /\ UNCHANGED <<online, owned, tabs>>
  /\ \E x : Show(x) /\ Outcome(x)

LEMMA Unanswered ==
  ASSUME ShapeInv, w.save.on, UNCHANGED <<online, owned, tabs>>,
         UNCHANGED <<events, tierRows>> \/ Grows, Show(Fail(w, FALSE)) \/ Show(Fail(w, TRUE))
  PROVE  Sent
  BY NothingGrows DEF Sent, Outcome, ShapeInv

LEMMA Landed ==
  ASSUME w.save.on, Grows, UNCHANGED <<online, owned, tabs>>,
         NEW y, NEW landed, NEW i \in 1 .. 4, Answered(y, Len(events'), landed),
         landed \subseteq w.save.landed \cup events'[y.save.draft.eid].rows,
         Show(After(y, i))
  PROVE  Sent
<1>1. PICK x : x = After(y, i)
  OBVIOUS
<1>2. Outcome(x)
  BY <1>1 DEF Outcome
<1> QED
  BY <1>1, <1>2, Zenon DEF Sent

LEMMA SentType == ASSUME ShapeInv, Sent PROVE ShapeInv'
<1>1. PICK m \in Nat : m = Len(events)
  BY DEF ShapeInv, ServerOK
<1>2. PICK n \in Nat : n = Len(events') /\ m =< n
  BY <1>1 DEF Sent, Grows, ServerOK
<1>3. PICK x : Show(x) /\ Outcome(x)
  BY DEF Sent
<1>4. Fit(x, n)
  <2>1. Loaded(w, n)
    BY <1>1, <1>2, SavingNow, WizardsGrow DEF Sent
  <2>2. TRUE \in BOOLEAN /\ FALSE \in BOOLEAN
    OBVIOUS
  <2>3. Fit(Fail(w, TRUE), n) /\ Fit(Fail(w, FALSE), n)
    BY <2>1, <2>2, FailType, Zenon
  <2>4. ASSUME NEW y, NEW landed, NEW i \in 1 .. 4, Answered(y, n, landed)
        PROVE  Fit(After(y, i), n)
    BY <2>4, AfterType DEF Answered
  <2> QED
    BY <1>2, <1>3, <2>3, <2>4 DEF Outcome
<1>5. online' \in BOOLEAN /\ owned' \in BOOLEAN /\ tabs' \in Nat /\ Grows
  BY DEF ShapeInv, Sent
<1> QED
  BY <1>2, <1>3, <1>4, <1>5, ShowType

LEMMA CreateEventSent == ASSUME ShapeInv, CreateEvent PROVE Sent
<1> DEFINE d == w.save.draft
           e == Len(events) + 1
           made == [d EXCEPT !.eid = e, !.ver = 1, !.on = 1]
           row == [text |-> toCreateInput(d).text, rest |-> toCreateInput(d).rest, ver |-> 1,
                   rows |-> {}, crew |-> 0, live |-> FALSE]
           apply == events' = Append(events, row) /\ UNCHANGED tierRows
           told == IF toCreateInput(d).rest = d.rest THEN <<e, 1>> ELSE NoTold
           done == After([Saving(made) EXCEPT !.savedEvent = patchFingerprint(made), !.told = told], 1)
<1>1. /\ \/ apply /\ (Show(done) \/ Show(Fail(w, TRUE)))
         \/ UNCHANGED <<events, tierRows>> /\ (Show(Fail(w, FALSE)) \/ Show(Fail(w, TRUE)))
      /\ UNCHANGED <<online, owned, tabs>> /\ w.save.on /\ d.eid = 0
  BY DEF CreateEvent, Request, At, serverVars
<1>2. CASE UNCHANGED <<events, tierRows>> /\ (Show(Fail(w, FALSE)) \/ Show(Fail(w, TRUE)))
  BY <1>1, <1>2, Unanswered
<1>3. CASE apply /\ (Show(done) \/ Show(Fail(w, TRUE)))
  <2>1. PICK n \in Nat : n = e
    BY DEF ShapeInv, ServerOK
  <2>2. d \in Drafts(Len(events)) /\ Len(events') = n /\ Len(events) =< n /\ Len(events) \in Nat
    BY <1>1, <1>3, <2>1, SavingNow DEF Begun, ShapeInv, ServerOK
  <2>3. row \in Events
    BY <2>2, WizardConstants DEF Events, toCreateInput, Drafts, DraftRecs, Lineups
  <2>4. Grows
    <3> HIDE DEF row
    <3>1. ServerOK'
      BY <1>3, <2>3 DEF ShapeInv, ServerOK
    <3>2. \A i \in DOMAIN events : events'[i] = events[i]
      BY <1>3, <2>3 DEF ShapeInv, ServerOK
    <3> QED
      BY <2>2, <3>1, <3>2 DEF Grows
  <2>5. PICK c : c = made
    OBVIOUS
  <2> PICK t \in Tolds : t = told
    <3>1. <<e, 1>> \in Tolds /\ NoTold \in Tolds
      BY <2>1, ToldPairs
    <3> QED
      BY <3>1
  <2>6. PICK y : y = [Saving(c) EXCEPT !.savedEvent = patchFingerprint(c), !.told = t]
    OBVIOUS
  <2>7. Answered(y, n, w.save.landed)
    <3> HIDE DEF told, done, row, apply
    <3> QED
      BY <1>1, <2>1, <2>5, <2>6, CreateAnswer, Zenon
  <2>8. CASE Show(done)
    <3>1. done = After(y, 1)
      BY <2>5, <2>6
    <3> HIDE DEF done
    <3>2. Show(After(y, 1)) /\ 1 \in 1 .. 4 /\ w.save.landed \subseteq w.save.landed \cup events'[y.save.draft.eid].rows
      BY <2>8, <3>1
    <3> QED
      BY <1>1, <2>2, <2>4, <2>7, <3>2, Landed
  <2> QED
    BY <1>1, <1>3, <2>2, <2>4, <2>7, <2>8, Unanswered
<1> QED
  BY <1>1, <1>2, <1>3

LEMMA UpdateEventSent == ASSUME ShapeInv, UpdateEvent PROVE Sent
<1> DEFINE d == w.save.draft
           moved == [d EXCEPT !.ver = @ + 1, !.on = d.ver + 1]
           apply == /\ events' = [events EXCEPT ![d.eid].text = toPatchInput(d).text,
                                                ![d.eid].rest = toPatchInput(d).rest,
                                                ![d.eid].ver = @ + 1]
                    /\ UNCHANGED tierRows
           told == <<d.eid, moved.ver>>
           done == After([Saving(moved) EXCEPT !.savedEvent = patchFingerprint(d), !.told = told], 1)
<1>1. /\ \/ apply /\ (Show(done) \/ Show(Fail(w, TRUE)))
         \/ UNCHANGED <<events, tierRows>> /\ (Show(Fail(w, FALSE)) \/ Show(Fail(w, TRUE)))
      /\ UNCHANGED <<online, owned, tabs>> /\ w.save.on /\ d.eid # 0
  BY Zenon DEF UpdateEvent, Updated, Request, At, serverVars
<1>2. CASE UNCHANGED <<events, tierRows>> /\ (Show(Fail(w, FALSE)) \/ Show(Fail(w, TRUE)))
  BY <1>1, <1>2, Unanswered, Zenon
<1>3. CASE apply /\ (Show(done) \/ Show(Fail(w, TRUE)))
  <2>1. PICK m \in Nat : m = Len(events)
    BY DEF ShapeInv, ServerOK
  <2>2. d \in Drafts(m) /\ d.eid \in DOMAIN events /\ events[d.eid] \in Events
    BY <1>1, <2>1, SaveHasEvent
  <2>3. d.text \in TextVals /\ d.rest \in Rests
    BY <2>2 DEF Drafts, DraftRecs
  <2>4. PICK row \in Events : /\ events' = [events EXCEPT ![d.eid] = row]
                              /\ events[d.eid].rows \subseteq row.rows
    <3> DEFINE new == [events[d.eid] EXCEPT !.text = d.text, !.rest = d.rest, !.ver = @ + 1]
    <3>1. new \in Events /\ new.rows = events[d.eid].rows
      <4>1. events[d.eid].ver + 1 \in Nat
        BY <2>2 DEF Events
      <4> DEFINE Made(row, text, rest, ver) == [row EXCEPT !.text = text, !.rest = rest, !.ver = ver]
      <4>2. \A row \in Events, text \in TextVals, rest \in Rests, ver \in Nat :
              Made(row, text, rest, ver) \in Events /\ Made(row, text, rest, ver).rows = row.rows
        BY DEF Events
      <4>3. Made(events[d.eid], d.text, d.rest, events[d.eid].ver + 1) = new
        OBVIOUS
      <4> HIDE DEF Made, d, new
      <4> QED
        BY <2>2, <2>3, <4>1, <4>2, <4>3
    <3> QED
      BY <1>3, <2>2, <3>1 DEF toPatchInput
  <2>5. Grows /\ Len(events') = m
    <3>1. ServerOK /\ UNCHANGED tierRows
      BY <1>3 DEF ShapeInv
    <3> HIDE DEF d
    <3> QED
      BY <2>1, <2>2, <2>4, <3>1, EventsKept
  <2>6. PICK c : c = moved
    OBVIOUS
  <2> PICK t \in Tolds : t = told
    <3>1. d.eid \in Nat /\ moved.ver \in Nat
      BY <2>2 DEF Drafts, DraftRecs
    <3> QED
      BY <3>1, ToldPairs, Zenon
  <2>7. PICK y : y = [Saving(c) EXCEPT !.savedEvent = patchFingerprint(d), !.told = t]
    OBVIOUS
  <2>8. Answered(y, m, w.save.landed)
    BY <1>1, <2>1, <2>6, <2>7, UpdateAnswer, Zenon
  <2>9. CASE Show(done)
    <3>1. done = After(y, 1)
      BY <2>6, <2>7
    <3> HIDE DEF done
    <3>2. Show(After(y, 1)) /\ 1 \in 1 .. 4 /\ w.save.landed \subseteq w.save.landed \cup events'[y.save.draft.eid].rows
      BY <2>9, <3>1
    <3> QED
      BY <1>1, <2>5, <2>8, <3>2, Landed, Zenon
  <2> QED
    BY <1>1, <1>3, <2>5, <2>8, <2>9, Unanswered, Zenon
<1> QED
  BY <1>1, <1>2, <1>3, Zenon

LEMMA UploadPosterSent == ASSUME ShapeInv, UploadPoster PROVE Sent
<1> DEFINE d == w.save.draft
           moved == [d EXCEPT !.ver = @ + 1, !.on = d.ver + 1]
           apply == events' = [events EXCEPT ![d.eid].ver = @ + 1] /\ UNCHANGED tierRows
           told == IF w.told = <<d.eid, d.ver>> THEN <<d.eid, moved.ver>> ELSE w.told
           done == After([Saving(moved) EXCEPT !.file = FALSE,
                            !.told = IF @ = <<d.eid, d.ver>> THEN <<d.eid, moved.ver>> ELSE @], 2)
<1>1. /\ \/ apply /\ (Show(done) \/ Show(Fail(w, TRUE)))
         \/ UNCHANGED <<events, tierRows>> /\ (Show(Fail(w, FALSE)) \/ Show(Fail(w, TRUE)))
      /\ UNCHANGED <<online, owned, tabs>> /\ w.save.on /\ w.save.stage = 2
  BY DEF UploadPoster, Request, At, serverVars
<1>2. CASE UNCHANGED <<events, tierRows>> /\ (Show(Fail(w, FALSE)) \/ Show(Fail(w, TRUE)))
  BY <1>1, <1>2, Unanswered, Zenon
<1>3. CASE apply /\ (Show(done) \/ Show(Fail(w, TRUE)))
  <2>1. PICK m \in Nat : m = Len(events)
    BY DEF ShapeInv, ServerOK
  <2>2. d \in Drafts(m) /\ d.eid \in DOMAIN events /\ events[d.eid] \in Events /\ d.eid # 0
    <3>1. d.eid # 0
      BY <1>1, SavingNow DEF SaveOK
    <3> QED
      BY <1>1, <2>1, <3>1, SaveHasEvent
  <2>4. PICK row \in Events : /\ events' = [events EXCEPT ![d.eid] = row]
                              /\ events[d.eid].rows \subseteq row.rows
    <3> DEFINE new == [events[d.eid] EXCEPT !.ver = @ + 1]
    <3>1. new \in Events /\ new.rows = events[d.eid].rows
      BY <2>2 DEF Events
    <3> QED
      BY <1>3, <2>2, <3>1
  <2>5. Grows /\ Len(events') = m
    <3>1. ServerOK /\ UNCHANGED tierRows
      BY <1>3 DEF ShapeInv
    <3> HIDE DEF d
    <3> QED
      BY <2>1, <2>2, <2>4, <3>1, EventsKept
  <2>6. PICK c : c = moved
    OBVIOUS
  <2> PICK t \in Tolds : t = told
    <3>1. w.told \in Tolds
      BY <1>1, SavingNow DEF Wizards
    <3>2. d.eid \in Nat /\ moved.ver \in Nat
      BY <2>2 DEF Drafts, DraftRecs
    <3>3. <<d.eid, moved.ver>> \in Tolds
      BY <3>2, ToldPairs
    <3> QED
      BY <3>1, <3>3
  <2>7. PICK y : y = [Saving(c) EXCEPT !.file = FALSE, !.told = t]
    BY Zenon
  <2>8. Answered(y, m, w.save.landed)
    BY <1>1, <2>1, <2>6, <2>7, PosterAnswer, Zenon
  <2>9. CASE Show(done)
    <3>1. done = After(y, 2)
      <4> PICK z : z = [Saving(c) EXCEPT !.file = FALSE]
        OBVIOUS
      <4>1. z.told = w.told
        BY <1>1, SavingNow DEF Saving, Wizards
      <4>2. done = After([z EXCEPT !.told = IF z.told = <<d.eid, d.ver>> THEN <<d.eid, moved.ver>>
                                            ELSE z.told], 2)
        BY <2>6
      <4>3. y = [z EXCEPT !.told = t]
        BY <2>7
      <4> HIDE DEF done
      <4> QED
        BY <4>1, <4>2, <4>3
    <3> HIDE DEF done
    <3>2. Show(After(y, 2)) /\ 2 \in 1 .. 4 /\ w.save.landed \subseteq w.save.landed \cup events'[y.save.draft.eid].rows
      BY <2>9, <3>1
    <3> QED
      BY <1>1, <2>5, <2>8, <3>2, Landed
  <2> QED
    BY <1>1, <1>3, <2>5, <2>8, <2>9, Unanswered, Zenon
<1> QED
  BY <1>1, <1>2, <1>3

LEMMA AddRowSent == ASSUME ShapeInv, NEW r \in Rows, AddRow(r) PROVE Sent
<1> DEFINE e == w.save.draft.eid
           tried == [w EXCEPT !.save.rows = @ \ {r}]
           put == [tried EXCEPT !.save.landed = @ \cup {r}]
           apply == events' = [events EXCEPT ![e].rows = @ \cup {r}] /\ UNCHANGED tierRows
<1>1. /\ \/ apply /\ (Show(After(put, 2)) \/ Show(After(tried, 2)))
         \/ UNCHANGED <<events, tierRows>> /\ Show(After(tried, 2))
      /\ UNCHANGED <<online, owned, tabs>> /\ w.save.on /\ w.save.stage = 3
  BY DEF AddRow, Request, At, serverVars
<1>2. PICK m \in Nat : m = Len(events)
  BY DEF ShapeInv, ServerOK
<1>3. e \in DOMAIN events /\ events[e] \in Events /\ e # 0
  <2>1. e # 0
    BY <1>1, SavingNow DEF SaveOK
  <2> QED
    BY <1>1, <1>2, <2>1, SaveHasEvent
<1>4. Grows /\ Len(events') = m
  <2>1. CASE apply
    <3>1. PICK row \in Events : /\ events' = [events EXCEPT ![e] = row]
                                /\ events[e].rows \subseteq row.rows
      <4> DEFINE new == [events[e] EXCEPT !.rows = @ \cup {r}]
      <4>1. new \in Events /\ events[e].rows \subseteq new.rows
        BY <1>3 DEF Events
      <4> QED
        BY <1>3, <2>1, <4>1
    <3> QED
      <4>1. ServerOK /\ UNCHANGED tierRows
        BY <2>1 DEF ShapeInv
      <4> HIDE DEF e
      <4> QED
        BY <1>2, <1>3, <3>1, <4>1, EventsKept
  <2>2. CASE UNCHANGED <<events, tierRows>>
    BY <1>2, <2>2, NothingGrows DEF ShapeInv
  <2> QED
    BY <1>1, <2>1, <2>2
<1>5. PICK y : y = tried
  OBVIOUS
<1>6. PICK u : u = [y EXCEPT !.save.landed = @ \cup {r}]
  OBVIOUS
<1>7. /\ Answered(y, m, w.save.landed) /\ y.save.draft.eid = e
      /\ Answered(u, m, w.save.landed \cup {r}) /\ u.save.draft.eid = e
  <2>1. /\ ShapeInv /\ w.save.on /\ w.save.stage = 3 /\ m \in Nat /\ m = Len(events) /\ r \in Rows
        /\ y = [w EXCEPT !.save.rows = @ \ {r}]
    BY <1>1, <1>2, <1>5
  <2>2. /\ Answered(y, m, w.save.landed) /\ y.save.draft = w.save.draft
        /\ Answered(u, m, w.save.landed \cup {r}) /\ u.save.draft = w.save.draft
    BY ONLY <2>1, <1>6, RowAnswer, ZenonT(30)
  <2> QED
    BY <2>2
<1>8. 2 \in 1 .. 4
  OBVIOUS
<1>9. CASE Show(After(y, 2))
  <2>1. w.save.landed \subseteq w.save.landed \cup events'[y.save.draft.eid].rows
    OBVIOUS
  <2> QED
    BY <1>1, <1>4, <1>7, <1>8, <1>9, <2>1, Landed
<1>10. CASE apply /\ Show(After(u, 2))
  <2>1. r \in events'[e].rows
    BY <1>3, <1>10 DEF Events
  <2> HIDE DEF e
  <2>2. w.save.landed \cup {r} \subseteq w.save.landed \cup events'[u.save.draft.eid].rows
    BY <1>7, <2>1
  <2> QED
    BY <1>1, <1>4, <1>7, <1>8, <1>10, <2>2, Landed
<1> QED
  BY <1>1, <1>5, <1>6, <1>9, <1>10

LEMMA SetEventCrewSent == ASSUME ShapeInv, SetEventCrew PROVE Sent
<1> DEFINE d == w.save.draft
           synced == [w EXCEPT !.save.crewSynced = TRUE]
           apply == events' = [events EXCEPT ![d.eid].crew = d.crew] /\ UNCHANGED tierRows
<1>1. /\ apply \/ UNCHANGED <<events, tierRows>>
      /\ Show(After(synced, 4)) \/ Show(After(w, 4))
      /\ UNCHANGED <<online, owned, tabs>> /\ w.save.on /\ w.save.stage = 4
  BY DEF SetEventCrew, Request, At, serverVars
<1>2. PICK m \in Nat : m = Len(events)
  BY DEF ShapeInv, ServerOK
<1>3. d \in Drafts(m) /\ d.eid \in DOMAIN events /\ events[d.eid] \in Events /\ d.eid # 0
  <2>1. d.eid # 0
    BY <1>1, SavingNow DEF SaveOK
  <2> QED
    BY <1>1, <1>2, <2>1, SaveHasEvent
<1>4. Grows /\ Len(events') = m
  <2>1. CASE apply
    <3>1. PICK row \in Events : /\ events' = [events EXCEPT ![d.eid] = row]
                                /\ events[d.eid].rows \subseteq row.rows
      <4> DEFINE new == [events[d.eid] EXCEPT !.crew = d.crew]
      <4>1. d.crew \in Lineups
        BY <1>3 DEF Drafts, DraftRecs
      <4>2. new \in Events /\ new.rows = events[d.eid].rows
        BY <1>3, <4>1 DEF Events
      <4> QED
        BY <1>3, <2>1, <4>2
    <3>2. ServerOK /\ UNCHANGED tierRows
      BY <2>1 DEF ShapeInv
    <3> HIDE DEF d
    <3> QED
      BY <1>2, <1>3, <3>1, <3>2, EventsKept
  <2>2. CASE UNCHANGED <<events, tierRows>>
    BY <1>2, <2>2, NothingGrows DEF ShapeInv
  <2> QED
    BY <1>1, <2>1, <2>2
<1>5. PICK y : y = synced
  OBVIOUS
<1>6. Answered(y, m, w.save.landed) /\ Answered(w, m, w.save.landed)
  BY <1>1, <1>2, <1>5, CrewAnswer
<1>7. /\ 4 \in 1 .. 4
      /\ w.save.landed \subseteq w.save.landed \cup events'[y.save.draft.eid].rows
      /\ w.save.landed \subseteq w.save.landed \cup events'[w.save.draft.eid].rows
  OBVIOUS
<1>8. CASE Show(After(y, 4))
  BY <1>1, <1>4, <1>6, <1>7, <1>8, Landed
<1>9. CASE Show(After(w, 4))
  BY <1>1, <1>4, <1>6, <1>7, <1>9, Landed
<1> QED
  BY <1>1, <1>5, <1>8, <1>9

LEMMA WriteTierSent == ASSUME ShapeInv, NEW k \in Tiers, WriteTier(k) PROVE Sent
<1> DEFINE d == w.save.draft
           tier == d.tiers[k]
           sid == IF tier.sid = 0 THEN Len(tierRows) + 1 ELSE tier.sid
           ver == IF tier.sid = 0 THEN 1 ELSE tier.ver + 1
           row == [event |-> d.eid, key |-> k, val |-> tier.val, ver |-> ver]
           moved == [d EXCEPT !.tiers[k].sid = sid, !.tiers[k].ver = ver]
           apply == /\ tierRows' = IF tier.sid = 0 THEN Append(tierRows, row)
                                   ELSE [tierRows EXCEPT ![sid] = row]
                    /\ UNCHANGED events
           done == After([Saving(moved) EXCEPT
                            !.savedTiers = Put(@, sid, [val |-> tier.val, ver |-> ver])], 4)
<1>1. /\ \/ apply /\ (Show(done) \/ Show(Fail(w, TRUE)))
         \/ UNCHANGED <<events, tierRows>> /\ (Show(Fail(w, FALSE)) \/ Show(Fail(w, TRUE)))
      /\ UNCHANGED <<online, owned, tabs>> /\ w.save.on /\ w.save.stage = 5
  BY Zenon DEF WriteTier, Request, At, serverVars, toTierInput
<1>2. CASE UNCHANGED <<events, tierRows>> /\ (Show(Fail(w, FALSE)) \/ Show(Fail(w, TRUE)))
  BY <1>1, <1>2, Unanswered, Zenon
<1>3. CASE apply /\ (Show(done) \/ Show(Fail(w, TRUE)))
  <2>1. PICK m \in Nat : m = Len(events)
    BY DEF ShapeInv, ServerOK
  <2>2. d \in Drafts(m) /\ d.eid # 0 /\ d.eid \in Nat
    <3>1. d.eid # 0
      <4>1. SaveOK(w.save, Len(events)) /\ w.save # Idle
        BY <1>1, SavingNow, Zenon
      <4>2. w.save.stage = 5
        BY <1>1, Zenon
      <4>3. w.save.draft.eid # 0
        BY <4>1, <4>2 DEF SaveOK
      <4> QED
        BY <4>3
    <3>2. d \in Drafts(m)
      BY <1>1, <2>1, <3>1, SaveHasEvent, Zenon
    <3> QED
      BY <2>1, <3>1, <3>2 DEF Drafts, DraftRecs
  <2>3. tier \in TierRecs /\ tierRows \in Seq(TierRows)
    BY <2>2 DEF Drafts, DraftRecs, ShapeInv, ServerOK
  <2>4. PICK i \in Nat : i = sid
    BY <2>3 DEF TierRecs
  <2>5. PICK v \in Nat : v = ver
    BY <2>3 DEF TierRecs
  <2>6. tier.val \in 0 .. 2
    BY <2>3 DEF TierRecs
  <2>7. row \in TierRows
    BY <2>2, <2>5, <2>6 DEF TierRows
  <2>8. Grows /\ Len(events') = m
    <3>1. UNCHANGED events /\ (tierRows' = Append(tierRows, row) \/ tierRows' = [tierRows EXCEPT ![i] = row])
      BY <1>3, <2>4, Zenon
    <3> HIDE DEF row
    <3>2. tierRows' \in Seq(TierRows)
      BY <2>3, <2>7, <3>1
    <3> QED
      BY <2>1, <3>1, <3>2 DEF Grows, ShapeInv, ServerOK
  <2>9. PICK c : c = moved
    OBVIOUS
  <2> PICK mark \in TierMarks : mark = [val |-> tier.val, ver |-> v]
    BY <2>6 DEF TierMarks
  <2>10. PICK y : y = [Saving(c) EXCEPT !.savedTiers = Put(@, i, mark)]
    BY Zenon
  <2>11. c = [d EXCEPT !.tiers[k].sid = i, !.tiers[k].ver = v] /\ done = After(y, 4)
    BY <2>4, <2>5, <2>9, <2>10, Zenon
  <2>12. Answered(y, m, w.save.landed)
    <3>1. c \in Drafts(m) /\ Same(d, c)
      BY <2>2, <2>11, DraftAnswers, AnswersKeepWork, Zenon
    <3>2. c.eid = d.eid
      BY <2>2, <2>11, Zenon DEF Drafts, DraftRecs
    <3> HIDE DEF done, moved, row
    <3> QED
      BY <1>1, <2>1, <2>10, <3>1, <3>2, TierAnswer
  <2>13. CASE Show(done)
    <3>1. Show(After(y, 4))
      BY <2>11, <2>13, Zenon
    <3> HIDE DEF done, apply, moved, row, ver, sid, tier
    <3>2. /\ 4 \in 1 .. 4
          /\ w.save.landed \subseteq w.save.landed \cup events'[y.save.draft.eid].rows
      OBVIOUS
    <3> QED
      BY <1>1, <2>8, <2>12, <3>1, <3>2, Landed
  <2> QED
    BY <1>1, <1>3, <2>8, <2>13, Unanswered, Zenon
<1> QED
  BY <1>1, <1>2, <1>3, Zenon

LEMMA SaveStepSent == ASSUME ShapeInv, SaveStep PROVE Sent
  BY CreateEventSent, UpdateEventSent, UploadPosterSent, AddRowSent, SetEventCrewSent, WriteTierSent
  DEF SaveStep

-----------------------------------------------------------------------------
(* The timers, and what people do.                                         *)

(* A step that shows a wizard and leaves the server alone.                 *)
LEMMA LocalType ==
  ASSUME ShapeInv, UNCHANGED <<events, tierRows>>, NEW x, Show(x), Fit(x, Len(events)),
         online' \in BOOLEAN, owned' \in BOOLEAN, tabs' \in Nat
  PROVE  ShapeInv'
<1>1. Grows /\ Fit(x, Len(events'))
  BY NothingGrows DEF ShapeInv
<1> QED
  BY <1>1, ShowType

(* A person's step, or a timer's: online and owned stay.                   *)
LEMMA PersonType ==
  ASSUME ShapeInv, Calm, tabs' \in Nat, NEW x, Show(x), Fit(x, Len(events))
  PROVE  ShapeInv'
<1>1. UNCHANGED <<events, tierRows>> /\ online' \in BOOLEAN /\ owned' \in BOOLEAN
  BY DEF Calm, ShapeInv
<1> QED
  BY <1>1, LocalType

LEMMA TabsType == ASSUME ShapeInv, Edit \/ Tab \/ World \/ UNCHANGED countVars PROVE tabs' \in Nat
  BY DEF ShapeInv, Edit, Tab, World, countVars

LEMMA TimersType == ASSUME ShapeInv, Timers PROVE ShapeInv'
<1>1. Open /\ Calm /\ tabs' \in Nat
  BY TabsType DEF Timers, TimerFires, RetryFires, Calm
<1>2. PICK m \in Nat : m = Len(events) /\ Fit(w, m)
  BY <1>1, OpenIsFit
<1>3. PICK y : y \in Fired(w) /\ Show(flush(y, online))
  BY DEF Timers, TimerFires, RetryFires, Fired
<1>5. Fit(y, m) /\ Show(flush(y, online))
  BY <1>2, <1>3, FieldsTouched
<1>6. PICK x : x = flush(y, online)
  OBVIOUS
<1>7. Fit(x, m) /\ Show(x)
  BY <1>5, <1>6, FlushType
<1> QED
  BY <1>1, <1>2, <1>7, PersonType

LEMMA SaveNowType == ASSUME ShapeInv, saveNow PROVE ShapeInv'
<1>1. Open /\ Calm /\ tabs' \in Nat
  BY TabsType DEF saveNow
<1>2. PICK m \in Nat : m = Len(events) /\ Fit(w, m)
  BY <1>1, OpenIsFit
<1>3. PICK y : y \in Fired(w) /\ Show(flush(y, online))
  BY DEF saveNow, Fired
<1>4. Fit(y, m) /\ Show(flush(y, online))
  BY <1>2, <1>3, FieldsTouched
<1>6. PICK x : x = flush(y, online)
  OBVIOUS
<1>7. Fit(x, m) /\ Show(x)
  BY <1>4, <1>6, FlushType
<1> QED
  BY <1>1, <1>2, <1>7, PersonType

(* An edit that is an update of the draft.                                 *)
LEMMA EditType ==
  ASSUME ShapeInv, Open, Edit, Calm, NEW next \in Drafts(Len(events)), Show(update(w, next))
  PROVE  ShapeInv'
<1>1. PICK x : x = update(w, next)
  OBVIOUS
<1>2. Fit(x, Len(events)) /\ Show(x) /\ tabs' \in Nat
  BY <1>1, OpenIsFit, UpdateType, TabsType
<1> QED
  BY <1>2, PersonType

(* The edits of fields, tiers, rows and the lineup.                        *)
Fields ==
  \/ \E text \in Texts \cup {0}, rest \in Rests : Type(text, rest)
  \/ \E k \in Tiers, val \in 0 .. 2 : setTiers(k, val)
  \/ \E r \in Rows : StageRow(r)
  \/ \E c \in Crews \cup {0} : StageCrew(c)

LEMMA FieldsUpdate ==
  ASSUME ShapeInv, Fields
  PROVE  Open /\ Edit /\ Calm /\ \E next \in Drafts(Len(events)) : Show(update(w, next))
<1>1. Open /\ Edit /\ Calm
  BY Zenon DEF Fields, Type, setTiers, StageRow, StageCrew
<1>2. PICK m \in Nat : m = Len(events) /\ w.draft \in Drafts(m)
  BY <1>1, OpenIsFit DEF Loaded
<1>3. ASSUME NEW text \in Texts \cup {0}, NEW rest \in Rests, Type(text, rest)
      PROVE  \E next \in Drafts(m) : Show(update(w, next))
  <2>1. [w.draft EXCEPT !.text = text, !.rest = rest] \in Drafts(m)
    BY <1>2, DraftEdits, Zenon DEF TextVals
  <2> QED
    BY <1>3, <2>1 DEF Type
<1>4. ASSUME NEW k \in Tiers, NEW val \in 0 .. 2, setTiers(k, val)
      PROVE  \E next \in Drafts(m) : Show(update(w, next))
  <2>1. [w.draft EXCEPT !.tiers[k].val = val] \in Drafts(m)
    BY <1>2, DraftEdits, Zenon
  <2> QED
    BY <1>4, <2>1 DEF setTiers
<1>5. ASSUME NEW r \in Rows, StageRow(r)
      PROVE  \E next \in Drafts(m) : Show(update(w, next))
  <2>1. [w.draft EXCEPT !.rows = @ \cup {r}] \in Drafts(m)
    BY <1>2, DraftEdits, Zenon
  <2> QED
    BY <1>5, <2>1 DEF StageRow
<1>6. ASSUME NEW c \in Crews \cup {0}, StageCrew(c)
      PROVE  \E next \in Drafts(m) : Show(update(w, next))
  <2>1. [w.draft EXCEPT !.crew = c] \in Drafts(m)
    BY <1>2, DraftEdits, Zenon DEF Lineups
  <2> QED
    BY <1>6, <2>1 DEF StageCrew
<1>7. \E next \in Drafts(m) : Show(update(w, next))
  BY <1>3, <1>4, <1>5, <1>6 DEF Fields
<1> QED
  BY <1>1, <1>2, <1>7

LEMMA FieldsType == ASSUME ShapeInv, Fields PROVE ShapeInv'
  BY FieldsUpdate, EditType

LEMMA PosterType == ASSUME ShapeInv, setPoster PROVE ShapeInv'
<1>1. Open /\ Calm /\ tabs' \in Nat
  BY TabsType DEF setPoster
<1>2. PICK m \in Nat : m = Len(events) /\ Fit(w, m) /\ w.draft \in Drafts(m)
  BY <1>1, OpenIsFit DEF Loaded
<1>3. PICK y : y = update(w, w.draft)
  OBVIOUS
<1>4. Fit(y, m)
  BY <1>2, <1>3, UpdateType
<1>5. PICK x : x = [y EXCEPT !.file = TRUE]
  OBVIOUS
<1>6. Fit(x, m)
  BY <1>4, <1>5 DEF Fit, Loaded, Wizards
<1>7. Show(x)
  BY <1>3, <1>5 DEF setPoster
<1> QED
  BY <1>1, <1>2, <1>6, <1>7, PersonType

(* A step in the undo history.                                             *)
LEMMA TravelType ==
  ASSUME NEW n \in Nat, Fit(w, n), NEW d \in Drafts(n), NEW p \in Seq(Drafts(n)), NEW f \in Seq(Drafts(n)),
         NEW y, y = [w EXCEPT !.draft = d, !.past = p, !.future = f, !.st = "dirty"]
  PROVE  Fit(schedule(y), n)
<1>1. d \in MaybeDrafts(n) /\ w \in Wizards(n)
  BY DEF MaybeDrafts, Fit, Loaded
<1>2. y \in Wizards(n) /\ y.mode = w.mode /\ y.draft = d /\ y.save = w.save
  BY <1>1 DEF Wizards, States
<1>3. /\ schedule(y) \in Wizards(n) /\ schedule(y).mode = y.mode /\ schedule(y).draft = y.draft
      /\ schedule(y).save = y.save
  BY <1>2 DEF Wizards, schedule
<1> QED
  BY <1>2, <1>3 DEF Fit, Loaded

LEMMA UndoRedoType == ASSUME ShapeInv, undo \/ redo PROVE ShapeInv'
<1>1. Open /\ Calm /\ tabs' \in Nat
  BY TabsType DEF undo, redo
<1>2. PICK m \in Nat : m = Len(events) /\ Fit(w, m)
  BY <1>1, OpenIsFit
<1>3. w.past \in Seq(Drafts(m)) /\ w.future \in Seq(Drafts(m)) /\ w.draft \in Drafts(m)
  BY <1>2 DEF Fit, Loaded, Wizards
<1>4. CASE undo
  <2>1. w.past # <<>>
    BY <1>4 DEF undo
  <2>2. Last(w.past) \in Drafts(m) /\ Front(w.past) \in Seq(Drafts(m))
    <3>1. Len(w.past) \in Nat \ {0}
      BY <1>3, <2>1, EmptySeq
    <3>2. \A i \in 1 .. Len(w.past) : w.past[i] \in Drafts(m)
      BY <1>3, ElementOfSeq
    <3>3. SubSeq(w.past, 1, Len(w.past) - 1) \in Seq(Drafts(m))
      <4>1. \A i \in 1 .. Len(w.past) - 1 : w.past[i] \in Drafts(m)
        BY <3>1, <3>2
      <4>2. Len(w.past) - 1 \in Int
        BY <3>1
      <4> QED
        BY <4>1, <4>2, SubSeqProperties
    <3> QED
      BY <3>1, <3>2, <3>3 DEF Last, Front
  <2>3. <<w.draft>> \o w.future \in Seq(Drafts(m))
    BY <1>3
  <2>4. PICK y : y = [w EXCEPT !.draft = Last(w.past), !.past = Front(w.past),
                               !.future = <<w.draft>> \o w.future, !.st = "dirty"]
    OBVIOUS
  <2>5. PICK x : x = schedule(y)
    OBVIOUS
  <2>6. Fit(x, m)
    BY <1>2, <2>2, <2>3, <2>4, <2>5, TravelType, Zenon
  <2>7. Show(x)
    BY <1>4, <2>4, <2>5 DEF undo
  <2> QED
    BY <1>1, <1>2, <2>6, <2>7, PersonType
<1>5. CASE redo
  <2>1. w.future # <<>>
    BY <1>5 DEF redo
  <2>2. Head(w.future) \in Drafts(m) /\ Tail(w.future) \in Seq(Drafts(m))
    BY <1>3, <2>1, HeadTailProperties
  <2>3. Append(w.past, w.draft) \in Seq(Drafts(m))
    BY <1>3
  <2>4. PICK y : y = [w EXCEPT !.draft = Head(w.future), !.past = Append(w.past, w.draft),
                               !.future = Tail(w.future), !.st = "dirty"]
    OBVIOUS
  <2>5. PICK x : x = schedule(y)
    OBVIOUS
  <2>6. Fit(x, m)
    BY <1>2, <2>2, <2>3, <2>4, <2>5, TravelType, Zenon
  <2>7. Show(x)
    <3>1. y = [w EXCEPT !.draft = Head(w.future), !.future = Tail(@),
                        !.past = Append(@, w.draft), !.st = "dirty"]
      BY <1>2, <2>4 DEF Fit, Loaded, Wizards
    <3> QED
      BY <1>5, <2>5, <3>1 DEF redo
  <2> QED
    BY <1>1, <1>2, <2>6, <2>7, PersonType
<1> QED
  BY <1>4, <1>5

-----------------------------------------------------------------------------
(* The network, hydration, publication and the other editors.              *)

LEMMA GoOfflineType == ASSUME ShapeInv, GoOffline PROVE ShapeInv'
<1>1. PICK m \in Nat : m = Len(events)
  BY DEF ShapeInv, ServerOK
<1>2. tabs' \in Nat /\ online' \in BOOLEAN
  BY TabsType DEF GoOffline
<1>3. CASE Open
  <2>1. Fit(w, m) /\ InStore(w, stored)
    BY <1>1, <1>3, OpenIsFit
  <2>2. PICK x : x = [w EXCEPT !.st = "offline"]
    OBVIOUS
  <2>3. Fit(x, m) /\ x.draft = w.draft /\ x.mode = w.mode /\ x.source = w.source
    BY <2>1, <2>2 DEF Fit, Loaded, Wizards, States
  <2>4. InStore(x, stored)
    BY <2>1, <2>3 DEF InStore, draftStorageKey
  <2>5. w' = x /\ UNCHANGED <<stored, events, tierRows, owned>>
    BY <1>3, <2>2 DEF GoOffline
  <2>6. Fit(w, Len(events))' /\ InStore(w, stored)'
    BY <1>1, <2>3, <2>4, <2>5 DEF Fit, Loaded, InStore, draftStorageKey
  <2> QED
    BY <1>2, <2>5, <2>6 DEF ShapeInv, ServerOK, StoreFits
<1>4. CASE ~Open
  <2>1. UNCHANGED <<w, stored, events, tierRows, owned>>
    BY <1>4 DEF GoOffline
  <2> QED
    BY <1>2, <2>1, NothingGrows, KeepType DEF ShapeInv
<1> QED
  BY <1>3, <1>4

LEMMA GoOnlineType == ASSUME ShapeInv, GoOnline PROVE ShapeInv'
<1>1. UNCHANGED <<events, tierRows, owned, tabs>> /\ online' \in BOOLEAN
  BY DEF GoOnline, countVars
<1>2. owned' \in BOOLEAN /\ tabs' \in Nat
  BY <1>1 DEF ShapeInv
<1>3. CASE Open
  <2>1. PICK m \in Nat : m = Len(events) /\ Fit(w, m)
    BY <1>3, OpenIsFit
  <2>2. PICK y : y = Woken(w)
    OBVIOUS
  <2>3. Fit(y, m)
    BY <2>1, <2>2, FieldsTouched
  <2>4. PICK x : x = flush(y, TRUE)
    OBVIOUS
  <2>5. Fit(x, m)
    BY <2>1, <2>3, <2>4, FlushType
  <2>6. Show(x)
    BY <1>3, <2>2, <2>4 DEF GoOnline, Woken
  <2> QED
    BY <1>1, <1>2, <2>1, <2>5, <2>6, LocalType
<1>4. CASE ~Open
  <2>1. UNCHANGED <<w, stored>>
    BY <1>4 DEF GoOnline
  <2> QED
    BY <1>1, <1>2, <2>1, NothingGrows, KeepType DEF ShapeInv
<1> QED
  BY <1>3, <1>4

LEMMA OwnedChangesType == ASSUME ShapeInv, OwnedChanges PROVE ShapeInv'
<1>1. UNCHANGED <<events, tierRows, online>> /\ tabs' \in Nat
  BY TabsType DEF OwnedChanges
<1>2. PICK o \in BOOLEAN : o = owned'
  BY DEF OwnedChanges, ShapeInv
<1>3. online' \in BOOLEAN /\ owned' \in BOOLEAN
  BY <1>1, <1>2 DEF ShapeInv
<1>4. CASE Open /\ w.draft.org # owned'
  <2>1. PICK m \in Nat : m = Len(events) /\ Fit(w, m) /\ w.draft \in Drafts(m)
    BY <1>4, OpenIsFit DEF Loaded
  <2>2. PICK d \in Drafts(m) : d = [w.draft EXCEPT !.org = o]
    <3>1. [w.draft EXCEPT !.org = o] \in Drafts(m)
      BY <2>1, DraftEdits, Zenon
    <3> QED
      BY <3>1
  <2>3. PICK y : y = [w EXCEPT !.draft = d]
    OBVIOUS
  <2>4. Fit(y, m)
    BY <2>1, <2>3 DEF Fit, Loaded, Wizards, MaybeDrafts
  <2>5. Fit(schedule(y), m)
    BY <2>4 DEF Fit, Loaded, Wizards, schedule
  <2>6. y = [w EXCEPT !.draft.org = owned']
    BY <1>2, <2>2, <2>3
  <2>7. Show(IF owned' THEN schedule(y) ELSE y)
    BY <1>4, <2>6 DEF OwnedChanges
  <2>8. PICK x : x = IF o THEN schedule(y) ELSE y
    OBVIOUS
  <2>9. Show(x) /\ Fit(x, m)
    BY <1>2, <2>4, <2>5, <2>7, <2>8
  <2> QED
    BY <1>1, <1>3, <2>1, <2>9, LocalType
<1>5. CASE ~(Open /\ w.draft.org # owned')
  <2>1. UNCHANGED <<w, stored>>
    BY <1>5 DEF OwnedChanges
  <2> QED
    BY <1>1, <1>3, <2>1, NothingGrows, KeepType DEF ShapeInv
<1> QED
  BY <1>4, <1>5

LEMMA StoredType ==
  ASSUME ShapeInv, NEW key \in Nat
  PROVE  Stored(key) = NoDraft \/ Stored(key) \in Drafts(Len(events))
  BY DEF ShapeInv, StoreFits, Stored

LEMMA HydrateNewType ==
  ASSUME ShapeInv, HydrateNew, Calm, tabs' \in Nat
  PROVE  ShapeInv'
<1>1. PICK m \in Nat : m = Len(events)
  BY DEF ShapeInv, ServerOK
<1>2. PICK d \in Drafts(m) : d = restoreDraft(Stored(0), tabs)
  <2>1. emptyDraft(owned, tabs) \in Drafts(m)
    BY EmptyDraft DEF ShapeInv
  <2>2. Stored(0) = NoDraft \/ Stored(0) \in Drafts(m)
    BY <1>1, StoredType
  <2>3. ASSUME NEW c \in Drafts(m) PROVE [c EXCEPT !.org = owned, !.gen = tabs] \in Drafts(m)
    <3>1. owned \in BOOLEAN /\ tabs \in Nat
      BY DEF ShapeInv
    <3> QED
      BY <3>1, DraftEdits, Zenon
  <2>4. CASE Stored(0) = NoDraft \/ (Stored(0).eid # 0 /\ Stored(0).org # owned)
    BY <2>1, <2>4 DEF restoreDraft
  <2>5. CASE ~(Stored(0) = NoDraft \/ (Stored(0).eid # 0 /\ Stored(0).org # owned))
    <3>1. restoreDraft(Stored(0), tabs) = [Stored(0) EXCEPT !.org = owned, !.gen = tabs]
      BY <2>5 DEF restoreDraft
    <3>2. PICK c \in Drafts(m) : c = Stored(0)
      BY <2>2, <2>5
    <3> QED
      BY <2>3, <3>1, <3>2, Zenon
  <2> QED
    BY <2>4, <2>5
<1>3. PICK p \in Prints : p = IF d.eid # 0 THEN patchFingerprint(d) ELSE NoPrint
  BY PrintType DEF Prints
<1>4. PICK st \in States : st = IF d.eid # 0 THEN "saved" ELSE "local"
  BY DEF States
<1> PICK t \in Tolds : t = IF OnServer(d) THEN <<d.eid, events[d.eid].ver>> ELSE NoTold
  <2>1. ASSUME d.eid # 0 PROVE d.eid \in Nat /\ events[d.eid].ver \in Nat
    <3>1. d.eid \in 1 .. m /\ events \in Seq(Events)
      BY <2>1 DEF Drafts, DraftRecs, ShapeInv, ServerOK
    <3>2. events[d.eid] \in Events
      BY <1>1, <3>1, ElementOfSeq
    <3> QED
      BY <3>1, <3>2 DEF Events
  <2>2. d.eid # 0 => <<d.eid, events[d.eid].ver>> \in Tolds
    BY <2>1, ToldPairs
  <2>3. NoTold \in Tolds
    BY ToldPairs
  <2> QED
    BY <2>2, <2>3 DEF OnServer
<1>5. PICK y : y = [Closed EXCEPT !.mode = "create", !.draft = d, !.savedEvent = p, !.told = t,
                                  !.st = st]
  OBVIOUS
<1>6. Closed.save = Idle /\ Closed \in Wizards(m) /\ d \in MaybeDrafts(m)
  BY ClosedType DEF Closed, MaybeDrafts
<1>7. y \in Wizards(m) /\ y.mode = "create" /\ y.draft = d /\ y.save = Idle
  BY <1>5, <1>6 DEF Wizards
<1>8. Fit(y, m)
  BY <1>7 DEF Fit, Loaded, SaveOK
<1>9. Fit(schedule(y), m)
  BY <1>8 DEF Fit, Loaded, Wizards, schedule
<1>10. Show(IF d.eid = 0 /\ canCreate(d) THEN schedule(y) ELSE y)
  BY <1>2, <1>3, <1>4, <1>5 DEF HydrateNew
<1>11. PICK x : Show(x) /\ Fit(x, m)
  BY <1>8, <1>9, <1>10
<1> QED
  BY <1>1, <1>11, PersonType

(* The tiers the server confirmed, from its own rows.                      *)
ServerTiers(server) == [i \in {server.tiers[k].sid : k \in Tiers} \ {0} |->
                           [val |-> tierRows[i].val, ver |-> tierRows[i].ver]]

LEMMA ServerTiersType ==
  ASSUME ServerOK, NEW e \in DOMAIN events, NEW server, server.tiers = TiersOf(e)
  PROVE  /\ ServerTiers(server) \in SavedMaps
         /\ \A i \in DOMAIN ServerTiers(server) :
              /\ i \in DOMAIN tierRows
              /\ ServerTiers(server)[i] = [val |-> tierRows[i].val, ver |-> tierRows[i].ver]
<1> DEFINE S == {server.tiers[k].sid : k \in Tiers} \ {0}
<1>1. \A k \in Tiers : server.tiers[k].sid # 0 => server.tiers[k].sid \in DOMAIN tierRows
  <2> SUFFICES ASSUME NEW k \in Tiers, server.tiers[k].sid # 0
               PROVE  server.tiers[k].sid \in DOMAIN tierRows
    OBVIOUS
  <2> DEFINE ids == {i \in DOMAIN tierRows : tierRows[i].event = e /\ tierRows[i].key = k}
  <2>1. ids # {}
    BY DEF TiersOf, NoTier
  <2>2. Len(tierRows) \in Nat /\ ids \in SUBSET (1 .. Len(tierRows))
    BY DEF ServerOK
  <2> HIDE DEF ids
  <2>3. PICK i \in ids : i = Max(ids)
    BY <2>1, <2>2, MaxIsThere
  <2>4. server.tiers[k].sid = i
    BY <2>1, <2>3 DEF TiersOf, ids
  <2> QED
    BY <2>3, <2>4 DEF ids
<1>2. \A i \in S : i \in Nat /\ tierRows[i] \in TierRows
  <2> SUFFICES ASSUME NEW i \in S PROVE i \in Nat /\ tierRows[i] \in TierRows
    OBVIOUS
  <2>1. i \in DOMAIN tierRows
    BY <1>1
  <2>2. tierRows \in Seq(TierRows)
    BY DEF ServerOK
  <2> HIDE DEF S
  <2> QED
    BY <2>1, <2>2, ElementOfSeq
<1> DEFINE marks == [i \in S |-> [val |-> tierRows[i].val, ver |-> tierRows[i].ver]]
<1>3. ServerTiers(server) = marks /\ S \subseteq DOMAIN tierRows
  BY <1>1 DEF ServerTiers
<1> HIDE DEF S
<1>4. marks \in [S -> TierMarks] /\ S \in SUBSET Nat
  BY <1>2 DEF TierRows, TierMarks
<1> QED
  BY <1>3, <1>4 DEF SavedMaps

LEMMA HydrateEditType ==
  ASSUME ShapeInv, NEW e \in DOMAIN events, HydrateEdit(e), Calm, tabs' \in Nat
  PROVE  ShapeInv'
<1>1. PICK m \in Nat : m = Len(events) /\ e \in 1 .. m
  BY DEF ShapeInv, ServerOK
<1>2. PICK server : server = draftFromEvent(e, tabs)
  OBVIOUS
<1>3. ServerOK /\ owned \in BOOLEAN /\ tabs \in Nat
  BY DEF ShapeInv
<1>4. server \in Drafts(m) /\ server.eid = e /\ server.ver = events[e].ver
  BY <1>1, <1>2, <1>3, ServerDrafts
<1>5. server.tiers = TiersOf(e)
  BY <1>2, <1>3 DEF draftFromEvent, emptyDraft
<1>6. PICK f \in SavedMaps : f = ServerTiers(server)
  BY <1>3, <1>5, ServerTiersType
<1>7. PICK p \in Prints : p = patchFingerprint(server)
  BY <1>4, PrintType
<1>8. PICK b \in BOOLEAN : b = ~events[e].live
  OBVIOUS
<1>9. PICK d \in Drafts(m) :
        d = IF Usable(Stored(e), server)
            THEN [Stored(e) EXCEPT !.eid = e, !.ver = server.ver, !.gen = tabs]
            ELSE server
  <2>1. CASE Usable(Stored(e), server)
    <3>1. PICK c \in Drafts(m) : c = Stored(e) /\ c.ver = server.ver
      BY <1>1, <2>1, StoredType DEF Usable
    <3>2. [c EXCEPT !.eid = e, !.ver = c.ver, !.gen = tabs] \in Drafts(m)
      BY <1>1, <1>3, <3>1, DraftEdits, Zenon
    <3> QED
      BY <2>1, <3>1, <3>2
  <2>2. CASE ~Usable(Stored(e), server)
    BY <1>4, <2>2
  <2> QED
    BY <2>1, <2>2
<1> PICK t \in Tolds : t = <<e, server.ver>>
  <2>1. e \in Nat /\ server.ver \in Nat
    BY <1>1, <1>4 DEF Drafts, DraftRecs
  <2> QED
    BY <2>1, ToldPairs
<1>10. PICK y : y = [Closed EXCEPT !.mode = "edit", !.source = e, !.draft = d, !.savedEvent = p,
                                   !.told = t, !.savedTiers = f, !.submittable = b, !.st = "saved"]
  OBVIOUS
<1>11. Closed.save = Idle /\ Closed \in Wizards(m) /\ d \in MaybeDrafts(m)
  BY ClosedType DEF Closed, MaybeDrafts
<1>12. y \in Wizards(m) /\ y.mode = "edit" /\ y.draft = d /\ y.save = Idle
  <2>1. e \in 0 .. m /\ "saved" \in States /\ "edit" \in {"none", "create", "edit", "clone"}
    BY <1>1 DEF States
  <2>2. y \in Wizards(m)
    BY <1>10, <1>11, <2>1 DEF Wizards
  <2>3. y.mode = "edit" /\ y.draft = d /\ y.save = Idle
    BY <1>10, <1>11 DEF Wizards
  <2> QED
    BY <2>2, <2>3
<1>13. Fit(y, m)
  BY <1>12 DEF Fit, Loaded, SaveOK
<1>14. Show(y)
  BY <1>2, <1>6, <1>7, <1>8, <1>9, <1>10 DEF HydrateEdit, ServerTiers
<1> QED
  BY <1>1, <1>13, <1>14, PersonType

LEMMA HydrateCloneType ==
  ASSUME ShapeInv, NEW e \in DOMAIN events, HydrateClone(e), Calm, tabs' \in Nat
  PROVE  ShapeInv'
<1>1. PICK m \in Nat : m = Len(events)
  BY DEF ShapeInv, ServerOK
<1>2. PICK d \in Drafts(m) : d = cloneDraftFrom(e, tabs)
  BY <1>1, ServerDrafts DEF ShapeInv
<1>3. w \in Wizards(m) /\ SaveOK(w.save, m)
  <2>1. CASE w = Closed
    BY <2>1, ClosedType DEF SaveOK, Closed
  <2>2. CASE w # Closed
    BY <1>1, <2>2 DEF ShapeInv, Fit, Loaded
  <2> QED
    BY <2>1, <2>2
<1>4. /\ <<>> \in Seq(Drafts(m)) /\ <<>> \in SavedMaps /\ d \in MaybeDrafts(m)
      /\ NoPrint \in Prints /\ NoTold \in Tolds
  <2>1. Closed.savedTiers \in SavedMaps
    BY ClosedType DEF Wizards
  <2> QED
    BY <2>1, EmptySeq DEF MaybeDrafts, Prints, Closed, Tolds, NoTold
<1>5. PICK y : y = [w EXCEPT !.mode = "clone", !.draft = d, !.past = <<>>, !.future = <<>>,
                             !.savedEvent = NoPrint, !.told = NoTold, !.savedTiers = <<>>, !.file = FALSE,
                             !.st = "local", !.touched = FALSE]
  OBVIOUS
<1>6. y \in Wizards(m) /\ y.mode = "clone" /\ y.draft = d /\ y.save = w.save
  BY <1>3, <1>4, <1>5, Zenon DEF Wizards, States
<1>7. Fit(y, m)
  BY <1>3, <1>6 DEF Fit, Loaded
<1>8. Show(y)
  BY <1>2, <1>5 DEF HydrateClone
<1> QED
  BY <1>1, <1>7, <1>8, PersonType

LEMMA MountType == ASSUME ShapeInv, Mount PROVE ShapeInv'
<1>1. Calm /\ tabs' \in Nat
  BY TabsType DEF Mount
<1> QED
  BY <1>1, HydrateNewType, HydrateEditType, HydrateCloneType DEF Mount

LEMMA CloseType == ASSUME ShapeInv, Close PROVE ShapeInv'
  BY DEF ShapeInv, Close, Calm, countVars, ServerOK, StoreFits

LEMMA PublishType == ASSUME ShapeInv, publish PROVE ShapeInv'
<1>1. Open /\ Calm /\ tabs' \in Nat
  BY TabsType DEF publish
<1>2. PICK m \in Nat : m = Len(events) /\ Fit(w, m) /\ w.draft \in MaybeDrafts(m)
  BY <1>1, OpenIsFit DEF Loaded, MaybeDrafts
<1>3. PICK y : y = flush(w, online)
  OBVIOUS
<1>4. Fit(y, m)
  BY <1>2, <1>3, FlushType
<1>5. PICK p \in {"no", "flushing", "call"} : p = IF y.save.on /\ ~w.save.on THEN "flushing" ELSE "call"
  OBVIOUS
<1>6. PICK x : x = [y EXCEPT !.publishing = p, !.pressed = w.draft]
  OBVIOUS
<1>7. Fit(x, m)
  <2>1. y \in Wizards(m) /\ y.mode # "none" /\ y.draft \in Drafts(m) /\ SaveOK(y.save, m)
    BY <1>4 DEF Fit, Loaded
  <2>2. p \in {"no", "flushing", "call"} /\ w.draft \in MaybeDrafts(m)
    BY <1>2
  <2>3. x \in Wizards(m)
    BY ONLY <2>1, <2>2, <1>6 DEF Wizards
  <2>4. x.mode = y.mode /\ x.draft = y.draft /\ x.save = y.save
    BY ONLY <2>1, <1>6 DEF Wizards
  <2> QED
    BY <2>1, <2>3, <2>4 DEF Fit, Loaded
<1>8. Show(x)
  BY <1>3, <1>5, <1>6 DEF publish
<1> QED
  BY <1>1, <1>2, <1>7, <1>8, PersonType

LEMMA GoLiveGrows ==
  ASSUME ShapeInv, NEW e \in DOMAIN events, GoLive(e), UNCHANGED tierRows
  PROVE  Grows /\ Len(events') = Len(events)
<1>1. events[e] \in Events
  BY ElementOfSeq DEF ShapeInv, ServerOK
<1>2. PICK row \in Events : events' = [events EXCEPT ![e] = row] /\ events[e].rows \subseteq row.rows
  <2> DEFINE new == [events[e] EXCEPT !.live = TRUE, !.ver = @ + 1]
  <2>1. events[e].ver + 1 \in Nat
    BY <1>1 DEF Events
  <2>2. new \in Events /\ new.rows = events[e].rows
    BY <1>1, <2>1 DEF Events
  <2> QED
    BY <2>2 DEF GoLive
<1> QED
  BY <1>2, EventsKept DEF ShapeInv

LEMMA LeaveType ==
  ASSUME ShapeInv, Grows, UNCHANGED <<online, owned, tabs>>, Open, LeaveNothing \/ LeaveEmpty
  PROVE  ShapeInv'
<1>1. PICK m \in Nat : m = Len(events)
  BY DEF ShapeInv, ServerOK
<1>2. PICK n \in Nat : n = Len(events') /\ m =< n
  BY <1>1 DEF Grows, ServerOK
<1>3. StoreFits(stored, n)
  BY <1>1, <1>2, StoreGrows DEF ShapeInv
<1>4. StoreFits(stored', n)
  <2>1. CASE LeaveNothing
    BY <1>3, <2>1 DEF StoreFits, LeaveNothing, Restrict
  <2>2. CASE LeaveEmpty
    <3>1. PICK key \in Nat : key = draftStorageKey(w)
      BY OpenIsFit DEF Loaded, Wizards, draftStorageKey
    <3>2. PICK d \in Drafts(n) : d = emptyDraft(owned, 0)
      BY EmptyDraft DEF ShapeInv
    <3>3. stored' = Put(stored, key, d)
      BY <2>2, <3>1, <3>2 DEF LeaveEmpty
    <3> QED
      BY <1>3, <3>2, <3>3 DEF StoreFits, Put
  <2> QED
    BY <2>1, <2>2
<1>5. StoreFits(stored, Len(events))' /\ w' = Closed
  BY <1>2, <1>4 DEF StoreFits, LeaveNothing, LeaveEmpty
<1>6. (w = Closed)'
  BY <1>5 DEF Closed
<1> QED
  BY <1>5, <1>6 DEF ShapeInv, Grows

LEMMA NotPublishedType ==
  ASSUME ShapeInv, Grows, UNCHANGED <<online, owned, tabs>>, Open, NotPublished
  PROVE  ShapeInv'
<1>1. PICK n \in Nat : n = Len(events') /\ Fit(w, n)
  <2>1. PICK m \in Nat : m = Len(events) /\ Fit(w, m)
    BY OpenIsFit
  <2>2. PICK n \in Nat : n = Len(events') /\ m =< n
    BY <2>1 DEF Grows, ServerOK
  <2> QED
    BY <2>1, <2>2, WizardsGrow
<1>2. PICK x : x = [w EXCEPT !.publishing = "no", !.pressed = NoDraft]
  OBVIOUS
<1>3. Fit(x, n)
  BY <1>1, <1>2 DEF Fit, Loaded, Wizards, MaybeDrafts
<1>4. Show(x)
  BY <1>2 DEF NotPublished
<1>5. online' \in BOOLEAN /\ owned' \in BOOLEAN /\ tabs' \in Nat
  BY DEF ShapeInv
<1> QED
  BY <1>1, <1>3, <1>4, <1>5, ShowType

LEMMA PublishCallGrows == ASSUME ShapeInv, PublishCall PROVE Grows
<1>1. w.draft.eid # 0 => w.draft.eid \in DOMAIN events
  <2>1. w.draft \in Drafts(Len(events)) /\ Len(events) \in Nat /\ events \in Seq(Events)
    BY OpenIsFit DEF PublishCall, Loaded, ShapeInv, ServerOK
  <2> QED
    BY <2>1 DEF Drafts, DraftRecs
<1>2. UNCHANGED <<events, tierRows>> => Grows
  BY NothingGrows DEF ShapeInv
<1>3. w.draft.eid # 0 /\ GoLive(w.draft.eid) /\ UNCHANGED tierRows => Grows
  BY <1>1, GoLiveGrows
<1> QED
  BY <1>2, <1>3 DEF PublishCall, serverVars

LEMMA PublishCallType == ASSUME ShapeInv, PublishCall PROVE ShapeInv'
<1>1. Open /\ UNCHANGED <<online, owned, tabs>> /\ (LeaveNothing \/ LeaveEmpty \/ NotPublished)
  BY DEF PublishCall
<1> QED
  BY <1>1, PublishCallGrows, LeaveType, NotPublishedType

Others(e) == (\E text \in Texts, rest \in Rests : OtherEdit(e, text, rest)) \/ OtherPublish(e)

LEMMA OthersGrow == ASSUME ShapeInv, NEW e \in DOMAIN events, Others(e) PROVE Grows
<1>1. CASE OtherPublish(e)
  BY <1>1, GoLiveGrows DEF OtherPublish
<1>2. ASSUME NEW text \in Texts, NEW rest \in Rests, OtherEdit(e, text, rest)
      PROVE  Grows
  <2>1. events[e] \in Events /\ text \in TextVals
    BY ElementOfSeq DEF ShapeInv, ServerOK, TextVals
  <2>2. PICK ver \in Nat : ver = events[e].ver + 1
    BY <2>1 DEF Events
  <2>3. PICK row : row = [events[e] EXCEPT !.text = text, !.rest = rest, !.ver = ver]
    OBVIOUS
  <2>4. row \in Events /\ row.rows = events[e].rows
    BY <2>1, <2>2, <2>3 DEF Events
  <2>5. events' = [events EXCEPT ![e] = row] /\ UNCHANGED tierRows
    BY <1>2, <2>2, <2>3 DEF OtherEdit
  <2> QED
    BY <2>4, <2>5, EventsKept DEF ShapeInv
<1> QED
  BY <1>1, <1>2 DEF Others

LEMMA OthersType == ASSUME ShapeInv, NEW e \in DOMAIN events, Others(e) PROVE ShapeInv'
<1>1. UNCHANGED <<w, stored, online, owned>> /\ tabs' \in Nat
  BY TabsType, Zenon DEF Others, OtherEdit, OtherPublish
<1> QED
  BY <1>1, OthersGrow, KeepType DEF ShapeInv

LEMMA ShapeStep == ASSUME ShapeInv, Next PROVE ShapeInv'
<1>1. ASSUME Person PROVE ShapeInv'
  BY <1>1, FieldsType, PosterType, UndoRedoType, SaveNowType, MountType, CloseType, PublishType,
     OthersType DEF Person, Fields, Others
<1>2. ASSUME Network PROVE ShapeInv'
  BY <1>2, GoOfflineType, GoOnlineType, OwnedChangesType DEF Network
<1> QED
  BY <1>1, <1>2, SaveStepSent, SentType, TimersType, PublishCallType DEF Next

LEMMA ShapeStutter == ASSUME ShapeInv, UNCHANGED vars PROVE ShapeInv'
<1>1. UNCHANGED <<w, stored, events, tierRows, online, owned, tabs>>
  BY DEF vars, countVars
<1>2. online' \in BOOLEAN /\ owned' \in BOOLEAN /\ tabs' \in Nat
  BY <1>1 DEF ShapeInv
<1> QED
  BY <1>1, <1>2, NothingGrows, KeepType DEF ShapeInv

LEMMA ShapeAlways == Spec => []ShapeInv
<1>1. ShapeInv /\ [Next]_vars => ShapeInv'
  BY ShapeStep, ShapeStutter
<1> QED
  BY <1>1, ShapeInit, PTL DEF Spec

(* TYPES, AND A SAVE'S SHAPE (WizTypeOK): what a save works on exists by   *)
(* the stage it is at, and the draft that is shown is the one a crash      *)
(* would leave in localStorage (use-wizard.ts:345-365, 482-720).           *)
THEOREM WizardTypeCorrect == Spec => []WizTypeOK
<1>1. ShapeInv => WizTypeOK
  <2> SUFFICES ASSUME ShapeInv PROVE WizTypeOK
    OBVIOUS
  <2>1. PICK m \in Nat : m = Len(events) /\ DOMAIN events = 1 .. m
    BY DEF ShapeInv, ServerOK
  <2>2. CASE w = Closed
    BY <2>2 DEF WizTypeOK, Closed, Idle, Open, States
  <2>3. CASE Fit(w, m) /\ InStore(w, stored)
    <3>1. w.mode \in {"none", "create", "edit", "clone"} /\ w.st \in States /\ w.draft \in Drafts(m)
      BY <2>3 DEF Fit, Loaded, Wizards
    <3>2. w.save.on => /\ w.save.stage \in 1 .. 5
                       /\ w.save.stage > 1 => w.save.draft.eid \in DOMAIN events
      <4>1. CASE w.save = Idle
        BY <4>1 DEF Idle
      <4>2. CASE /\ w.save.draft \in Drafts(m) /\ w.save.stage \in 1 .. 5
                 /\ w.save.stage > 1 => w.save.draft.eid # 0
        BY <2>1, <4>2 DEF Drafts, DraftRecs
      <4> QED
        BY <2>3, <4>1, <4>2 DEF Fit, SaveOK, Begun
    <3>3. ~w.save.on => w.save = Idle
      BY <2>3 DEF Fit, SaveOK, Begun
    <3>4. Stored(draftStorageKey(w)) = w.draft
      BY <2>3 DEF InStore, Stored
    <3>5. w.draft.eid # 0 => w.draft.eid \in DOMAIN events
      BY <2>1, <3>1 DEF Drafts, DraftRecs
    <3> QED
      BY <3>1, <3>2, <3>3, <3>4, <3>5 DEF WizTypeOK
  <2> QED
    BY <2>1, <2>2, <2>3 DEF ShapeInv
<1> QED
  BY <1>1, ShapeAlways, PTL

-----------------------------------------------------------------------------
(* Nobody's edit is reverted.                                              *)

(* Each step is counted at most once.                                      *)
LEMMA WhatIsCounted ==
  ASSUME Next
  PROVE  Edit \/ Tab \/ World \/ UNCHANGED <<edits, tabs, world>>
<1>1. SaveStep => UNCHANGED <<edits, tabs, world>>
  BY Zenon DEF SaveStep, CreateEvent, UpdateEvent, UploadPoster, SetEventCrew, AddRow, WriteTier, Request
<1>2. Timers \/ PublishCall => UNCHANGED <<edits, tabs, world>>
  BY DEF Timers, TimerFires, RetryFires, PublishCall, countVars
<1>3. Network => World \/ UNCHANGED <<edits, tabs, world>>
  BY Zenon DEF Network, GoOffline, GoOnline, OwnedChanges, countVars
<1>4. Person => Edit \/ Tab \/ World \/ UNCHANGED <<edits, tabs, world>>
  BY Zenon DEF Person, Type, setTiers, StageRow, StageCrew, setPoster, undo, redo, saveNow, Mount, Close,
         publish, OtherEdit, OtherPublish, countVars
<1> QED
  BY <1>1, <1>2, <1>3, <1>4 DEF Next

Counted == edits \in Nat /\ tabs \in Nat /\ world \in Nat

LEMMA CountedAlways == Spec => []Counted
<1>1. Init => Counted
  BY DEF Init, Counted
<1>2. Counted /\ [Next]_vars => Counted'
  BY WhatIsCounted DEF Counted, Edit, Tab, World, vars, countVars
<1> QED
  BY <1>1, <1>2, PTL DEF Spec

(* Only an accepted updateEvent writes the fields of an event there was.   *)
LEMMA WhoWrites ==
  ASSUME ShapeInv, Counted, Next, NEW e \in DOMAIN events, UNCHANGED world,
         patchFingerprint(events'[e]) # patchFingerprint(events[e])
  PROVE  w.save.draft.on = events[e].ver
<1>1. events[e] \in Events /\ events \in Seq(Events)
  BY ElementOfSeq DEF ShapeInv, ServerOK
<1>2. UNCHANGED events => FALSE
  OBVIOUS
<1>3. ASSUME SaveStep PROVE w.save.draft.on = events[e].ver
  <2>1. ASSUME CreateEvent PROVE FALSE
    <3>1. PICK row : events' = Append(events, row)
      BY <1>2, <2>1, Zenon DEF CreateEvent, Request, serverVars
    <3>2. events'[e] = events[e]
      BY <1>1, <3>1
    <3> QED
      BY <3>2
  <2>2. ASSUME UpdateEvent PROVE w.save.draft.on = events[e].ver
    <3> DEFINE d == w.save.draft
    <3>1. /\ w.save.on /\ d.ver = events[d.eid].ver
          /\ events' = [events EXCEPT ![d.eid].text = toPatchInput(d).text,
                                      ![d.eid].rest = toPatchInput(d).rest,
                                      ![d.eid].ver = @ + 1]
      BY <1>2, <2>2, Zenon DEF UpdateEvent, Request, serverVars, At, toPatchInput
    <3>2. w.save.draft.eid = e
      BY <1>1, <3>1
    <3>3. w.save.draft.ver = w.save.draft.on
      BY <3>1, SavingNow DEF Begun, Drafts
    <3> QED
      BY <3>1, <3>2, <3>3
  <2>3. ASSUME UploadPoster PROVE FALSE
    <3>1. events' = [events EXCEPT ![w.save.draft.eid].ver = @ + 1]
      BY <1>2, <2>3 DEF UploadPoster, Request, serverVars
    <3> QED
      BY <1>1, <3>1 DEF patchFingerprint, Events
  <2>4. ASSUME NEW r \in Rows, AddRow(r) PROVE FALSE
    <3>1. events' = [events EXCEPT ![w.save.draft.eid].rows = @ \cup {r}]
      BY <1>2, <2>4 DEF AddRow, Request, serverVars
    <3> QED
      BY <1>1, <3>1 DEF patchFingerprint, Events
  <2>5. ASSUME SetEventCrew PROVE FALSE
    <3>1. events' = [events EXCEPT ![w.save.draft.eid].crew = w.save.draft.crew]
      BY <1>2, <2>5 DEF SetEventCrew, Request, serverVars
    <3> QED
      BY <1>1, <3>1 DEF patchFingerprint, Events
  <2>6. ASSUME NEW k \in Tiers, WriteTier(k) PROVE FALSE
    BY <1>2, <2>6, Zenon DEF WriteTier, Request, serverVars
  <2> QED
    BY <1>3, <2>1, <2>2, <2>3, <2>4, <2>5, <2>6 DEF SaveStep
<1>4. ASSUME NEW i, GoLive(i) PROVE FALSE
  <2>1. events' = [events EXCEPT ![i].live = TRUE, ![i].ver = @ + 1]
    BY <1>4 DEF GoLive
  <2> QED
    BY <1>1, <2>1 DEF patchFingerprint, Events
<1>5. PublishCall => FALSE
  BY <1>2, <1>4 DEF PublishCall, serverVars
<1>6. Timers \/ Network => FALSE
  BY <1>2, Zenon DEF Timers, TimerFires, RetryFires, Network, GoOffline, GoOnline, OwnedChanges
<1>7. World => FALSE
  BY DEF World, Counted
<1>8. Person => FALSE
  BY <1>2, <1>7, Zenon DEF Person, Type, setTiers, StageRow, StageCrew, setPoster, undo, redo, saveNow,
     Mount, Close, publish, OtherEdit, OtherPublish, Calm
<1> QED
  BY <1>3, <1>5, <1>6, <1>8 DEF Next

(* NOBODY'S EDIT IS REVERTED UNSEEN (NoSilentRevert): the version a draft  *)
(* carries is always the one its fields were read at or saved as, through  *)
(* restores, undo and merges, so the server's check of the version is a    *)
(* check of the fields (use-wizard.ts:230-243, 275-278, 508-512).          *)
THEOREM OthersAreNotReverted == Spec => NoSilentRevert
<1>1. ShapeInv /\ Counted /\ [Next]_vars =>
        [\A e \in DOMAIN events :
           patchFingerprint(events'[e]) # patchFingerprint(events[e]) /\ world' = world
             => w.save.draft.on = events[e].ver]_vars
  BY WhoWrites DEF vars, countVars
<1> QED
  BY <1>1, ShapeAlways, CountedAlways, PTL DEF Spec, NoSilentRevert
-----------------------------------------------------------------------------
(* The badge settles, and no edit is stranded.                             *)

IsConfirmed(x) ==
  /\ x.draft.eid # 0 /\ patchFingerprint(x.draft) = x.savedEvent
  /\ \A k \in Tiers :
       tierIsSavable(x.draft.tiers[k]) =>
         /\ x.draft.tiers[k].sid \in DOMAIN x.savedTiers
         /\ x.savedTiers[x.draft.tiers[k].sid].val = x.draft.tiers[k].val

(* What the badge says, and what is queued, has a save or a timer behind   *)
(* it ...                                                                  *)
Marked(x) ==
  /\ x.pending => x.save.on
  /\ x.st = "saving" => x.save.on
  /\ x.st = "dirty" => x.timer \/ x.save.on
  /\ x.st = "saved" => ~x.save.on

(* ... and with nothing queued, what is shown is what the running save     *)
(* works on, or what it got confirmed, or a draft that cannot be saved.    *)
Unqueued(x, connected) == connected /\ x.touched /\ ~x.timer /\ ~x.pending

Settling(x, connected) ==
  /\ Marked(x)
  /\ Unqueued(x, connected) =>
       IF x.save.on
       THEN /\ Same(x.save.draft, x.draft)
            /\ x.save.stage > 1 => x.savedEvent = patchFingerprint(x.save.draft)
       ELSE /\ x.st = "saved" => IsConfirmed(x)
            /\ x.st = "local" => ~canCreate(x.draft)

LEMMA FinishFields ==
  ASSUME NEW n \in Nat, NEW x, Loaded(x, n)
  PROVE  /\ Finish(x).save = Idle /\ Finish(x).draft = x.draft /\ Finish(x).st = x.st
         /\ Finish(x).pending = FALSE /\ Finish(x).future = x.future
         /\ Finish(x).savedEvent = x.savedEvent /\ Finish(x).savedTiers = x.savedTiers
         /\ Finish(x).told = x.told
         /\ Finish(x).timer = (x.timer \/ x.pending) /\ Finish(x).touched = (x.touched \/ x.pending)
<1> DEFINE y == [x EXCEPT !.save = Idle, !.pending = FALSE,
                          !.publishing = IF @ = "flushing" THEN "call" ELSE @]
           z == [y EXCEPT !.timer = TRUE, !.touched = TRUE]
<1>1. x \in Wizards(n) /\ x.timer \in BOOLEAN /\ x.touched \in BOOLEAN /\ x.pending \in BOOLEAN
  BY DEF Loaded, Wizards
<1>2. /\ y.save = Idle /\ y.draft = x.draft /\ y.st = x.st /\ y.pending = FALSE
      /\ y.future = x.future /\ y.savedEvent = x.savedEvent /\ y.savedTiers = x.savedTiers
      /\ y.timer = x.timer /\ y.touched = x.touched /\ y.told = x.told
  BY <1>1 DEF Wizards
<1>3. z.timer = TRUE /\ z.touched = TRUE /\ z.save = y.save /\ z.draft = y.draft /\ z.st = y.st
  BY <1>1 DEF Wizards
<1>4. /\ z.pending = y.pending /\ z.future = y.future /\ z.savedEvent = y.savedEvent
      /\ z.savedTiers = y.savedTiers /\ z.told = y.told
  BY <1>1 DEF Wizards
<1>5. Finish(x) = IF x.pending THEN z ELSE y
  BY DEF Finish, schedule
<1> HIDE DEF y, z
<1> QED
  BY <1>1, <1>2, <1>3, <1>4, <1>5

(* A save that has nothing left to write and no newer work to merge leaves *)
(* the draft confirmed.                                                    *)
LEMMA MergedIsConfirmed ==
  ASSUME NEW n \in Nat, NEW x, Loaded(x, n), Begun(x.save, n),
         Same(x.save.draft, x.draft), x.savedEvent = patchFingerprint(x.save.draft),
         x.save.draft.eid # 0, ~HasWork(x, 5),
         NEW y, y.draft = Merged(x), y.savedEvent = x.savedEvent, y.savedTiers = x.savedTiers
  PROVE  IsConfirmed(y)
<1>1. PICK d : d = Merged(x)
  OBVIOUS
<1>2. d.eid # 0 /\ patchFingerprint(d) = x.savedEvent
  BY <1>1, MergedType DEF patchFingerprint, Same
<1>3. ASSUME NEW k \in Tiers, tierIsSavable(d.tiers[k])
      PROVE  d.tiers[k].sid \in DOMAIN x.savedTiers /\ x.savedTiers[d.tiers[k].sid].val = d.tiers[k].val
  <2>1. d.tiers[k] = MergedTier(x, k)
    BY <1>1, MergedType
  <2>2. /\ d.tiers[k].val = x.draft.tiers[k].val /\ x.draft.tiers[k].val = x.save.draft.tiers[k].val
        /\ d.tiers[k].sid = x.save.draft.tiers[k].sid
    BY <2>1, MergedTierType DEF Loaded, Begun, Same
  <2>3. ~Unsaved(x, k)
    BY DEF HasWork
  <2> QED
    BY <1>3, <2>2, <2>3 DEF Unsaved, tierIsSavable
<1> QED
  BY <1>1, <1>2, <1>3 DEF IsConfirmed

LEMMA SucceedSettles ==
  ASSUME NEW n \in Nat, NEW x, Loaded(x, n), Begun(x.save, n), x.save.draft.eid # 0, NEW connected,
         Unqueued(x, connected) =>
           /\ Same(x.save.draft, x.draft) /\ x.savedEvent = patchFingerprint(x.save.draft)
           /\ ~HasWork(x, 5)
  PROVE  Settling(Succeed(x), connected)
<1> PICK d : d = Merged(x)
  OBVIOUS
<1>1. d \in Drafts(n) /\ d \in MaybeDrafts(n) /\ x \in Wizards(n) /\ x.mode # "none"
  BY MergedType DEF Loaded, MaybeDrafts
<1> DEFINE y == [x EXCEPT !.draft = d, !.retryUsed = FALSE,
                          !.st = IF x.pending THEN "dirty" ELSE "saved"]
<1>2. Loaded(y, n)
  BY <1>1 DEF Loaded, Wizards, States
<1>3. /\ y.draft = d /\ y.st = (IF x.pending THEN "dirty" ELSE "saved") /\ y.timer = x.timer
      /\ y.touched = x.touched /\ y.pending = x.pending
      /\ y.savedEvent = x.savedEvent /\ y.savedTiers = x.savedTiers
  BY <1>1 DEF Wizards
<1>4. PICK z : z = Finish(y)
  OBVIOUS
<1>5. Succeed(x) = z
  BY <1>4 DEF Succeed
<1> HIDE DEF y
<1>6. /\ z.save = Idle /\ z.draft = d /\ z.st = y.st /\ z.pending = FALSE
      /\ z.savedEvent = x.savedEvent /\ z.savedTiers = x.savedTiers
      /\ z.timer = (x.timer \/ x.pending) /\ z.touched = (x.touched \/ x.pending)
  BY <1>2, <1>3, <1>4, FinishFields
<1>7. z.save.on = FALSE
  BY <1>6 DEF Idle
<1>8. x.pending \in BOOLEAN
  BY <1>1 DEF Wizards
<1>9. Marked(z)
  BY <1>3, <1>6, <1>7, <1>8 DEF Marked
<1>10. ASSUME Unqueued(z, connected) PROVE IsConfirmed(z) /\ z.st = "saved"
  <2>1. Unqueued(x, connected)
    BY <1>6, <1>10 DEF Unqueued
  <2> QED
    BY <1>3, <1>6, <2>1, MergedIsConfirmed DEF Unqueued
<1> QED
  BY <1>5, <1>7, <1>9, <1>10 DEF Settling

LEMMA FailSettles ==
  ASSUME NEW n \in Nat, NEW x, Loaded(x, n), NEW networkish \in BOOLEAN, NEW connected
  PROVE  Settling(Fail(x, networkish), connected)
<1>1. PICK s \in {"offline", "error"} : s = IF networkish THEN "offline" ELSE "error"
  OBVIOUS
<1>2. PICK a \in BOOLEAN : a = (x.retryTimer \/ (networkish /\ ~x.retryUsed))
  OBVIOUS
<1>3. PICK b \in BOOLEAN : b = (x.retryUsed \/ networkish)
  OBVIOUS
<1> DEFINE y == [x EXCEPT !.st = s, !.retryTimer = a, !.retryUsed = b]
<1>4. Loaded(y, n) /\ y.st = s
  BY DEF Loaded, Wizards, States
<1>5. Fail(x, networkish) = Finish(y)
  BY <1>1, <1>2, <1>3 DEF Fail
<1> HIDE DEF y
<1>6. PICK z : z = Finish(y)
  OBVIOUS
<1>7. z.save = Idle /\ z.st = s /\ z.pending = FALSE
  BY <1>4, <1>6, FinishFields
<1>8. z.save.on = FALSE
  BY <1>7 DEF Idle
<1> QED
  BY <1>5, <1>6, <1>7, <1>8 DEF Settling, Marked

LEMMA AfterSettles ==
  ASSUME NEW n \in Nat, NEW x, Loaded(x, n), Begun(x.save, n), NEW i \in 0 .. 4, NEW connected,
         x.st # "saved", i >= 1 => x.save.draft.eid # 0,
         Unqueued(x, connected) =>
           Same(x.save.draft, x.draft) /\ (i >= 1 => x.savedEvent = patchFingerprint(x.save.draft))
  PROVE  Settling(After(x, i), connected)
<1> DEFINE left == {j \in i + 1 .. 5 : HasWork(x, j)}
<1>1. i = 0 /\ ~HasWork(x, 1) =>
        x.savedEvent = patchFingerprint(x.save.draft) /\ x.save.draft.eid # 0
  BY DEF HasWork
<1>2. CASE left = {}
  <2>1. ~HasWork(x, 5) /\ (i = 0 => ~HasWork(x, 1))
    BY <1>2
  <2>2. After(x, i) = Succeed(x)
    BY <1>2 DEF After
  <2>3. i = 0 \/ i >= 1
    OBVIOUS
  <2> HIDE DEF left
  <2> QED
    BY <1>1, <2>1, <2>2, <2>3, SucceedSettles
<1>3. CASE left # {}
  <2>1. left \in SUBSET (1 .. 5)
    OBVIOUS
  <2>2. PICK m \in left : m = Min(left) /\ \A j \in left : m =< j
    BY <1>3, <2>1, MinIsThere
  <2>3. m \in 1 .. 5 /\ (m > 1 /\ i = 0 => ~HasWork(x, 1))
    BY <2>2
  <2>4. After(x, i) = [x EXCEPT !.save.stage = m]
    BY <1>3, <2>2 DEF After
  <2> HIDE DEF left
  <2>5. x.save \in Saves(n) /\ x \in Wizards(n)
    BY DEF Loaded, Wizards
  <2> PICK s : s = [x.save EXCEPT !.stage = m]
    OBVIOUS
  <2>6. s.on = x.save.on /\ s.draft = x.save.draft /\ s.stage = m
    BY <2>3, <2>5 DEF Saves
  <2> DEFINE y == [x EXCEPT !.save = s]
  <2>7. /\ y.draft = x.draft /\ y.save = s /\ y.st = x.st /\ y.pending = x.pending
        /\ y.timer = x.timer /\ y.touched = x.touched /\ y.savedEvent = x.savedEvent
    BY <2>5 DEF Wizards
  <2>8. After(x, i) = y
    BY <2>4
  <2> HIDE DEF y
  <2>9. y.save.on
    BY <2>6, <2>7 DEF Begun
  <2>10. Unqueued(y, connected) => Unqueued(x, connected)
    BY <2>7 DEF Unqueued
  <2>11. i = 0 \/ i >= 1
    OBVIOUS
  <2>12. Marked(y)
    BY <2>7, <2>9 DEF Marked
  <2>13. ASSUME Unqueued(y, connected)
         PROVE  /\ Same(y.save.draft, y.draft)
                /\ y.save.stage > 1 => y.savedEvent = patchFingerprint(y.save.draft)
    <3>1. Same(x.save.draft, x.draft) /\ (i >= 1 => x.savedEvent = patchFingerprint(x.save.draft))
      BY <2>10, <2>13
    <3>2. y.save.draft = x.save.draft /\ y.save.stage = m
      BY <2>6, <2>7
    <3> QED
      BY <1>1, <2>3, <2>7, <2>11, <3>1, <3>2
  <2> QED
    BY <2>8, <2>9, <2>12, <2>13 DEF Settling
<1> QED
  BY <1>2, <1>3

LEMMA FlushSettles ==
  ASSUME NEW n \in Nat, NEW x, Fit(x, n), NEW connected,
         x.pending => x.save.on, x.st = "saved" => ~x.save.on
  PROVE  Settling(flush(x, connected), connected)
<1>1. x \in Wizards(n) /\ x.save \in Saves(n) /\ x.draft \in Drafts(n) /\ Loaded(x, n)
  BY DEF Fit, Loaded, Wizards
<1>2. CASE ~connected
  <2>1. PICK y : y = [x EXCEPT !.st = "offline"]
    OBVIOUS
  <2>2. y.st = "offline" /\ y.save = x.save /\ y.pending = x.pending
    BY <1>1, <2>1 DEF Wizards
  <2>3. flush(x, connected) = y
    BY <1>2, <2>1 DEF flush
  <2> QED
    BY <1>2, <2>2, <2>3 DEF Settling, Marked, Unqueued
<1>3. CASE connected /\ x.save.on
  <2>1. PICK y : y = [x EXCEPT !.pending = TRUE]
    OBVIOUS
  <2>2. y.st = x.st /\ y.save = x.save /\ y.pending = TRUE
    BY <1>1, <2>1 DEF Wizards
  <2>3. flush(x, connected) = y
    BY <1>3, <2>1 DEF flush
  <2> QED
    BY <1>3, <2>2, <2>3 DEF Settling, Marked, Unqueued
<1>4. CASE connected /\ ~x.save.on /\ ~canCreate(x.draft)
  <2>1. PICK y : y = [x EXCEPT !.st = "local"]
    OBVIOUS
  <2>2. y.st = "local" /\ y.save = x.save /\ y.pending = x.pending /\ y.draft = x.draft
    BY <1>1, <2>1 DEF Wizards, States
  <2>3. flush(x, connected) = y
    BY <1>4, <2>1 DEF flush
  <2> QED
    BY <1>4, <2>2, <2>3 DEF Settling, Marked
<1>5. CASE connected /\ ~x.save.on /\ canCreate(x.draft)
  <2> PICK s : s = [on |-> TRUE, draft |-> x.draft, stage |-> 0, rows |-> x.draft.rows,
                    landed |-> {}, crewSynced |-> FALSE]
    OBVIOUS
  <2>1. s \in Saves(n) /\ Begun(s, n) /\ s.draft = x.draft
    BY <1>1 DEF Saves, Begun, MaybeDrafts, Drafts, DraftRecs
  <2> DEFINE y == [x EXCEPT !.st = "saving", !.save = s]
  <2>2. Loaded(y, n) /\ y.save = s /\ y.st = "saving" /\ y.draft = x.draft
    BY <1>1, <2>1 DEF Loaded, Wizards, States
  <2>3. flush(x, connected) = After(y, 0)
    BY <1>5 DEF flush
  <2> HIDE DEF y
  <2>4. Same(y.save.draft, y.draft)
    BY <2>1, <2>2 DEF Same
  <2>5. 0 \in 0 .. 4 /\ ~(0 >= 1)
    OBVIOUS
  <2> QED
    BY <2>1, <2>2, <2>3, <2>4, <2>5, AfterSettles
<1> QED
  BY <1>2, <1>3, <1>4, <1>5

(* With the autosave timer running nothing else is asked for.              *)
LEMMA TimedSettles ==
  ASSUME NEW x, NEW connected, x.timer = TRUE, x.pending => x.save.on, x.st # "saving",
         x.st = "saved" => ~x.save.on
  PROVE  Settling(x, connected)
  BY DEF Settling, Marked, Unqueued

LEMMA ScheduleFields ==
  ASSUME NEW n \in Nat, NEW x \in Wizards(n)
  PROVE  /\ schedule(x).timer = TRUE /\ schedule(x).st = x.st /\ schedule(x).pending = x.pending
         /\ schedule(x).save = x.save /\ schedule(x).draft = x.draft
         /\ schedule(x).future = x.future /\ schedule(x).mode = x.mode
  BY DEF schedule, Wizards

LEMMA UpdateFields ==
  ASSUME NEW n \in Nat, NEW x, Loaded(x, n), NEW next \in Drafts(n)
  PROVE  /\ update(x, next).timer = TRUE /\ update(x, next).st \in {"offline", "dirty"}
         /\ update(x, next).pending = x.pending /\ update(x, next).save = x.save
<1>1. PICK y : y = commit(x, next)
  OBVIOUS
<1>2. y \in Wizards(n) /\ y.save = x.save
  BY <1>1, CommitType
<1>3. y.pending = x.pending
  BY <1>1 DEF commit, Loaded, Wizards
<1>4. PICK z : z = Dirty(y)
  OBVIOUS
<1>5. /\ z \in Wizards(n) /\ z.st \in {"offline", "dirty"} /\ z.pending = y.pending
      /\ z.save = y.save
  BY <1>2, <1>4 DEF Dirty, Wizards, States
<1>6. update(x, next) = schedule(z)
  BY <1>1, <1>4 DEF update
<1> QED
  BY <1>2, <1>3, <1>5, <1>6, ScheduleFields

Settles == Settling(w, online)

SettlesNext == Settling(w', online')

LEMMA SentSettles == ASSUME ShapeInv, Settles, Sent PROVE SettlesNext
<1>1. PICK m \in Nat : m = Len(events)
  BY DEF ShapeInv, ServerOK
<1>2. PICK n \in Nat : n = Len(events') /\ m =< n
  BY <1>1 DEF Sent, Grows, ServerOK
<1>3. PICK x : Show(x) /\ Outcome(x)
  BY DEF Sent
<1>4. Loaded(w, n)
  BY <1>1, <1>2, SavingNow, WizardsGrow DEF Sent
<1>5. TRUE \in BOOLEAN /\ FALSE \in BOOLEAN
  OBVIOUS
<1>6. Settling(Fail(w, TRUE), online) /\ Settling(Fail(w, FALSE), online)
  BY <1>4, <1>5, FailSettles, Zenon
<1>7. ASSUME NEW y, NEW landed, NEW i \in 1 .. 4, Answered(y, n, landed)
      PROVE  Settling(After(y, i), online)
  <2>1. /\ Loaded(y, n) /\ Begun(y.save, n) /\ y.st = w.st /\ y.draft = w.draft
        /\ Unqueued(y, online) = Unqueued(w, online) /\ Same(w.save.draft, y.save.draft)
        /\ y.save.draft.eid # 0
    BY <1>7 DEF Answered, LeftAlone, Unqueued
  <2>2. y.st # "saved"
    BY <2>1 DEF Sent, Settles, Settling, Marked
  <2>3. ASSUME Unqueued(w, online)
        PROVE  Same(y.save.draft, y.draft) /\ y.savedEvent = patchFingerprint(y.save.draft)
    <3>1. /\ Same(w.save.draft, w.draft)
          /\ w.save.stage > 1 => w.savedEvent = patchFingerprint(w.save.draft)
      BY <2>3 DEF Sent, Settles, Settling
    <3>2. Same(y.save.draft, y.draft)
      BY <2>1, <3>1 DEF Same
    <3>3. y.savedEvent = patchFingerprint(y.save.draft)
      BY <1>7, <2>1, <3>1 DEF Answered, Same
    <3> QED
      BY <3>2, <3>3
  <2>4. i \in 0 .. 4
    OBVIOUS
  <2> QED
    BY <2>1, <2>2, <2>3, <2>4, AfterSettles
<1>8. Settling(x, online)
  BY <1>2, <1>3, <1>6, <1>7 DEF Outcome
<1> QED
  BY <1>3, <1>8 DEF Show, Sent, SettlesNext

(* Every step that flushes the draft in hand.                              *)
LEMMA FlushedSettles ==
  ASSUME ShapeInv, Settles, Open, NEW y, y.save = w.save, y.pending = w.pending,
         y.st = w.st \/ y.st # "saved", Fit(y, Len(events)), w' = flush(y, online')
  PROVE  SettlesNext
<1>1. y.pending => y.save.on
  BY DEF Settles, Settling, Marked
<1>2. y.st = "saved" => ~y.save.on
  BY DEF Settles, Settling, Marked
<1>3. Len(events) \in Nat
  BY DEF ShapeInv, ServerOK
<1> QED
  BY <1>1, <1>2, <1>3, FlushSettles DEF SettlesNext

LEMMA TimersSettle == ASSUME ShapeInv, Settles, Timers PROVE SettlesNext
<1>1. Open /\ UNCHANGED online
  BY DEF Timers, TimerFires, RetryFires
<1>2. PICK m \in Nat : m = Len(events) /\ Fit(w, m)
  BY <1>1, OpenIsFit
<1>3. PICK y : y \in Fired(w) /\ w' = flush(y, online)
  BY DEF Timers, TimerFires, RetryFires, Show, Fired
<1>4. Fit(y, m) /\ y.save = w.save /\ y.pending = w.pending /\ y.st = w.st
  BY <1>2, <1>3, FieldsTouched
<1> QED
  BY <1>1, <1>2, <1>3, <1>4, FlushedSettles

LEMMA SaveNowSettles == ASSUME ShapeInv, Settles, saveNow PROVE SettlesNext
<1>1. Open /\ UNCHANGED online
  BY DEF saveNow, Calm
<1>2. PICK m \in Nat : m = Len(events) /\ Fit(w, m)
  BY <1>1, OpenIsFit
<1>3. PICK y : y \in Fired(w) /\ w' = flush(y, online)
  BY DEF saveNow, Show, Fired
<1>4. Fit(y, m) /\ y.save = w.save /\ y.pending = w.pending /\ y.st = w.st
  BY <1>2, <1>3, FieldsTouched
<1> QED
  BY <1>1, <1>2, <1>3, <1>4, FlushedSettles

LEMMA GoOnlineSettles == ASSUME ShapeInv, Settles, GoOnline PROVE SettlesNext
<1>1. CASE Open
  <2>1. PICK m \in Nat : m = Len(events) /\ Fit(w, m)
    BY <1>1, OpenIsFit
  <2>2. PICK y : y = Woken(w) /\ w' = flush(y, TRUE)
    BY <1>1 DEF GoOnline, Show, Woken
  <2>3. Fit(y, m) /\ y.save = w.save /\ y.pending = w.pending /\ (y.st = w.st \/ y.st # "saved")
    BY <2>1, <2>2, FieldsTouched
  <2>4. online' = TRUE
    BY DEF GoOnline
  <2> QED
    BY <1>1, <2>1, <2>2, <2>3, <2>4, FlushedSettles
<1>2. CASE ~Open
  <2>1. w' = Closed
    BY <1>2 DEF GoOnline, ShapeInv, Fit, Loaded, Open
  <2> QED
    BY <2>1 DEF SettlesNext, Settling, Marked, Unqueued, Closed
<1> QED
  BY <1>1, <1>2

LEMMA FieldsSettle == ASSUME ShapeInv, Settles, Fields PROVE SettlesNext
<1>1. PICK next \in Drafts(Len(events)) : Open /\ Show(update(w, next))
  BY FieldsUpdate
<1>2. PICK m \in Nat : m = Len(events) /\ Loaded(w, m)
  BY <1>1, OpenIsFit
<1>3. PICK x : x = update(w, next)
  OBVIOUS
<1>4. /\ x.timer = TRUE /\ x.st \in {"offline", "dirty"} /\ x.pending = w.pending /\ x.save = w.save
  BY <1>1, <1>2, <1>3, UpdateFields
<1>5. x.pending => x.save.on
  BY <1>4 DEF Settles, Settling, Marked
<1>6. Settling(x, online')
  BY <1>4, <1>5, TimedSettles
<1> QED
  BY <1>1, <1>3, <1>6 DEF Show, SettlesNext

LEMMA PosterSettles == ASSUME ShapeInv, Settles, setPoster PROVE SettlesNext
<1>1. PICK m \in Nat : m = Len(events) /\ Loaded(w, m) /\ Fit(w, m) /\ w.draft \in Drafts(m)
  BY OpenIsFit DEF setPoster, Loaded
<1>2. PICK y : y = update(w, w.draft)
  OBVIOUS
<1>3. /\ y.timer = TRUE /\ y.st \in {"offline", "dirty"} /\ y.pending = w.pending /\ y.save = w.save
      /\ y \in Wizards(m)
  BY <1>1, <1>2, UpdateFields, UpdateType DEF Fit, Loaded
<1>4. PICK x : x = [y EXCEPT !.file = TRUE]
  OBVIOUS
<1>5. x.timer = TRUE /\ x.st = y.st /\ x.pending = y.pending /\ x.save = y.save
  BY <1>3, <1>4 DEF Wizards
<1>6. x.pending => x.save.on
  BY <1>3, <1>5 DEF Settles, Settling, Marked
<1>7. Settling(x, online')
  BY <1>3, <1>5, <1>6, TimedSettles
<1>8. w' = x
  BY <1>2, <1>4 DEF setPoster, Show
<1> QED
  BY <1>7, <1>8 DEF SettlesNext

LEMMA UndoRedoSettles == ASSUME ShapeInv, Settles, undo \/ redo PROVE SettlesNext
<1>1. PICK m \in Nat : m = Len(events) /\ w \in Wizards(m)
  BY OpenIsFit DEF undo, redo, Loaded
<1>2. PICK y : /\ w' = schedule(y)
               /\ \/ y = [w EXCEPT !.draft = Last(w.past), !.past = Front(@),
                                   !.future = <<w.draft>> \o @, !.st = "dirty"]
                  \/ y = [w EXCEPT !.draft = Head(w.future), !.future = Tail(@),
                                   !.past = Append(@, w.draft), !.st = "dirty"]
  BY DEF undo, redo, Show
<1>3. y.st = "dirty" /\ y.pending = w.pending /\ y.save = w.save
  <2>1. CASE y = [w EXCEPT !.draft = Last(w.past), !.past = Front(@),
                           !.future = <<w.draft>> \o @, !.st = "dirty"]
    BY <1>1, <2>1 DEF Wizards
  <2>2. CASE y = [w EXCEPT !.draft = Head(w.future), !.future = Tail(@),
                           !.past = Append(@, w.draft), !.st = "dirty"]
    BY <1>1, <2>2 DEF Wizards
  <2> QED
    BY <1>2, <2>1, <2>2
<1>4. PICK x : x = schedule(y)
  OBVIOUS
<1>5. x.timer = TRUE /\ x.st = "dirty" /\ x.pending = w.pending /\ x.save = w.save
  <2>1. /\ x = [y EXCEPT !.timer = TRUE, !.touched = TRUE]
        /\ "timer" \in DOMAIN y
    BY <1>1, <1>2, <1>4 DEF schedule, Wizards
  <2> QED
    BY <1>3, <2>1
<1>6. x.pending => x.save.on
  BY <1>5 DEF Settles, Settling, Marked
<1>7. Settling(x, online')
  BY <1>5, <1>6, TimedSettles
<1> QED
  BY <1>2, <1>4, <1>7 DEF SettlesNext

(* A draft that was just loaded asks for nothing.                          *)
LEMMA FreshSettles ==
  ASSUME NEW x, NEW connected, x.touched = FALSE, x.pending => x.save.on,
         x.st = "local" \/ (x.st = "saved" /\ ~x.save.on)
  PROVE  Settling(x, connected)
  BY DEF Settling, Marked, Unqueued

LEMMA AlikeSettles ==
  ASSUME NEW x, NEW y, NEW connected, Settling(y, connected),
         x.save = y.save, x.draft = y.draft, x.st = y.st, x.timer = y.timer,
         x.pending = y.pending, x.touched = y.touched,
         x.savedEvent = y.savedEvent, x.savedTiers = y.savedTiers
  PROVE  Settling(x, connected)
  BY DEF Settling, Marked, Unqueued, IsConfirmed

LEMMA ClosedSettles == ASSUME w' = Closed PROVE SettlesNext
  BY DEF SettlesNext, Settling, Marked, Unqueued, Closed

LEMMA GoOfflineSettles == ASSUME ShapeInv, Settles, GoOffline PROVE SettlesNext
<1>1. online' = FALSE
  BY DEF GoOffline
<1>2. CASE Open
  <2>1. PICK m \in Nat : w \in Wizards(m)
    BY <1>2, OpenIsFit DEF Loaded
  <2>2. PICK x : x = [w EXCEPT !.st = "offline"] /\ w' = x
    BY <1>2 DEF GoOffline
  <2>3. x.st = "offline" /\ x.pending = w.pending /\ x.save = w.save
    BY <2>1, <2>2 DEF Wizards
  <2> QED
    BY <1>1, <2>2, <2>3 DEF SettlesNext, Settles, Settling, Marked, Unqueued
<1>3. CASE ~Open
  <2>1. w' = w
    BY <1>3 DEF GoOffline
  <2> QED
    BY <1>1, <2>1 DEF SettlesNext, Settles, Settling, Unqueued
<1> QED
  BY <1>2, <1>3

LEMMA OwnedChangesSettle == ASSUME ShapeInv, Settles, OwnedChanges PROVE SettlesNext
<1>1. UNCHANGED online
  BY DEF OwnedChanges
<1>2. CASE Open /\ w.draft.org # owned'
  <2>1. PICK m \in Nat : w \in Wizards(m) /\ w.draft \in Drafts(m)
    BY <1>2, OpenIsFit DEF Loaded
  <2>2. PICK d : d = [w.draft EXCEPT !.org = owned']
    OBVIOUS
  <2>3. /\ Same(w.draft, d) /\ d.org = owned' /\ d.tiers = w.draft.tiers /\ d.eid = w.draft.eid
        /\ patchFingerprint(d) = patchFingerprint(w.draft)
    BY <2>1, <2>2 DEF Drafts, DraftRecs, Same, patchFingerprint
  <2>4. PICK y : y = [w EXCEPT !.draft = d]
    OBVIOUS
  <2>5. /\ y.draft = d /\ y.save = w.save /\ y.st = w.st /\ y.pending = w.pending
        /\ y.timer = w.timer /\ y.touched = w.touched
        /\ y.savedEvent = w.savedEvent /\ y.savedTiers = w.savedTiers
    BY <2>1, <2>4 DEF Wizards
  <2>6. w' = IF owned' THEN schedule(y) ELSE y
    BY <1>2, <2>2, <2>4 DEF OwnedChanges, Show
  <2>7. CASE owned' = TRUE
    <3>1. PICK x : x = schedule(y)
      OBVIOUS
    <3>2. /\ x.timer = TRUE /\ x.st = w.st /\ x.pending = w.pending /\ x.save = w.save
      <4>1. x = [y EXCEPT !.timer = TRUE, !.touched = TRUE] /\ DOMAIN y = DOMAIN w
        BY <2>4, <3>1 DEF schedule
      <4>2. "timer" \in DOMAIN w
        BY <2>1 DEF Wizards
      <4> QED
        BY <2>5, <4>1, <4>2
    <3>3. w' = x
      BY <2>6, <2>7, <3>1
    <3>4. Marked(x) /\ ~Unqueued(x, online')
      BY <3>2 DEF Settles, Settling, Marked, Unqueued
    <3> QED
      BY <3>3, <3>4 DEF SettlesNext, Settling
  <2>8. CASE ~owned'
    <3>1. w' = y /\ Marked(y) /\ ~canCreate(y.draft)
      BY <2>3, <2>5, <2>6, <2>8 DEF Settles, Settling, Marked, canCreate
    <3>2. Unqueued(y, online') = Unqueued(w, online)
      BY <1>1, <2>5 DEF Unqueued
    <3>3. IsConfirmed(w) => IsConfirmed(y)
      BY <2>3, <2>5 DEF IsConfirmed
    <3>4. Same(w.save.draft, w.draft) => Same(y.save.draft, y.draft)
      BY <2>3, <2>5 DEF Same
    <3> QED
      BY <2>5, <3>1, <3>2, <3>3, <3>4 DEF SettlesNext, Settles, Settling
  <2> QED
    BY <2>7, <2>8 DEF OwnedChanges, ShapeInv
<1>3. CASE ~(Open /\ w.draft.org # owned')
  <2>1. w' = w
    BY <1>3 DEF OwnedChanges
  <2> QED
    BY <1>1, <2>1 DEF SettlesNext, Settles
<1> QED
  BY <1>2, <1>3

LEMMA MountSettles == ASSUME ShapeInv, Settles, Mount PROVE SettlesNext
<1>1. ASSUME HydrateNew PROVE SettlesNext
  <2>1. PICK d, p, t, x :
          /\ x = [Closed EXCEPT !.mode = "create", !.draft = d, !.savedEvent = p, !.told = t,
                                !.st = IF d.eid # 0 THEN "saved" ELSE "local"]
          /\ w' = x \/ w' = schedule(x)
    BY <1>1, Zenon DEF HydrateNew, Show
  <2>2. /\ x.touched = FALSE /\ x.pending = FALSE /\ x.save = Idle /\ x.st \in {"saved", "local"}
        /\ "timer" \in DOMAIN x
    BY <2>1 DEF Closed
  <2>3. x.save.on = FALSE
    BY <2>2 DEF Idle
  <2>4. Settling(x, online')
    BY <2>2, <2>3, FreshSettles
  <2>5. Settling(schedule(x), online')
    <3>1. PICK y : y = schedule(x)
      OBVIOUS
    <3>2. y.timer = TRUE /\ y.pending = FALSE /\ y.save = Idle /\ y.st = x.st
      BY <2>2, <3>1 DEF schedule
    <3>3. y.save.on = FALSE
      BY <3>2 DEF Idle
    <3> QED
      BY <2>2, <3>1, <3>2, <3>3, TimedSettles
  <2> QED
    BY <2>1, <2>4, <2>5 DEF SettlesNext
<1>2. ASSUME NEW e \in DOMAIN events, HydrateEdit(e) PROVE SettlesNext
  <2>1. PICK d, p, t, f, b, x :
          /\ x = [Closed EXCEPT !.mode = "edit", !.source = e, !.draft = d, !.savedEvent = p,
                                !.told = t, !.savedTiers = f, !.submittable = b, !.st = "saved"]
          /\ w' = x
    BY <1>2, Zenon DEF HydrateEdit, Show
  <2>2. x.touched = FALSE /\ x.pending = FALSE /\ x.save = Idle /\ x.st = "saved"
    BY <2>1 DEF Closed
  <2>3. x.save.on = FALSE
    BY <2>2 DEF Idle
  <2> QED
    BY <2>1, <2>2, <2>3, FreshSettles DEF SettlesNext
<1>3. ASSUME NEW e \in DOMAIN events, HydrateClone(e) PROVE SettlesNext
  <2>1. PICK d, x :
          /\ x = [w EXCEPT !.mode = "clone", !.draft = d,
                    !.past = <<>>, !.future = <<>>, !.savedEvent = NoPrint, !.told = NoTold,
                    !.savedTiers = <<>>, !.file = FALSE, !.st = "local", !.touched = FALSE]
          /\ w' = x
    BY <1>3, Zenon DEF HydrateClone, Show
  <2>2. PICK m \in Nat : w \in Wizards(m)
    BY ClosedType DEF ShapeInv, ServerOK, Fit, Loaded
  <2>3. x.touched = FALSE /\ x.pending = w.pending /\ x.save = w.save /\ x.st = "local"
    BY <2>1, <2>2 DEF Wizards
  <2>4. x.pending => x.save.on
    BY <2>3 DEF Settles, Settling, Marked
  <2> QED
    BY <2>1, <2>3, <2>4, FreshSettles DEF SettlesNext
<1> QED
  BY <1>1, <1>2, <1>3 DEF Mount

LEMMA PublishSettles == ASSUME ShapeInv, Settles, publish PROVE SettlesNext
<1>1. Open /\ UNCHANGED online
  BY DEF publish, Calm
<1>2. PICK m \in Nat : m = Len(events) /\ Fit(w, m)
  BY <1>1, OpenIsFit
<1>3. PICK y : y = flush(w, online)
  OBVIOUS
<1>4. y \in Wizards(m)
  BY <1>2, <1>3, FlushType DEF Fit, Loaded
<1>5. Settling(y, online)
  BY <1>2, <1>3, FlushSettles DEF Settles, Settling, Marked
<1>6. PICK p, x : x = [y EXCEPT !.publishing = p, !.pressed = w.draft] /\ w' = x
  BY <1>3, Zenon DEF publish, Show
<1>7. /\ x.save = y.save /\ x.draft = y.draft /\ x.st = y.st /\ x.timer = y.timer
      /\ x.pending = y.pending /\ x.touched = y.touched
      /\ x.savedEvent = y.savedEvent /\ x.savedTiers = y.savedTiers
  BY <1>4, <1>6 DEF Wizards
<1> QED
  BY <1>1, <1>5, <1>6, <1>7, AlikeSettles DEF SettlesNext

LEMMA PublishCallSettles == ASSUME ShapeInv, Settles, PublishCall PROVE SettlesNext
<1>1. Open /\ UNCHANGED online /\ (LeaveNothing \/ LeaveEmpty \/ NotPublished)
  BY DEF PublishCall
<1>2. ASSUME NotPublished PROVE SettlesNext
  <2>1. PICK m \in Nat : w \in Wizards(m)
    BY <1>1, OpenIsFit DEF Loaded
  <2>2. PICK x : x = [w EXCEPT !.publishing = "no", !.pressed = NoDraft] /\ w' = x
    BY <1>2 DEF NotPublished, Show
  <2>3. /\ x.save = w.save /\ x.draft = w.draft /\ x.st = w.st /\ x.timer = w.timer
        /\ x.pending = w.pending /\ x.touched = w.touched
        /\ x.savedEvent = w.savedEvent /\ x.savedTiers = w.savedTiers
    BY <2>1, <2>2 DEF Wizards
  <2> QED
    BY <1>1, <2>2, <2>3, AlikeSettles DEF SettlesNext, Settles
<1> QED
  BY <1>1, <1>2, ClosedSettles DEF LeaveNothing, LeaveEmpty

LEMMA SettlesStep == ASSUME ShapeInv, Settles, Next PROVE SettlesNext
<1>1. ASSUME Person PROVE SettlesNext
  <2>1. ASSUME NEW e \in DOMAIN events,
               (\E text \in Texts, rest \in Rests : OtherEdit(e, text, rest)) \/ OtherPublish(e)
        PROVE  SettlesNext
    BY <2>1, Zenon DEF OtherEdit, OtherPublish, Settles, SettlesNext
  <2>2. Close => SettlesNext
    BY ClosedSettles DEF Close
  <2> QED
    BY <1>1, <2>1, <2>2, FieldsSettle, PosterSettles, UndoRedoSettles, SaveNowSettles, MountSettles,
       PublishSettles DEF Person, Fields
<1>2. ASSUME Network PROVE SettlesNext
  BY <1>2, GoOfflineSettles, GoOnlineSettles, OwnedChangesSettle DEF Network
<1> QED
  BY <1>1, <1>2, SaveStepSent, SentSettles, TimersSettle, PublishCallSettles DEF Next

LEMMA SettlesAlways == Spec => []Settles
<1>1. Init => Settles
  BY DEF Init, Settles, Settling, Marked, Unqueued, Closed
<1>2. ShapeInv /\ Settles /\ [Next]_vars => SettlesNext
  BY SettlesStep DEF vars, Settles, SettlesNext
<1>3. SettlesNext => Settles'
  BY DEF SettlesNext, Settles, Settling, Marked, Unqueued, IsConfirmed, Same, patchFingerprint,
         canCreate, tierIsSavable
<1> QED
  BY <1>1, <1>2, <1>3, ShapeAlways, PTL DEF Spec

-----------------------------------------------------------------------------
(* What the wizard was told is true until the event, or the tier, moves on *)
(* to another version.                                                     *)

EventHeard(told, print, evs) ==
  told[1] # 0 =>
    /\ told[1] \in DOMAIN evs /\ told[2] =< evs[told[1]].ver
    /\ told[2] = evs[told[1]].ver => print = patchFingerprint(evs[told[1]])

TiersHeard(marks, rows) ==
  \A i \in DOMAIN marks :
    /\ i \in DOMAIN rows /\ marks[i].ver =< rows[i].ver
    /\ marks[i].ver = rows[i].ver => marks[i].val = rows[i].val

Heard == EventHeard(w.told, w.savedEvent, events) /\ TiersHeard(w.savedTiers, tierRows)

HeardNext == EventHeard(w'.told, w'.savedEvent, events') /\ TiersHeard(w'.savedTiers, tierRows')

EventsAdvance ==
  \A e \in DOMAIN events :
    /\ e \in DOMAIN events' /\ events[e].ver =< events'[e].ver
    /\ events'[e].ver = events[e].ver => patchFingerprint(events'[e]) = patchFingerprint(events[e])

TiersAdvance ==
  \A i \in DOMAIN tierRows :
    /\ i \in DOMAIN tierRows' /\ tierRows[i].ver =< tierRows'[i].ver
    /\ tierRows'[i].ver = tierRows[i].ver => tierRows'[i].val = tierRows[i].val

LEMMA ServerVersions ==
  ASSUME ServerOK
  PROVE  /\ \A e \in DOMAIN events : events[e] \in Events /\ events[e].ver \in Nat
         /\ \A i \in DOMAIN tierRows : tierRows[i] \in TierRows /\ tierRows[i].ver \in Nat
<1>1. events \in Seq(Events) /\ tierRows \in Seq(TierRows)
  BY DEF ServerOK
<1>2. \A e \in DOMAIN events : events[e] \in Events
  BY <1>1, ElementOfSeq
<1>3. \A i \in DOMAIN tierRows : tierRows[i] \in TierRows
  BY <1>1, ElementOfSeq
<1> QED
  BY <1>2, <1>3 DEF Events, TierRows

LEMMA MemoryType == ASSUME ShapeInv PROVE w.told \in Tolds /\ w.savedTiers \in SavedMaps
<1>1. PICK n \in Nat : w \in Wizards(n)
  BY ClosedType DEF ShapeInv, ServerOK, Fit, Loaded
<1> QED
  BY <1>1 DEF Wizards

LEMMA EventStillHeard ==
  ASSUME ShapeInv, ShapeInv', Heard, EventsAdvance
  PROVE  EventHeard(w.told, w.savedEvent, events')
<1> SUFFICES ASSUME w.told[1] # 0 PROVE EventHeard(w.told, w.savedEvent, events')
  BY DEF EventHeard
<1> PICK e : e = w.told[1]
  OBVIOUS
<1>1. /\ e \in DOMAIN events /\ w.told[2] =< events[e].ver
      /\ w.told[2] = events[e].ver => w.savedEvent = patchFingerprint(events[e])
  BY DEF Heard, EventHeard
<1>2. /\ e \in DOMAIN events' /\ events[e].ver =< events'[e].ver
      /\ events'[e].ver = events[e].ver => patchFingerprint(events'[e]) = patchFingerprint(events[e])
  BY <1>1 DEF EventsAdvance
<1>3. w.told[2] \in Nat
  BY MemoryType DEF Tolds
<1>4. ServerOK /\ ServerOK'
  BY DEF ShapeInv
<1>5. events[e].ver \in Nat /\ events'[e].ver \in Nat
  <2>1. events[e].ver \in Nat
    BY <1>1, <1>4, ServerVersions
  <2>2. events' \in Seq(Events)
    BY <1>4 DEF ServerOK
  <2>3. events'[e] \in Events
    BY <1>2, <2>2, ElementOfSeq
  <2> QED
    BY <2>1, <2>3 DEF Events
<1> QED
  BY <1>1, <1>2, <1>3, <1>5 DEF EventHeard

LEMMA TiersStillHeard ==
  ASSUME ShapeInv, ShapeInv', Heard, TiersAdvance
  PROVE  TiersHeard(w.savedTiers, tierRows')
<1> SUFFICES ASSUME NEW i \in DOMAIN w.savedTiers
             PROVE  /\ i \in DOMAIN tierRows' /\ w.savedTiers[i].ver =< tierRows'[i].ver
                    /\ w.savedTiers[i].ver = tierRows'[i].ver => w.savedTiers[i].val = tierRows'[i].val
  BY DEF TiersHeard
<1>1. /\ i \in DOMAIN tierRows /\ w.savedTiers[i].ver =< tierRows[i].ver
      /\ w.savedTiers[i].ver = tierRows[i].ver => w.savedTiers[i].val = tierRows[i].val
  BY DEF Heard, TiersHeard
<1>2. /\ i \in DOMAIN tierRows' /\ tierRows[i].ver =< tierRows'[i].ver
      /\ tierRows'[i].ver = tierRows[i].ver => tierRows'[i].val = tierRows[i].val
  BY <1>1 DEF TiersAdvance
<1>3. w.savedTiers[i].ver \in Nat
  BY MemoryType, Zenon DEF SavedMaps, TierMarks
<1>4. tierRows[i].ver \in Nat
  BY <1>1, ServerVersions DEF ShapeInv
<1>5. tierRows'[i].ver \in Nat
  <2>1. tierRows' \in Seq(TierRows)
    BY DEF ShapeInv, ServerOK
  <2>2. tierRows'[i] \in TierRows
    BY <1>2, <2>1, ElementOfSeq
  <2> QED
    BY <2>2 DEF TierRows
<1> QED
  BY <1>1, <1>2, <1>3, <1>4, <1>5

LEMMA StillHeard ==
  ASSUME ShapeInv, ShapeInv', Heard, EventsAdvance, TiersAdvance, Memory(w') = Memory(w)
  PROVE  HeardNext
<1>1. w'.told = w.told /\ w'.savedEvent = w.savedEvent /\ w'.savedTiers = w.savedTiers
  BY DEF Memory
<1> QED
  BY <1>1, EventStillHeard, TiersStillHeard DEF HeardNext

LEMMA TiersStay == ASSUME ShapeInv, UNCHANGED tierRows PROVE TiersAdvance
  BY ServerVersions DEF ShapeInv, TiersAdvance

LEMMA EventsStay == ASSUME ShapeInv, UNCHANGED events PROVE EventsAdvance
  BY ServerVersions DEF ShapeInv, EventsAdvance

LEMMA NothingMoves ==
  ASSUME ShapeInv, UNCHANGED <<events, tierRows>>
  PROVE  EventsAdvance /\ TiersAdvance
  BY EventsStay, TiersStay

LEMMA Unmoved ==
  ASSUME ShapeInv, ShapeInv', Heard, UNCHANGED <<events, tierRows>>, Memory(w') = Memory(w)
  PROVE  HeardNext
  BY NothingMoves, StillHeard

LEMMA ForgottenHeard ==
  ASSUME w'.told = NoTold, w'.savedTiers = <<>>
  PROVE  HeardNext
  BY DEF HeardNext, EventHeard, TiersHeard, NoTold

LEMMA ClosedHeard == ASSUME w' = Closed PROVE HeardNext
  BY ForgottenHeard DEF Closed

-----------------------------------------------------------------------------
(* A save's bookkeeping, timers and edits leave the memory alone.          *)

LEMMA SucceedRemembers ==
  ASSUME NEW n \in Nat, NEW x, Loaded(x, n), Begun(x.save, n)
  PROVE  Memory(Succeed(x)) = Memory(x)
<1>1. PICK d : d = Merged(x)
  OBVIOUS
<1>2. d \in MaybeDrafts(n) /\ d \in Drafts(n) /\ x \in Wizards(n) /\ x.mode # "none"
  BY <1>1, MergedType DEF Loaded, MaybeDrafts
<1>3. PICK y : y = [x EXCEPT !.draft = d, !.retryUsed = FALSE,
                             !.st = IF x.pending THEN "dirty" ELSE "saved"]
  OBVIOUS
<1>4. Loaded(y, n) /\ Succeed(x) = Finish(y) /\ Memory(y) = Memory(x)
  BY <1>1, <1>2, <1>3 DEF Loaded, Wizards, States, Succeed, Memory
<1> QED
  BY <1>4, FinishFields DEF Memory

LEMMA FailRemembers ==
  ASSUME NEW n \in Nat, NEW x, Loaded(x, n), NEW networkish \in BOOLEAN
  PROVE  Memory(Fail(x, networkish)) = Memory(x)
<1>1. PICK s \in {"offline", "error"} : s = IF networkish THEN "offline" ELSE "error"
  OBVIOUS
<1>2. PICK a \in BOOLEAN : a = (x.retryTimer \/ (networkish /\ ~x.retryUsed))
  OBVIOUS
<1>3. PICK b \in BOOLEAN : b = (x.retryUsed \/ networkish)
  OBVIOUS
<1>4. PICK y : y = [x EXCEPT !.st = s, !.retryTimer = a, !.retryUsed = b]
  OBVIOUS
<1>5. Loaded(y, n) /\ Memory(y) = Memory(x)
  BY ONLY Loaded(x, n), <1>4 DEF Loaded, Wizards, States, Memory
<1>6. Fail(x, networkish) = Finish(y)
  BY <1>1, <1>2, <1>3, <1>4 DEF Fail
<1> QED
  BY <1>5, <1>6, FinishFields DEF Memory

LEMMA AfterRemembers ==
  ASSUME NEW n \in Nat, NEW x, Loaded(x, n), Begun(x.save, n), NEW i \in 0 .. 4
  PROVE  Memory(After(x, i)) = Memory(x)
<1> DEFINE left == {j \in i + 1 .. 5 : HasWork(x, j)}
<1>1. CASE left = {}
  BY <1>1, SucceedRemembers DEF After
<1>2. CASE left # {}
  <2>1. left \in SUBSET (1 .. 5)
    OBVIOUS
  <2>2. PICK m \in left : m = Min(left)
    BY <1>2, <2>1, MinIsThere
  <2>3. After(x, i) = [x EXCEPT !.save.stage = m]
    BY <1>2, <2>2 DEF After
  <2> HIDE DEF left
  <2> QED
    BY <2>3 DEF Loaded, Wizards, Memory
<1> QED
  BY <1>1, <1>2

LEMMA FlushRemembers ==
  ASSUME NEW n \in Nat, NEW x, Fit(x, n), NEW connected
  PROVE  Memory(flush(x, connected)) = Memory(x)
<1>1. x \in Wizards(n) /\ x.save \in Saves(n) /\ x.draft \in Drafts(n) /\ Loaded(x, n)
  BY DEF Fit, Loaded, Wizards
<1>2. CASE ~connected \/ x.save.on \/ ~canCreate(x.draft)
  <2>1. flush(x, connected) \in {[x EXCEPT !.st = "offline"], [x EXCEPT !.pending = TRUE],
                                 [x EXCEPT !.st = "local"]}
    BY <1>2 DEF flush
  <2> QED
    BY <1>1, <2>1 DEF Wizards, Memory
<1>3. CASE connected /\ ~x.save.on /\ canCreate(x.draft)
  <2> PICK s : s = [on |-> TRUE, draft |-> x.draft, stage |-> 0, rows |-> x.draft.rows,
                    landed |-> {}, crewSynced |-> FALSE]
    OBVIOUS
  <2>1. s \in Saves(n) /\ Begun(s, n)
    BY <1>1 DEF Saves, Begun, MaybeDrafts, Drafts, DraftRecs
  <2> DEFINE y == [x EXCEPT !.st = "saving", !.save = s]
  <2>2. Loaded(y, n) /\ y.save = s /\ Memory(y) = Memory(x)
    BY <1>1, <2>1 DEF Loaded, Wizards, States, Memory
  <2>3. flush(x, connected) = After(y, 0)
    BY <1>3 DEF flush
  <2> HIDE DEF y
  <2>4. 0 \in 0 .. 4
    OBVIOUS
  <2> QED
    BY <2>1, <2>2, <2>3, <2>4, AfterRemembers
<1> QED
  BY <1>2, <1>3

LEMMA UpdateRemembers ==
  ASSUME NEW n \in Nat, NEW x, Loaded(x, n), NEW next \in Drafts(n)
  PROVE  Memory(update(x, next)) = Memory(x)
<1>1. PICK y : y = commit(x, next)
  OBVIOUS
<1>2. y \in Wizards(n)
  BY <1>1, CommitType
<1>3. Memory(y) = Memory(x)
  BY <1>1 DEF commit, Loaded, Wizards, Memory
<1>4. PICK z : z = Dirty(y)
  OBVIOUS
<1>5. z \in Wizards(n) /\ Memory(z) = Memory(y)
  BY <1>2, <1>4 DEF Dirty, Wizards, States, Memory
<1>6. update(x, next) = schedule(z)
  BY <1>1, <1>4 DEF update
<1>7. Memory(schedule(z)) = Memory(z)
  BY <1>5 DEF schedule, Wizards, Memory
<1> QED
  BY <1>3, <1>5, <1>6, <1>7

-----------------------------------------------------------------------------
(* The requests.                                                           *)

LEMMA FailedHeard ==
  ASSUME ShapeInv, ShapeInv', Heard, w.save.on, EventsAdvance, TiersAdvance,
         w' = Fail(w, TRUE) \/ w' = Fail(w, FALSE)
  PROVE  HeardNext
<1>1. TRUE \in BOOLEAN /\ FALSE \in BOOLEAN
  OBVIOUS
<1>2. Loaded(w, Len(events)) /\ Len(events) \in Nat
  BY SavingNow
<1>3. Memory(Fail(w, TRUE)) = Memory(w) /\ Memory(Fail(w, FALSE)) = Memory(w)
  BY ONLY <1>1, <1>2, FailRemembers, Zenon
<1>4. Memory(w') = Memory(w)
  BY ONLY <1>3, w' = Fail(w, TRUE) \/ w' = Fail(w, FALSE) DEF Memory
<1> QED
  BY <1>4, StillHeard

(* The wizard y, which has got an answer, goes on.                         *)
LEMMA AnsweredHeard ==
  ASSUME NEW n \in Nat, NEW y, NEW landed, Answered(y, n, landed), NEW i \in 1 .. 4,
         w' = After(y, i),
         EventHeard(y.told, y.savedEvent, events'), TiersHeard(y.savedTiers, tierRows')
  PROVE  HeardNext
<1>1. Loaded(y, n) /\ Begun(y.save, n) /\ i \in 0 .. 4
  BY DEF Answered
<1>2. PICK x : x = After(y, i)
  OBVIOUS
<1>3. Memory(x) = Memory(y)
  BY <1>1, <1>2, AfterRemembers
<1>4. x.told = y.told /\ x.savedEvent = y.savedEvent /\ x.savedTiers = y.savedTiers
  BY <1>3 DEF Memory
<1> QED
  BY <1>2, <1>4 DEF HeardNext

LEMMA CreateEventHeard == ASSUME ShapeInv, ShapeInv', Heard, CreateEvent PROVE HeardNext
<1> DEFINE d == w.save.draft
           e == Len(events) + 1
           made == [d EXCEPT !.eid = e, !.ver = 1, !.on = 1]
           row == [text |-> toCreateInput(d).text, rest |-> toCreateInput(d).rest, ver |-> 1,
                   rows |-> {}, crew |-> 0, live |-> FALSE]
           apply == events' = Append(events, row) /\ UNCHANGED tierRows
           told == IF toCreateInput(d).rest = d.rest THEN <<e, 1>> ELSE NoTold
           done == After([Saving(made) EXCEPT !.savedEvent = patchFingerprint(made), !.told = told], 1)
<1>1. /\ \/ apply /\ (w' = done \/ w' = Fail(w, TRUE))
         \/ UNCHANGED <<events, tierRows>> /\ (w' = Fail(w, FALSE) \/ w' = Fail(w, TRUE))
      /\ w.save.on /\ d.eid = 0
  BY DEF CreateEvent, Request, At, serverVars, Show
<1>2. CASE UNCHANGED <<events, tierRows>> /\ (w' = Fail(w, FALSE) \/ w' = Fail(w, TRUE))
  BY <1>1, <1>2, NothingMoves, FailedHeard
<1>3. CASE apply /\ (w' = done \/ w' = Fail(w, TRUE))
  <2>1. PICK n \in Nat : n = e
    BY DEF ShapeInv, ServerOK
  <2>2. events \in Seq(Events) /\ tierRows \in Seq(TierRows)
    BY DEF ShapeInv, ServerOK
  <2>3. /\ \A i \in DOMAIN events : i \in DOMAIN events' /\ events'[i] = events[i]
        /\ n \in DOMAIN events' /\ events'[n] = row
    <3> HIDE DEF row
    <3> QED
      BY <1>3, <2>1, <2>2
  <2>4. EventsAdvance /\ TiersAdvance
    BY <1>3, <2>3, ServerVersions DEF EventsAdvance, TiersAdvance, ShapeInv
  <2> PICK t \in Tolds : t = told
    <3>1. <<e, 1>> \in Tolds /\ NoTold \in Tolds
      BY <2>1, ToldPairs
    <3> QED
      BY <3>1
  <2> PICK c : c = made
    OBVIOUS
  <2> PICK y : y = [Saving(c) EXCEPT !.savedEvent = patchFingerprint(c), !.told = t]
    OBVIOUS
  <2>5. /\ Answered(y, n, w.save.landed) /\ y.told = t /\ y.savedEvent = patchFingerprint(d)
        /\ y.savedTiers = w.savedTiers
    <3>1. c = [w.save.draft EXCEPT !.eid = n, !.ver = 1, !.on = 1]
      BY <2>1
    <3>2. ShapeInv /\ w.save.on /\ w.save.draft.eid = 0 /\ n = Len(events) + 1 /\ t \in Tolds
      BY <1>1, <2>1
    <3>3. y = [Saving(c) EXCEPT !.savedEvent = patchFingerprint(c), !.told = t]
      OBVIOUS
    <3> QED
      <4>1. Answered(y, n, w.save.landed)
        BY ONLY <2>1, <3>1, <3>2, <3>3, CreateAnswer, Zenon
      <4>2. Recalls(y, t, patchFingerprint(w.save.draft), w.savedTiers)
        BY ONLY <2>1, <3>1, <3>2, <3>3, CreateAnswer, Zenon
      <4> QED
        BY <4>1, <4>2 DEF Recalls
  <2>6. EventHeard(y.told, y.savedEvent, events')
    BY <2>1, <2>3, <2>5 DEF EventHeard, NoTold, patchFingerprint, toCreateInput
  <2>7. TiersHeard(y.savedTiers, tierRows')
    BY <2>4, <2>5, TiersStillHeard
  <2>8. CASE w' = done
    <3>1. w' = After(y, 1) /\ 1 \in 1 .. 4
      BY <2>8
    <3> QED
      BY ONLY <2>1, <2>5, <2>6, <2>7, <3>1, AnsweredHeard
  <2> QED
    BY <1>1, <1>3, <2>4, <2>8, FailedHeard
<1> QED
  BY <1>1, <1>2, <1>3

LEMMA UpdateEventHeard == ASSUME ShapeInv, ShapeInv', Heard, UpdateEvent PROVE HeardNext
<1> DEFINE d == w.save.draft
           moved == [d EXCEPT !.ver = @ + 1, !.on = d.ver + 1]
           apply == /\ events' = [events EXCEPT ![d.eid].text = d.text, ![d.eid].rest = d.rest,
                                                ![d.eid].ver = @ + 1]
                    /\ UNCHANGED tierRows
           told == <<d.eid, moved.ver>>
           done == After([Saving(moved) EXCEPT !.savedEvent = patchFingerprint(d), !.told = told], 1)
<1>1. /\ \/ apply /\ d.ver = events[d.eid].ver /\ (w' = done \/ w' = Fail(w, TRUE))
         \/ UNCHANGED <<events, tierRows>> /\ (w' = Fail(w, FALSE) \/ w' = Fail(w, TRUE))
      /\ w.save.on /\ d.eid # 0
  BY Zenon DEF UpdateEvent, Updated, Request, At, serverVars, Show, toPatchInput
<1>2. CASE UNCHANGED <<events, tierRows>> /\ (w' = Fail(w, FALSE) \/ w' = Fail(w, TRUE))
  BY <1>1, <1>2, NothingMoves, FailedHeard, Zenon
<1>3. CASE apply /\ d.ver = events[d.eid].ver /\ (w' = done \/ w' = Fail(w, TRUE))
  <2>1. PICK m \in Nat : m = Len(events)
    BY DEF ShapeInv, ServerOK
  <2>2. d \in Drafts(m) /\ d.eid \in DOMAIN events
    BY <1>1, <2>1, SaveHasEvent
  <2>3. PICK e : e = d.eid
    OBVIOUS
  <2>4. e \in Nat /\ d.ver \in Nat /\ moved.ver = d.ver + 1
    BY <2>2, <2>3 DEF Drafts, DraftRecs
  <2>5. \A i \in DOMAIN events : events[i] \in Events /\ events[i].ver \in Nat
    BY ServerVersions DEF ShapeInv
  <2>6. /\ DOMAIN events' = DOMAIN events
        /\ \A i \in DOMAIN events : i # e => events'[i] = events[i]
        /\ events'[e].ver = d.ver + 1 /\ events'[e].text = d.text /\ events'[e].rest = d.rest
    BY <1>3, <2>2, <2>3, <2>5 DEF Events
  <2>7. EventsAdvance /\ TiersAdvance
    <3>1. \A i \in DOMAIN events : events[i].ver =< events'[i].ver /\ (i = e => events[i].ver < events'[i].ver)
      <4>1. events[e].ver = d.ver
        BY <1>3, <2>3
      <4> HIDE DEF d, moved
      <4> QED
        BY ONLY <2>4, <2>5, <2>6, <4>1
    <3>2. EventsAdvance
      BY <2>5, <2>6, <3>1 DEF EventsAdvance
    <3> QED
      BY <1>3, <3>2, TiersStay
  <2> PICK t \in Tolds : t = told
    <3>1. <<e, d.ver + 1>> \in Tolds
      BY <2>4, ToldPairs
    <3>2. told = <<e, d.ver + 1>>
      BY <2>3, <2>4
    <3> QED
      BY ONLY <3>1, <3>2
  <2> PICK c : c = moved
    OBVIOUS
  <2> PICK y : y = [Saving(c) EXCEPT !.savedEvent = patchFingerprint(d), !.told = t]
    OBVIOUS
  <2>8. /\ Answered(y, m, w.save.landed) /\ y.told = t /\ y.savedEvent = patchFingerprint(d)
        /\ y.savedTiers = w.savedTiers
    <3>1. /\ c = [w.save.draft EXCEPT !.ver = @ + 1, !.on = w.save.draft.ver + 1]
          /\ y = [Saving(c) EXCEPT !.savedEvent = patchFingerprint(w.save.draft), !.told = t]
      OBVIOUS
    <3>2. ShapeInv /\ w.save.on /\ w.save.draft.eid # 0 /\ t \in Tolds
      BY <1>1
    <3> QED
      <4>1. Answered(y, m, w.save.landed)
        BY ONLY <2>1, <3>1, <3>2, UpdateAnswer, Zenon
      <4>2. Recalls(y, t, patchFingerprint(w.save.draft), w.savedTiers)
        BY ONLY <2>1, <3>1, <3>2, UpdateAnswer, Zenon
      <4> QED
        BY <4>1, <4>2 DEF Recalls
  <2>9. EventHeard(y.told, y.savedEvent, events')
    <3>1. t[1] = e /\ t[2] = d.ver + 1
      BY <2>3, <2>4
    <3> QED
      BY <2>2, <2>3, <2>4, <2>6, <2>8, <3>1 DEF EventHeard, patchFingerprint
  <2>10. TiersHeard(y.savedTiers, tierRows')
    BY <2>7, <2>8, TiersStillHeard
  <2>11. CASE w' = done
    <3>1. w' = After(y, 1) /\ 1 \in 1 .. 4
      BY <2>11
    <3> QED
      BY ONLY <2>1, <2>8, <2>9, <2>10, <3>1, AnsweredHeard
  <2> QED
    BY <1>1, <1>3, <2>7, <2>11, FailedHeard, Zenon
<1> QED
  BY <1>1, <1>2, <1>3, Zenon

LEMMA UploadPosterHeard == ASSUME ShapeInv, ShapeInv', Heard, UploadPoster PROVE HeardNext
<1> DEFINE d == w.save.draft
           moved == [d EXCEPT !.ver = @ + 1, !.on = d.ver + 1]
           apply == events' = [events EXCEPT ![d.eid].ver = @ + 1] /\ UNCHANGED tierRows
           told == IF w.told = <<d.eid, d.ver>> THEN <<d.eid, moved.ver>> ELSE w.told
           done == After([Saving(moved) EXCEPT !.file = FALSE,
                            !.told = IF @ = <<d.eid, d.ver>> THEN <<d.eid, moved.ver>> ELSE @], 2)
<1>1. /\ \/ apply /\ d.ver = events[d.eid].ver /\ (w' = done \/ w' = Fail(w, TRUE))
         \/ UNCHANGED <<events, tierRows>> /\ (w' = Fail(w, FALSE) \/ w' = Fail(w, TRUE))
      /\ w.save.on /\ w.save.stage = 2
  BY Zenon DEF UploadPoster, Request, At, serverVars, Show
<1>2. CASE UNCHANGED <<events, tierRows>> /\ (w' = Fail(w, FALSE) \/ w' = Fail(w, TRUE))
  BY <1>1, <1>2, NothingMoves, FailedHeard, Zenon
<1>3. CASE apply /\ d.ver = events[d.eid].ver /\ (w' = done \/ w' = Fail(w, TRUE))
  <2>1. PICK m \in Nat : m = Len(events)
    BY DEF ShapeInv, ServerOK
  <2>2. d \in Drafts(m) /\ d.eid \in DOMAIN events /\ d.eid # 0
    <3>1. d.eid # 0
      BY <1>1, SavingNow DEF SaveOK
    <3> QED
      BY <1>1, <2>1, <3>1, SaveHasEvent
  <2>3. PICK e : e = d.eid
    OBVIOUS
  <2>4. e \in Nat /\ e # 0 /\ d.ver \in Nat /\ moved.ver = d.ver + 1
    BY <2>2, <2>3 DEF Drafts, DraftRecs
  <2>5. \A i \in DOMAIN events : events[i] \in Events /\ events[i].ver \in Nat
    BY ServerVersions DEF ShapeInv
  <2>6. /\ DOMAIN events' = DOMAIN events
        /\ \A i \in DOMAIN events : i # e => events'[i] = events[i]
        /\ events'[e].ver = d.ver + 1
        /\ events'[e].text = events[e].text /\ events'[e].rest = events[e].rest
    BY <1>3, <2>2, <2>3, <2>5, Zenon DEF Events
  <2>7. EventsAdvance /\ TiersAdvance
    <3>1. \A i \in DOMAIN events : events[i].ver =< events'[i].ver /\ (i = e => events[i].ver < events'[i].ver)
      <4>1. events[e].ver = d.ver
        BY <1>3, <2>3, Zenon
      <4> HIDE DEF d, moved
      <4> QED
        BY ONLY <2>4, <2>5, <2>6, <4>1
    <3>2. EventsAdvance
      BY <2>5, <2>6, <3>1 DEF EventsAdvance
    <3> QED
      BY <1>3, <3>2, TiersStay, Zenon
  <2>8. <<e, d.ver + 1>> \in Tolds /\ w.told \in Tolds
    BY <2>4, ToldPairs, MemoryType
  <2> PICK t \in Tolds : t = told
    BY <2>3, <2>4, <2>8
  <2> PICK c : c = moved
    OBVIOUS
  <2> PICK y : y = [Saving(c) EXCEPT !.file = FALSE, !.told = t]
    BY Zenon
  <2>9. /\ Answered(y, m, w.save.landed) /\ y.told = t /\ y.savedEvent = w.savedEvent
        /\ y.savedTiers = w.savedTiers
    <3>1. /\ c = [w.save.draft EXCEPT !.ver = @ + 1, !.on = w.save.draft.ver + 1]
          /\ y = [Saving(c) EXCEPT !.file = FALSE, !.told = t]
      OBVIOUS
    <3>2. ShapeInv /\ w.save.on /\ w.save.stage = 2 /\ t \in Tolds
      BY <1>1
    <3> QED
      <4>1. Answered(y, m, w.save.landed)
        BY ONLY <2>1, <3>1, <3>2, PosterAnswer, Zenon
      <4>2. Recalls(y, t, w.savedEvent, w.savedTiers)
        BY ONLY <2>1, <3>1, <3>2, PosterAnswer, Zenon
      <4> QED
        BY <4>1, <4>2 DEF Recalls
  <2>10. EventHeard(y.told, y.savedEvent, events')
    <3>1. CASE w.told = <<d.eid, d.ver>>
      <4>0. t = <<e, d.ver + 1>>
        BY <2>3, <2>4, <3>1
      <4>1. t[1] = e /\ t[2] = d.ver + 1
        BY ONLY <4>0
      <4>2. w.told[1] = e /\ w.told[2] = events[e].ver
        <5>1. w.told = <<e, d.ver>> /\ d.ver = events[e].ver
          BY <1>3, <2>3, <3>1, Zenon
        <5> QED
          BY ONLY <5>1
      <4>3. w.savedEvent = patchFingerprint(events[e])
        <5>1. EventHeard(w.told, w.savedEvent, events)
          BY DEF Heard
        <5> QED
          BY ONLY <2>4, <4>2, <5>1 DEF EventHeard
      <4>4. patchFingerprint(events'[e]) = patchFingerprint(events[e])
        BY ONLY <2>6 DEF patchFingerprint
      <4>5. e \in DOMAIN events' /\ y.told = t /\ y.savedEvent = patchFingerprint(events'[e])
        BY <2>2, <2>3, <2>6, <2>9, <4>3, <4>4
      <4> QED
        BY ONLY <2>4, <2>6, <4>1, <4>5 DEF EventHeard
    <3>2. CASE w.told # <<d.eid, d.ver>>
      <4>1. t = w.told
        BY <3>2
      <4> QED
        BY <2>7, <2>9, <4>1, EventStillHeard
    <3> QED
      BY <3>1, <3>2
  <2>11. TiersHeard(y.savedTiers, tierRows')
    BY <2>7, <2>9, TiersStillHeard
  <2>12. CASE w' = done
    <3>1. w' = After(y, 2) /\ 2 \in 1 .. 4
      <4> PICK z : z = [Saving(c) EXCEPT !.file = FALSE]
        OBVIOUS
      <4>1. z.told = w.told
        BY <1>1, SavingNow DEF Saving, Wizards
      <4>2. done = After([z EXCEPT !.told = IF z.told = <<d.eid, d.ver>> THEN <<d.eid, moved.ver>>
                                            ELSE z.told], 2)
        OBVIOUS
      <4>3. y = [z EXCEPT !.told = t]
        OBVIOUS
      <4>4. t = IF w.told = <<d.eid, d.ver>> THEN <<d.eid, moved.ver>> ELSE w.told
        OBVIOUS
      <4> HIDE DEF done, d, moved, told, apply
      <4>5. (IF z.told = <<d.eid, d.ver>> THEN <<d.eid, moved.ver>> ELSE z.told) = t
        BY ONLY <4>1, <4>4
      <4>6. done = After(y, 2)
        BY ONLY <4>2, <4>3, <4>5
      <4>7. w' = After(y, 2)
        BY ONLY <2>12, <4>6
      <4> QED
        BY ONLY <4>7
    <3> QED
      BY ONLY <2>1, <2>9, <2>10, <2>11, <3>1, AnsweredHeard
  <2> QED
    BY <1>1, <1>3, <2>7, <2>12, FailedHeard, Zenon
<1> QED
  BY <1>1, <1>2, <1>3, Zenon

(* Rows and the lineup are no field of the event.                          *)
LEMMA BesidesHeard ==
  ASSUME ShapeInv, ShapeInv', Heard, EventsAdvance, UNCHANGED tierRows,
         NEW y, NEW landed, Answered(y, Len(events), landed), Memory(y) = Memory(w),
         NEW i \in 1 .. 4, w' = After(y, i)
  PROVE  HeardNext
<1>1. Len(events) \in Nat
  BY DEF ShapeInv, ServerOK
<1>2. y.told = w.told /\ y.savedEvent = w.savedEvent /\ y.savedTiers = w.savedTiers
  BY DEF Memory
<1>3. EventHeard(w.told, w.savedEvent, events') /\ TiersHeard(w.savedTiers, tierRows')
  BY TiersStay, EventStillHeard, TiersStillHeard
<1> QED
  BY <1>1, <1>2, <1>3, AnsweredHeard

LEMMA AddRowHeard == ASSUME ShapeInv, ShapeInv', Heard, NEW r \in Rows, AddRow(r) PROVE HeardNext
<1> DEFINE e == w.save.draft.eid
           tried == [w EXCEPT !.save.rows = @ \ {r}]
           put == [tried EXCEPT !.save.landed = @ \cup {r}]
<1>1. /\ \/ events' = [events EXCEPT ![e].rows = @ \cup {r}]
         \/ UNCHANGED events
      /\ w' = After(put, 2) \/ w' = After(tried, 2)
      /\ UNCHANGED tierRows /\ w.save.on /\ w.save.stage = 3
  BY DEF AddRow, Request, At, serverVars, Show
<1>2. EventsAdvance
  BY <1>1, ServerVersions DEF EventsAdvance, ShapeInv, Events, patchFingerprint
<1>3. PICK m \in Nat : m = Len(events)
  BY DEF ShapeInv, ServerOK
<1> PICK y : y = tried
  OBVIOUS
<1> PICK u : u = [y EXCEPT !.save.landed = @ \cup {r}]
  OBVIOUS
<1>4. /\ Answered(y, m, w.save.landed) /\ Memory(y) = Memory(w)
      /\ Answered(u, m, w.save.landed \cup {r}) /\ Memory(u) = Memory(w)
  <2>1. /\ ShapeInv /\ w.save.on /\ w.save.stage = 3 /\ r \in Rows
        /\ y = [w EXCEPT !.save.rows = @ \ {r}]
        /\ u = [y EXCEPT !.save.landed = @ \cup {r}]
    BY <1>1
  <2> QED
    BY ONLY <1>3, <2>1, RowAnswer, ZenonT(30)
<1>5. 2 \in 1 .. 4 /\ (w' = After(u, 2) \/ w' = After(y, 2))
  BY <1>1
<1> HIDE DEF tried, put
<1> QED
  BY <1>1, <1>2, <1>3, <1>4, <1>5, BesidesHeard

LEMMA SetEventCrewHeard == ASSUME ShapeInv, ShapeInv', Heard, SetEventCrew PROVE HeardNext
<1> DEFINE d == w.save.draft
           synced == [w EXCEPT !.save.crewSynced = TRUE]
<1>1. /\ \/ events' = [events EXCEPT ![d.eid].crew = d.crew]
         \/ UNCHANGED events
      /\ w' = After(synced, 4) \/ w' = After(w, 4)
      /\ UNCHANGED tierRows /\ w.save.on /\ w.save.stage = 4
  BY DEF SetEventCrew, Request, At, serverVars, Show
<1>2. EventsAdvance
  BY <1>1, ServerVersions DEF EventsAdvance, ShapeInv, Events, patchFingerprint
<1>3. PICK m \in Nat : m = Len(events)
  BY DEF ShapeInv, ServerOK
<1> PICK y : y = synced
  OBVIOUS
<1>4. /\ Answered(y, m, w.save.landed) /\ Memory(y) = Memory(w)
      /\ Answered(w, m, w.save.landed)
  BY <1>1, <1>3, CrewAnswer
<1>5. 4 \in 1 .. 4 /\ (w' = After(y, 4) \/ w' = After(w, 4))
  BY <1>1
<1> HIDE DEF synced
<1> QED
  BY <1>1, <1>2, <1>3, <1>4, <1>5, BesidesHeard

LEMMA WriteTierHeard ==
  ASSUME ShapeInv, ShapeInv', Heard, NEW k \in Tiers, WriteTier(k)
  PROVE  HeardNext
<1> DEFINE d == w.save.draft
           tier == d.tiers[k]
           sid == IF tier.sid = 0 THEN Len(tierRows) + 1 ELSE tier.sid
           ver == IF tier.sid = 0 THEN 1 ELSE tier.ver + 1
           row == [event |-> d.eid, key |-> k, val |-> tier.val, ver |-> ver]
           moved == [d EXCEPT !.tiers[k].sid = sid, !.tiers[k].ver = ver]
           apply == /\ tierRows' = IF tier.sid = 0 THEN Append(tierRows, row)
                                   ELSE [tierRows EXCEPT ![sid] = row]
                    /\ UNCHANGED events
           known == tier.sid # 0 => sid \in DOMAIN tierRows /\ tier.ver = tierRows[sid].ver
           done == After([Saving(moved) EXCEPT
                            !.savedTiers = Put(@, sid, [val |-> tier.val, ver |-> ver])], 4)
<1>1. /\ \/ apply /\ known /\ (w' = done \/ w' = Fail(w, TRUE))
         \/ UNCHANGED <<events, tierRows>> /\ (w' = Fail(w, FALSE) \/ w' = Fail(w, TRUE))
      /\ w.save.on /\ w.save.stage = 5
  BY Zenon DEF WriteTier, Request, At, serverVars, toTierInput, Show
<1>2. CASE UNCHANGED <<events, tierRows>> /\ (w' = Fail(w, FALSE) \/ w' = Fail(w, TRUE))
  BY <1>1, <1>2, NothingMoves, FailedHeard, Zenon
<1>3. CASE apply /\ known /\ (w' = done \/ w' = Fail(w, TRUE))
  <2>1. PICK m \in Nat : m = Len(events)
    BY DEF ShapeInv, ServerOK
  <2>2. d \in Drafts(m) /\ d.eid # 0
    <3>1. SaveOK(w.save, Len(events)) /\ w.save # Idle /\ w.save.stage = 5
      BY <1>1, SavingNow, Zenon
    <3>2. w.save.draft.eid # 0
      BY ONLY <3>1 DEF SaveOK
    <3> QED
      BY <1>1, <2>1, <3>2, SaveHasEvent, Zenon
  <2>3. tier \in TierRecs /\ tierRows \in Seq(TierRows)
    BY <2>2 DEF Drafts, DraftRecs, ShapeInv, ServerOK
  <2>4. PICK i \in Nat : i = sid
    BY <2>3 DEF TierRecs
  <2>5. PICK v \in Nat : v = ver
    BY <2>3 DEF TierRecs
  <2> PICK new : new = row
    OBVIOUS
  <2>6. new.val = tier.val /\ new.ver = v
    BY <2>5
  <2>7. \A j \in DOMAIN tierRows : tierRows[j].ver \in Nat
    BY ServerVersions DEF ShapeInv
  <2>8. /\ i \in DOMAIN tierRows' /\ tierRows'[i] = new
        /\ \A j \in DOMAIN tierRows :
             /\ j \in DOMAIN tierRows'
             /\ j # i => tierRows'[j] = tierRows[j]
             /\ j = i => tierRows[j].ver < v
    <3>1. CASE tier.sid = 0
      <4>1. tierRows' = Append(tierRows, new) /\ i = Len(tierRows) + 1
        BY <1>3, <2>4, <3>1
      <4> HIDE DEF row
      <4> QED
        BY <2>3, <4>1
    <3>2. CASE tier.sid # 0
      <4>1. /\ tierRows' = [tierRows EXCEPT ![i] = new] /\ i \in DOMAIN tierRows
            /\ v = tierRows[i].ver + 1
        BY <1>3, <2>4, <2>5, <3>2, Zenon
      <4> HIDE DEF row
      <4> QED
        BY <2>3, <2>7, <4>1
    <3> QED
      BY <3>1, <3>2
  <2>9. TiersAdvance
    <3>1. ASSUME NEW j \in DOMAIN tierRows
          PROVE  /\ j \in DOMAIN tierRows' /\ tierRows[j].ver =< tierRows'[j].ver
                 /\ tierRows'[j].ver = tierRows[j].ver => tierRows'[j].val = tierRows[j].val
      <4>1. CASE j = i
        BY ONLY v \in Nat, <2>6, <2>7, <2>8, <4>1
      <4>2. CASE j # i
        BY ONLY <2>7, <2>8, <4>2
      <4> QED
        BY <4>1, <4>2
    <3> QED
      BY ONLY <3>1 DEF TiersAdvance
  <2>10. EventsAdvance
    BY <1>3, EventsStay, Zenon
  <2> PICK mark \in TierMarks : mark = [val |-> tier.val, ver |-> v]
    BY <2>3 DEF TierMarks, TierRecs
  <2> PICK c : c = moved
    OBVIOUS
  <2> PICK y : y = [Saving(c) EXCEPT !.savedTiers = Put(@, i, mark)]
    BY Zenon
  <2>11. c = [d EXCEPT !.tiers[k].sid = i, !.tiers[k].ver = v] /\ done = After(y, 4)
    BY <2>4, <2>5, Zenon
  <2>12. /\ Answered(y, m, w.save.landed) /\ y.told = w.told /\ y.savedEvent = w.savedEvent
         /\ y.savedTiers = Put(w.savedTiers, i, mark)
    <3>1. c \in Drafts(m) /\ Same(d, c)
      <4>1. w.save.draft \in Drafts(m) /\ c = [w.save.draft EXCEPT !.tiers[k].sid = i, !.tiers[k].ver = v]
        BY <2>2, <2>11, Zenon
      <4> QED
        BY ONLY k \in Tiers, m \in Nat, i \in Nat, v \in Nat, <4>1, DraftAnswers, AnswersKeepWork, Zenon
    <3>2. c.eid = d.eid
      BY <2>2, <2>11, Zenon DEF Drafts, DraftRecs
    <3>3. y = [Saving(c) EXCEPT !.savedTiers = Put(@, i, mark)]
      BY Zenon
    <3>4. ShapeInv /\ w.save.on /\ w.save.stage = 5 /\ mark \in TierMarks
      BY <1>1, Zenon
    <3> QED
      <4>1. Answered(y, m, w.save.landed)
        BY ONLY <2>1, i \in Nat, <3>1, <3>2, <3>3, <3>4, TierAnswer
      <4>2. Recalls(y, w.told, w.savedEvent, Put(w.savedTiers, i, mark))
        BY ONLY <2>1, i \in Nat, <3>1, <3>2, <3>3, <3>4, TierAnswer
      <4> QED
        BY <4>1, <4>2, Zenon DEF Recalls
  <2>13. TiersHeard(y.savedTiers, tierRows')
    <3>1. TiersHeard(w.savedTiers, tierRows')
      BY <2>9, TiersStillHeard, Zenon
    <3>2. mark.val = tierRows'[i].val /\ mark.ver = tierRows'[i].ver
      BY <2>6, <2>8, Zenon
    <3>3. y.savedTiers = Put(w.savedTiers, i, mark) /\ i \in DOMAIN tierRows' /\ mark.ver \in Nat
      BY <2>8, <2>12, Zenon DEF TierMarks
    <3> QED
      BY ONLY <3>1, <3>2, <3>3 DEF TiersHeard, Put
  <2>14. EventHeard(y.told, y.savedEvent, events')
    BY <2>10, <2>12, EventStillHeard, Zenon
  <2>15. CASE w' = done
    <3> HIDE DEF done
    <3>1. w' = After(y, 4) /\ 4 \in 1 .. 4
      BY ONLY <2>11, <2>15
    <3> QED
      BY ONLY <2>1, <2>12, <2>13, <2>14, <3>1, AnsweredHeard
  <2> QED
    BY <1>1, <1>3, <2>9, <2>10, <2>15, FailedHeard, Zenon
<1> QED
  BY <1>1, <1>2, <1>3, Zenon

LEMMA SaveStepHeard == ASSUME ShapeInv, ShapeInv', Heard, SaveStep PROVE HeardNext
  BY CreateEventHeard, UpdateEventHeard, UploadPosterHeard, AddRowHeard, SetEventCrewHeard,
     WriteTierHeard
  DEF SaveStep

-----------------------------------------------------------------------------
(* The other steps.                                                        *)

LEMMA SameHeard ==
  ASSUME ShapeInv, ShapeInv', Heard, UNCHANGED <<events, tierRows>>,
         NEW x, w' = x, Memory(x) = Memory(w)
  PROVE  HeardNext
<1>1. Memory(w') = Memory(w)
  OBVIOUS
<1> QED
  BY <1>1, Unmoved

LEMMA FlushedHeard ==
  ASSUME ShapeInv, ShapeInv', Heard, UNCHANGED <<events, tierRows>>,
         NEW n \in Nat, NEW y, Fit(y, n), Memory(y) = Memory(w), NEW connected,
         w' = flush(y, connected)
  PROVE  HeardNext
<1>1. PICK x : x = flush(y, connected)
  OBVIOUS
<1>2. Memory(x) = Memory(y)
  BY <1>1, FlushRemembers
<1>3. w' = x /\ Memory(x) = Memory(w)
  BY <1>1, <1>2
<1> QED
  BY <1>3, SameHeard

LEMMA TouchedRemembers ==
  ASSUME NEW n \in Nat, NEW x, Fit(x, n), NEW y, y \in Fired(x) \/ y = Woken(x)
  PROVE  Memory(y) = Memory(x)
<1>1. x \in Wizards(n)
  BY DEF Fit, Loaded
<1> QED
  BY <1>1 DEF Wizards, Fired, Woken, Memory

LEMMA TimersHeard == ASSUME ShapeInv, ShapeInv', Heard, Timers \/ saveNow PROVE HeardNext
<1>1. Open /\ UNCHANGED <<events, tierRows>>
  BY DEF Timers, TimerFires, RetryFires, saveNow, Calm
<1>2. PICK m \in Nat : m = Len(events) /\ Fit(w, m)
  BY <1>1, OpenIsFit
<1>3. PICK y : y \in Fired(w) /\ w' = flush(y, online)
  BY DEF Timers, TimerFires, RetryFires, saveNow, Fired, Show
<1>4. Fit(y, m) /\ Memory(y) = Memory(w)
  BY <1>2, <1>3, FieldsTouched, TouchedRemembers
<1> QED
  BY <1>1, <1>3, <1>4, FlushedHeard

LEMMA GoOnlineHeard == ASSUME ShapeInv, ShapeInv', Heard, GoOnline PROVE HeardNext
<1>1. UNCHANGED <<events, tierRows>>
  BY DEF GoOnline
<1>2. CASE Open
  <2>1. PICK m \in Nat : m = Len(events) /\ Fit(w, m)
    BY <1>2, OpenIsFit
  <2>2. PICK y : y = Woken(w)
    OBVIOUS
  <2>3. Fit(y, m) /\ Memory(y) = Memory(w)
    BY <2>1, <2>2, FieldsTouched, TouchedRemembers
  <2>4. w' = flush(y, TRUE)
    BY <1>2, <2>2 DEF GoOnline, Woken, Show
  <2> QED
    BY <1>1, <2>1, <2>3, <2>4, FlushedHeard
<1>3. CASE ~Open
  <2>1. w' = w
    BY <1>3 DEF GoOnline
  <2> QED
    BY <1>1, <2>1, SameHeard
<1> QED
  BY <1>2, <1>3

LEMMA FieldsHeard == ASSUME ShapeInv, ShapeInv', Heard, Fields PROVE HeardNext
<1>1. Open /\ UNCHANGED <<events, tierRows>>
  BY FieldsUpdate DEF Calm
<1>2. PICK next \in Drafts(Len(events)) : w' = update(w, next)
  BY FieldsUpdate DEF Show
<1>3. PICK m \in Nat : m = Len(events) /\ Loaded(w, m)
  BY <1>1, OpenIsFit DEF Fit
<1>4. PICK x : x = update(w, next)
  OBVIOUS
<1>5. Memory(x) = Memory(w)
  BY <1>3, <1>4, UpdateRemembers
<1> QED
  BY <1>1, <1>2, <1>4, <1>5, SameHeard

LEMMA PosterHeard == ASSUME ShapeInv, ShapeInv', Heard, setPoster PROVE HeardNext
<1>1. Open /\ UNCHANGED <<events, tierRows>>
  BY DEF setPoster, Calm
<1>2. PICK m \in Nat : m = Len(events) /\ Fit(w, m) /\ Loaded(w, m) /\ w.draft \in Drafts(m)
  BY <1>1, OpenIsFit DEF Fit, Loaded
<1>3. PICK y : y = update(w, w.draft)
  OBVIOUS
<1>4. Fit(y, m) /\ Memory(y) = Memory(w)
  BY <1>2, <1>3, UpdateType, UpdateRemembers
<1>5. PICK x : x = [y EXCEPT !.file = TRUE]
  OBVIOUS
<1>6. Memory(x) = Memory(y)
  BY <1>4, <1>5 DEF Fit, Loaded, Wizards, Memory
<1>7. w' = x /\ Memory(x) = Memory(w)
  BY <1>3, <1>4, <1>5, <1>6 DEF setPoster, Show
<1> QED
  BY <1>1, <1>7, SameHeard

LEMMA UndoRedoHeard == ASSUME ShapeInv, ShapeInv', Heard, undo \/ redo PROVE HeardNext
<1>1. Open /\ UNCHANGED <<events, tierRows>>
  BY DEF undo, redo, Calm
<1>2. PICK m \in Nat : w \in Wizards(m)
  BY <1>1, OpenIsFit DEF Fit, Loaded
<1>3. PICK d, p, f : w' = schedule([w EXCEPT !.draft = d, !.past = p, !.future = f, !.st = "dirty"])
  <2>1. CASE undo
    <3>1. w' = schedule([w EXCEPT !.draft = Last(w.past), !.past = Front(w.past),
                                  !.future = <<w.draft>> \o w.future, !.st = "dirty"])
      BY <1>2, <2>1 DEF undo, Show, Wizards
    <3> QED
      BY <3>1, Zenon
  <2>2. CASE redo
    <3>1. [w EXCEPT !.draft = Head(w.future), !.future = Tail(@),
                    !.past = Append(@, w.draft), !.st = "dirty"]
            = [w EXCEPT !.draft = Head(w.future), !.past = Append(w.past, w.draft),
                        !.future = Tail(w.future), !.st = "dirty"]
      BY <1>2 DEF Wizards
    <3>2. w' = schedule([w EXCEPT !.draft = Head(w.future), !.past = Append(w.past, w.draft),
                                  !.future = Tail(w.future), !.st = "dirty"])
      BY <2>2, <3>1 DEF redo, Show
    <3> QED
      BY <3>2, Zenon
  <2> QED
    BY <2>1, <2>2, Zenon
<1>4. PICK x : x = schedule([w EXCEPT !.draft = d, !.past = p, !.future = f, !.st = "dirty"])
  OBVIOUS
<1>5. Memory(x) = Memory(w)
  BY <1>2, <1>4 DEF schedule, Wizards, Memory
<1> QED
  BY <1>1, <1>3, <1>4, <1>5, SameHeard

LEMMA NetworkHeard == ASSUME ShapeInv, ShapeInv', Heard, GoOffline \/ OwnedChanges PROVE HeardNext
<1>1. UNCHANGED <<events, tierRows>>
  BY DEF GoOffline, OwnedChanges
<1>2. CASE ~Open
  <2>1. w' = w
    BY <1>2 DEF GoOffline, OwnedChanges
  <2> QED
    BY <1>1, <2>1, SameHeard
<1>3. CASE Open
  <2>1. PICK m \in Nat : w \in Wizards(m)
    BY <1>3, OpenIsFit DEF Fit, Loaded
  <2>2. PICK y : y = [w EXCEPT !.draft.org = owned']
    OBVIOUS
  <2>3. PICK z : z = schedule(y)
    OBVIOUS
  <2>4. PICK x : x = [w EXCEPT !.st = "offline"]
    OBVIOUS
  <2>5. Memory(y) = Memory(w)
    BY <2>1, <2>2 DEF Wizards, Memory
  <2>6. Memory(z) = Memory(w)
    <3>1. z = [y EXCEPT !.timer = TRUE, !.touched = TRUE]
      BY <2>3 DEF schedule
    <3> QED
      BY <2>1, <2>2, <3>1 DEF Wizards, Memory
  <2>7. Memory(x) = Memory(w)
    BY <2>1, <2>4 DEF Wizards, Memory
  <2>8. w' = w \/ w' = y \/ w' = z \/ w' = x
    BY <2>2, <2>3, <2>4 DEF GoOffline, OwnedChanges, Show
  <2>9. Memory(w) = Memory(w)
    OBVIOUS
  <2> QED
    BY <1>1, <2>5, <2>6, <2>7, <2>8, <2>9, SameHeard
<1> QED
  BY <1>2, <1>3

LEMMA PublishHeard == ASSUME ShapeInv, ShapeInv', Heard, publish PROVE HeardNext
<1>1. Open /\ UNCHANGED <<events, tierRows>>
  BY DEF publish, Calm
<1>2. PICK m \in Nat : m = Len(events) /\ Fit(w, m)
  BY <1>1, OpenIsFit
<1>3. PICK y : y = flush(w, online)
  OBVIOUS
<1>4. Fit(y, m) /\ Memory(y) = Memory(w)
  BY <1>2, <1>3, FlushType, FlushRemembers
<1>5. PICK p : p = IF y.save.on /\ ~w.save.on THEN "flushing" ELSE "call"
  OBVIOUS
<1>6. PICK x : x = [y EXCEPT !.publishing = p, !.pressed = w.draft]
  OBVIOUS
<1>7. Memory(x) = Memory(y)
  BY <1>4, <1>6 DEF Fit, Loaded, Wizards, Memory
<1>8. w' = x /\ Memory(x) = Memory(w)
  BY <1>3, <1>4, <1>5, <1>6, <1>7 DEF publish, Show
<1> QED
  BY <1>1, <1>8, SameHeard

LEMMA GoLiveAdvances ==
  ASSUME ShapeInv, NEW e \in DOMAIN events, GoLive(e)
  PROVE  EventsAdvance
<1>1. \A i \in DOMAIN events : events[i] \in Events /\ events[i].ver \in Nat
  BY ServerVersions DEF ShapeInv
<1>2. /\ DOMAIN events' = DOMAIN events
      /\ \A i \in DOMAIN events : i # e => events'[i] = events[i]
      /\ events'[e].ver = events[e].ver + 1
  BY <1>1 DEF GoLive, Events
<1> QED
  BY ONLY e \in DOMAIN events, <1>1, <1>2 DEF EventsAdvance

LEMMA PublishCallHeard == ASSUME ShapeInv, ShapeInv', Heard, PublishCall PROVE HeardNext
<1>1. CASE LeaveNothing \/ LeaveEmpty
  <2>1. w' = Closed
    BY <1>1 DEF LeaveNothing, LeaveEmpty
  <2> QED
    BY <2>1, ClosedHeard
<1>2. CASE NotPublished
  <2>1. Open /\ UNCHANGED tierRows /\ (UNCHANGED events \/ (w.draft.eid # 0 /\ GoLive(w.draft.eid)))
    BY DEF PublishCall, serverVars, GoLive
  <2>2. w.draft.eid # 0 => w.draft.eid \in DOMAIN events
    <3>1. w.draft \in Drafts(Len(events)) /\ Len(events) \in Nat /\ events \in Seq(Events)
      BY <2>1, OpenIsFit DEF Loaded, ShapeInv, ServerOK
    <3> QED
      BY <3>1 DEF Drafts, DraftRecs
  <2>3. EventsAdvance /\ TiersAdvance
    BY <2>1, <2>2, EventsStay, TiersStay, GoLiveAdvances
  <2>4. PICK x : x = [w EXCEPT !.publishing = "no", !.pressed = NoDraft]
    OBVIOUS
  <2>5. Memory(x) = Memory(w)
    BY <2>1, <2>4, OpenIsFit DEF Fit, Loaded, Wizards, Memory
  <2>6. w' = x
    BY <1>2, <2>4 DEF NotPublished, Show
  <2>7. Memory(w') = Memory(w)
    BY ONLY <2>5, <2>6
  <2> QED
    BY <2>3, <2>7, StillHeard
<1> QED
  BY <1>1, <1>2 DEF PublishCall

LEMMA OthersHeard ==
  ASSUME ShapeInv, ShapeInv', Heard, NEW e \in DOMAIN events, Others(e)
  PROVE  HeardNext
<1>1. w' = w /\ UNCHANGED tierRows
  BY Zenon DEF Others, OtherEdit, OtherPublish
<1>2. EventsAdvance
  <2>1. CASE OtherPublish(e)
    BY <2>1, GoLiveAdvances DEF OtherPublish
  <2>2. ASSUME NEW text \in Texts, NEW rest \in Rests, OtherEdit(e, text, rest)
        PROVE  EventsAdvance
    <3>1. \A i \in DOMAIN events : events[i] \in Events /\ events[i].ver \in Nat
      BY ServerVersions DEF ShapeInv
    <3>2. /\ DOMAIN events' = DOMAIN events
          /\ \A i \in DOMAIN events : i # e => events'[i] = events[i]
          /\ events'[e].ver = events[e].ver + 1
      BY <2>2, <3>1 DEF OtherEdit, Events
    <3> QED
      BY ONLY e \in DOMAIN events, <3>1, <3>2 DEF EventsAdvance
  <2> QED
    BY <2>1, <2>2 DEF Others
<1>3. Memory(w') = Memory(w)
  BY <1>1
<1> QED
  BY <1>1, <1>2, <1>3, TiersStay, StillHeard

-----------------------------------------------------------------------------
(* Hydration.                                                              *)

LEMMA HydrateNewHeard ==
  ASSUME ShapeInv, ShapeInv', Heard, HydrateNew, UNCHANGED <<events, tierRows>>
  PROVE  HeardNext
<1>1. PICK d : d = restoreDraft(Stored(0), tabs)
  OBVIOUS
<1>2. PICK p : p = IF d.eid # 0 THEN patchFingerprint(d) ELSE NoPrint
  OBVIOUS
<1>3. PICK t : t = IF OnServer(d) THEN <<d.eid, events[d.eid].ver>> ELSE NoTold
  OBVIOUS
<1>4. PICK st : st = IF d.eid # 0 THEN "saved" ELSE "local"
  OBVIOUS
<1>5. PICK y : y = [Closed EXCEPT !.mode = "create", !.draft = d, !.savedEvent = p, !.told = t, !.st = st]
  OBVIOUS
<1>6. y.told = t /\ y.savedEvent = p /\ y.savedTiers = <<>>
  BY <1>5 DEF Closed
<1>7. w' = y \/ w' = schedule(y)
  BY <1>1, <1>2, <1>3, <1>4, <1>5 DEF HydrateNew, Show
<1>8. w'.told = t /\ w'.savedEvent = p /\ w'.savedTiers = <<>>
  <2>1. Memory(schedule(y)) = Memory(y)
    BY <1>5 DEF schedule, Closed, Memory
  <2> QED
    BY <1>6, <1>7, <2>1 DEF Memory
<1>9. TiersHeard(w'.savedTiers, tierRows')
  BY <1>8 DEF TiersHeard
<1>10. EventHeard(t, p, events')
  <2>1. CASE ~OnServer(d)
    BY <1>3, <2>1 DEF EventHeard, NoTold
  <2>2. CASE OnServer(d)
    <3>1. /\ t = <<d.eid, events[d.eid].ver>> /\ d.eid # 0
          /\ p = patchFingerprint(events[d.eid])
      BY <1>2, <1>3, <2>2 DEF OnServer
    <3>2. d.eid \in DOMAIN events
      <4>1. PICK c : c = Stored(0)
        OBVIOUS
      <4>2. CASE d = emptyDraft(owned, tabs)
        BY <3>1, <4>2 DEF emptyDraft
      <4>3. CASE c # NoDraft /\ d = [c EXCEPT !.org = owned, !.gen = tabs]
        <5>1. c \in Drafts(Len(events)) /\ Len(events) \in Nat /\ events \in Seq(Events)
          BY <4>1, <4>3, StoredType DEF ShapeInv, ServerOK
        <5> QED
          BY <3>1, <4>3, <5>1 DEF Drafts, DraftRecs
      <4> QED
        BY <1>1, <4>1, <4>2, <4>3 DEF restoreDraft
    <3>3. events[d.eid].ver \in Nat
      BY <3>2, ServerVersions DEF ShapeInv
    <3>4. t[1] = d.eid /\ t[2] = events[d.eid].ver
      BY ONLY <3>1
    <3> QED
      BY ONLY UNCHANGED <<events, tierRows>>, <3>1, <3>2, <3>3, <3>4 DEF EventHeard
  <2> QED
    BY <2>1, <2>2
<1> QED
  BY <1>8, <1>9, <1>10 DEF HeardNext

LEMMA HydrateEditHeard ==
  ASSUME ShapeInv, ShapeInv', Heard, NEW e \in DOMAIN events, HydrateEdit(e),
         UNCHANGED <<events, tierRows>>
  PROVE  HeardNext
<1>1. PICK server : server = draftFromEvent(e, tabs)
  OBVIOUS
<1>2. /\ server.eid = e /\ server.ver = events[e].ver /\ server.tiers = TiersOf(e)
      /\ patchFingerprint(server) = patchFingerprint(events[e])
  BY <1>1 DEF draftFromEvent, emptyDraft, patchFingerprint
<1>3. PICK f : f = ServerTiers(server)
  OBVIOUS
<1>4. PICK p : p = patchFingerprint(server)
  OBVIOUS
<1>5. PICK d : d = IF Usable(Stored(e), server)
                   THEN [Stored(e) EXCEPT !.eid = e, !.ver = server.ver, !.gen = tabs]
                   ELSE server
  OBVIOUS
<1>6. PICK t : t = <<e, server.ver>>
  OBVIOUS
<1>7. PICK b : b = ~events[e].live
  OBVIOUS
<1>8. PICK y : y = [Closed EXCEPT !.mode = "edit", !.source = e, !.draft = d, !.savedEvent = p,
                                  !.told = t, !.savedTiers = f, !.submittable = b, !.st = "saved"]
  OBVIOUS
<1>9. w' = y
  BY <1>1, <1>3, <1>4, <1>5, <1>6, <1>7, <1>8 DEF HydrateEdit, ServerTiers, Show
<1>10. y.told = t /\ y.savedEvent = p /\ y.savedTiers = f
  BY <1>8 DEF Closed
<1>11. w'.told = t /\ w'.savedEvent = p /\ w'.savedTiers = f
  BY <1>9, <1>10
<1>12. TiersHeard(f, tierRows')
  <2>1. \A i \in DOMAIN f : i \in DOMAIN tierRows /\ f[i] = [val |-> tierRows[i].val, ver |-> tierRows[i].ver]
    BY <1>2, <1>3, ServerTiersType DEF ShapeInv
  <2>2. \A i \in DOMAIN tierRows : tierRows[i].ver \in Nat
    BY ServerVersions DEF ShapeInv
  <2>3. \A i \in DOMAIN f : i \in DOMAIN tierRows /\ f[i].val = tierRows[i].val /\ f[i].ver = tierRows[i].ver
    BY ONLY <2>1
  <2> QED
    BY ONLY UNCHANGED <<events, tierRows>>, <2>2, <2>3 DEF TiersHeard
<1>13. EventHeard(t, p, events')
  <2>1. t[1] = e /\ t[2] = events[e].ver
    BY <1>2, <1>6
  <2>2. events[e].ver \in Nat
    BY ServerVersions DEF ShapeInv
  <2> QED
    BY ONLY UNCHANGED <<events, tierRows>>, e \in DOMAIN events, <1>2, <1>4, <2>1, <2>2 DEF EventHeard
<1> QED
  BY <1>11, <1>12, <1>13 DEF HeardNext

LEMMA HydrateCloneHeard ==
  ASSUME ShapeInv, NEW e \in DOMAIN events, HydrateClone(e)
  PROVE  HeardNext
<1>1. PICK m \in Nat : w \in Wizards(m)
  BY ClosedType DEF ShapeInv, ServerOK, Fit, Loaded
<1>2. PICK d : d = cloneDraftFrom(e, tabs)
  OBVIOUS
<1>3. PICK y : y = [w EXCEPT !.mode = "clone", !.draft = d, !.past = <<>>, !.future = <<>>,
                             !.savedEvent = NoPrint, !.told = NoTold, !.savedTiers = <<>>,
                             !.file = FALSE, !.st = "local", !.touched = FALSE]
  OBVIOUS
<1>4. y.told = NoTold /\ y.savedTiers = <<>>
  BY <1>1, <1>3 DEF Wizards
<1>5. w' = y
  BY <1>2, <1>3 DEF HydrateClone, Show
<1> QED
  BY <1>4, <1>5, ForgottenHeard

LEMMA MountHeard == ASSUME ShapeInv, ShapeInv', Heard, Mount PROVE HeardNext
<1>1. UNCHANGED <<events, tierRows>>
  BY DEF Mount, Calm
<1> QED
  BY <1>1, HydrateNewHeard, HydrateEditHeard, HydrateCloneHeard DEF Mount

LEMMA HeardStep == ASSUME ShapeInv, ShapeInv', Heard, Next PROVE HeardNext
<1>1. CASE Person
  <2>1. CASE Close
    BY <2>1, ClosedHeard DEF Close
  <2>2. CASE ~Close
    BY <1>1, <2>2, FieldsHeard, PosterHeard, UndoRedoHeard, TimersHeard, MountHeard, PublishHeard,
       OthersHeard DEF Person, Fields, Others
  <2> QED
    BY <2>1, <2>2
<1>2. CASE Network
  BY <1>2, NetworkHeard, GoOnlineHeard DEF Network
<1> QED
  BY <1>1, <1>2, SaveStepHeard, TimersHeard, PublishCallHeard DEF Next

LEMMA HeardAlways == Spec => []Heard
<1>1. Init => Heard
  BY DEF Init, Closed, Heard, EventHeard, TiersHeard, NoTold
<1>2. ShapeInv /\ ShapeInv' /\ Heard /\ [Next]_vars => Heard'
  <2>1. ASSUME ShapeInv, ShapeInv', Heard, Next PROVE Heard'
    BY <2>1, HeardStep DEF HeardNext, Heard, EventHeard, TiersHeard, patchFingerprint
  <2>2. ASSUME Heard, UNCHANGED vars PROVE Heard'
    BY <2>2 DEF vars, Heard, EventHeard, TiersHeard, patchFingerprint
  <2> QED
    BY <2>1, <2>2
<1> QED
  BY <1>1, <1>2, ShapeAlways, PTL DEF Spec

-----------------------------------------------------------------------------
(* What the wizard has confirmed is on the server, or it is misled.        *)
LEMMA ConfirmedIsHeard ==
  ASSUME ShapeInv, Heard, IsConfirmed(w)
  PROVE  Confirmed
<1>1. OnServer(w.draft) \/ Misled
  <2> SUFFICES ASSUME ~Misled PROVE OnServer(w.draft)
    OBVIOUS
  <2>1. /\ w.draft.eid # 0 /\ patchFingerprint(w.draft) = w.savedEvent
        /\ w.told = <<w.draft.eid, events[w.draft.eid].ver>>
    BY DEF IsConfirmed, Misled
  <2>2. w.told[1] = w.draft.eid /\ w.told[2] = events[w.draft.eid].ver
    BY ONLY <2>1
  <2>3. w.savedEvent = patchFingerprint(events[w.draft.eid])
    BY <2>1, <2>2 DEF Heard, EventHeard
  <2> QED
    BY <2>1, <2>3 DEF OnServer
<1>2. ASSUME NEW k \in Tiers, tierIsSavable(w.draft.tiers[k])
      PROVE  TierOnServer(w.draft.tiers[k])
  <2> PICK i : i = w.draft.tiers[k].sid
    OBVIOUS
  <2>1. i \in DOMAIN w.savedTiers /\ w.savedTiers[i].val = w.draft.tiers[k].val
    BY <1>2 DEF IsConfirmed
  <2>2. /\ i \in DOMAIN tierRows
        /\ w.savedTiers[i].ver = tierRows[i].ver => w.savedTiers[i].val = tierRows[i].val
    BY <2>1 DEF Heard, TiersHeard
  <2>3. i # 0
    BY <2>2 DEF ShapeInv, ServerOK
  <2> QED
    BY <2>1, <2>2, <2>3 DEF TierOnServer
<1> QED
  BY <1>1, <1>2 DEF Confirmed

(* THE BADGE SETTLES (BadgeSettles): "saving" and "dirty" always have a    *)
(* save or a timer behind them, and "saved" is only left standing on the   *)
(* fields the server has, unless the code is Misled: then it stands on     *)
(* fields the server was never sent, or no longer has (use-wizard.ts:57,   *)
(* 324, 482-515, 690-730).                                                 *)
THEOREM TheBadgeSettles == Spec => []BadgeSettles
<1>1. ShapeInv /\ Settles /\ Heard => BadgeSettles
  <2> SUFFICES ASSUME ShapeInv, Settles, Heard, Quiet PROVE BadgeSettles
    BY DEF BadgeSettles
  <2>1. w.st \in States
    BY OpenIsFit DEF Quiet, Loaded, Wizards
  <2>2. Marked(w) /\ (w.touched => (w.st = "saved" => IsConfirmed(w)))
    BY DEF Quiet, Settles, Settling, Unqueued, Marked
  <2>3. w.touched /\ w.st = "saved" => OnServer(w.draft) \/ Misled
    BY <2>2, ConfirmedIsHeard DEF Confirmed
  <2> QED
    BY <2>1, <2>2, <2>3 DEF BadgeSettles, Quiet, Marked, States
<1> QED
  BY <1>1, ShapeAlways, SettlesAlways, HeardAlways, PTL

(* NO EDIT IS STRANDED (NoStrandedEdit): a creatable draft with fields or  *)
(* tiers that the server does not have has a timer, a queued save, a save  *)
(* of these very values, or a badge that says why not, unless the code is  *)
(* Misled about the fields (use-wizard.ts:482-730).                        *)
THEOREM NoEditIsStranded == Spec => []NoStrandedEdit
<1>1. ShapeInv /\ Settles /\ Heard => NoStrandedEdit
  <2> SUFFICES ASSUME ShapeInv, Settles, Heard, Open, w.touched, canCreate(w.draft), ~Confirmed, online,
                      ~w.timer, ~w.pending, w.st \notin {"offline", "error"}
               PROVE  BeingSaved
    BY DEF NoStrandedEdit
  <2>1. w.st \in States
    BY OpenIsFit DEF Loaded, Wizards
  <2>2. ~IsConfirmed(w)
    BY ConfirmedIsHeard
  <2>3. Unqueued(w, online)
    BY DEF Unqueued
  <2>4. w.save.on
    BY <2>1, <2>2, <2>3 DEF Settles, Settling, Marked, States
  <2> QED
    BY <2>3, <2>4 DEF Settles, Settling, Same, BeingSaved
<1> QED
  BY <1>1, ShapeAlways, SettlesAlways, HeardAlways, PTL

-----------------------------------------------------------------------------
(* A save keeps what is typed meanwhile.                                   *)

(* The rows that have landed are on the event that the save works on.      *)
OnEvent(s, evs) ==
  s.on => IF s.draft.eid = 0 THEN s.landed = {} ELSE s.landed \subseteq evs[s.draft.eid].rows

LEMMA AfterSaves ==
  ASSUME NEW n \in Nat, NEW x, Loaded(x, n), Begun(x.save, n), NEW i \in 0 .. 4
  PROVE  \/ After(x, i).save = Idle
         \/ /\ After(x, i).save.draft = x.save.draft /\ After(x, i).save.landed = x.save.landed
            /\ After(x, i).draft = x.draft
<1> DEFINE left == {j \in i + 1 .. 5 : HasWork(x, j)}
<1>1. CASE left = {}
  <2>1. After(x, i) = Succeed(x)
    BY <1>1 DEF After
  <2>2. PICK d : d = Merged(x)
    OBVIOUS
  <2>3. d \in MaybeDrafts(n) /\ d \in Drafts(n) /\ x \in Wizards(n) /\ x.mode # "none"
    BY <2>2, MergedType DEF Loaded, MaybeDrafts
  <2>4. PICK y : y = [x EXCEPT !.draft = d, !.retryUsed = FALSE,
                               !.st = IF x.pending THEN "dirty" ELSE "saved"]
    OBVIOUS
  <2>5. Loaded(y, n) /\ Succeed(x) = Finish(y)
    BY <2>2, <2>3, <2>4 DEF Loaded, Wizards, States, Succeed
  <2>6. Finish(y).save = Idle
    BY <2>5, FinishFields
  <2> HIDE DEF left
  <2> QED
    BY <2>1, <2>5, <2>6
<1>2. CASE left # {}
  <2>1. left \in SUBSET (1 .. 5)
    OBVIOUS
  <2>2. PICK m \in left : m = Min(left)
    BY <1>2, <2>1, MinIsThere
  <2>3. After(x, i) = [x EXCEPT !.save.stage = m]
    BY <1>2, <2>2 DEF After
  <2> HIDE DEF left
  <2> QED
    BY <2>3 DEF Loaded, Wizards, Saves
<1> QED
  BY <1>1, <1>2

LEMMA FlushSaves ==
  ASSUME NEW n \in Nat, NEW x, Fit(x, n), NEW connected
  PROVE  \/ flush(x, connected).save \in {x.save, Idle}
         \/ flush(x, connected).save.landed = {}
<1>1. x \in Wizards(n) /\ x.save \in Saves(n) /\ x.draft \in Drafts(n) /\ Loaded(x, n)
  BY DEF Fit, Loaded, Wizards
<1>2. CASE ~connected \/ x.save.on \/ ~canCreate(x.draft)
  <2>1. flush(x, connected) \in {[x EXCEPT !.st = "offline"], [x EXCEPT !.pending = TRUE],
                                 [x EXCEPT !.st = "local"]}
    BY <1>2 DEF flush
  <2> QED
    BY <1>1, <2>1 DEF Wizards
<1>3. CASE connected /\ ~x.save.on /\ canCreate(x.draft)
  <2> PICK s : s = [on |-> TRUE, draft |-> x.draft, stage |-> 0, rows |-> x.draft.rows,
                    landed |-> {}, crewSynced |-> FALSE]
    OBVIOUS
  <2>1. s \in Saves(n) /\ Begun(s, n) /\ s.landed = {}
    BY <1>1 DEF Saves, Begun, MaybeDrafts, Drafts, DraftRecs
  <2> DEFINE y == [x EXCEPT !.st = "saving", !.save = s]
  <2>2. Loaded(y, n) /\ y.save = s
    BY <1>1, <2>1 DEF Loaded, Wizards, States
  <2>3. flush(x, connected) = After(y, 0)
    BY <1>3 DEF flush
  <2> HIDE DEF y
  <2>4. 0 \in 0 .. 4
    OBVIOUS
  <2> QED
    BY <2>1, <2>2, <2>3, <2>4, AfterSaves
<1> QED
  BY <1>2, <1>3

(* A step that starts a save, ends one, or leaves the save as it is.       *)
Onward == Grows /\ (w'.save \in {w.save, Idle} \/ w'.save.landed = {})

LEMMA StillGrows == ASSUME ShapeInv, UNCHANGED <<events, tierRows>> PROVE Grows
  BY NothingGrows DEF ShapeInv

LEMMA FlushesOnward ==
  ASSUME ShapeInv, Grows, NEW y, Fit(y, Len(events)), y.save = w.save, NEW connected,
         NEW x, x.save = flush(y, connected).save, w' = x
  PROVE  Onward
<1>1. Len(events) \in Nat
  BY DEF ShapeInv, ServerOK
<1> QED
  BY <1>1, FlushSaves DEF Onward

LEMMA TimersOnward == ASSUME ShapeInv, Timers PROVE Onward
<1>1. Open /\ Grows
  BY StillGrows DEF Timers, TimerFires, RetryFires
<1>2. PICK m \in Nat : m = Len(events) /\ Fit(w, m)
  BY <1>1, OpenIsFit
<1>3. PICK y : y \in Fired(w) /\ w' = flush(y, online)
  BY DEF Timers, TimerFires, RetryFires, Show, Fired
<1>4. Fit(y, m) /\ y.save = w.save
  BY <1>2, <1>3, FieldsTouched
<1> QED
  BY <1>1, <1>2, <1>3, <1>4, FlushesOnward

LEMMA SaveNowOnward == ASSUME ShapeInv, saveNow PROVE Onward
<1>1. Open /\ Grows
  BY StillGrows DEF saveNow, Calm
<1>2. PICK m \in Nat : m = Len(events) /\ Fit(w, m)
  BY <1>1, OpenIsFit
<1>3. PICK y : y \in Fired(w) /\ w' = flush(y, online)
  BY DEF saveNow, Show, Fired
<1>4. Fit(y, m) /\ y.save = w.save
  BY <1>2, <1>3, FieldsTouched
<1> QED
  BY <1>1, <1>2, <1>3, <1>4, FlushesOnward

LEMMA GoOnlineOnward == ASSUME ShapeInv, GoOnline PROVE Onward
<1>1. Grows
  BY StillGrows DEF GoOnline
<1>2. CASE Open
  <2>1. PICK m \in Nat : m = Len(events) /\ Fit(w, m)
    BY <1>2, OpenIsFit
  <2>2. PICK y : y = Woken(w) /\ w' = flush(y, TRUE)
    BY <1>2 DEF GoOnline, Show, Woken
  <2>3. Fit(y, m) /\ y.save = w.save
    BY <2>1, <2>2, FieldsTouched
  <2> QED
    BY <1>1, <2>1, <2>2, <2>3, FlushesOnward
<1>3. CASE ~Open
  BY <1>1, <1>3 DEF GoOnline, Onward
<1> QED
  BY <1>2, <1>3

LEMMA PublishOnward == ASSUME ShapeInv, publish PROVE Onward
<1>1. Open /\ Grows
  BY StillGrows DEF publish, Calm
<1>2. PICK m \in Nat : m = Len(events) /\ Fit(w, m)
  BY <1>1, OpenIsFit
<1>3. PICK y : y = flush(w, online)
  OBVIOUS
<1>4. y \in Wizards(m)
  BY <1>2, <1>3, FlushType DEF Fit, Loaded
<1>5. PICK p, x : x = [y EXCEPT !.publishing = p, !.pressed = w.draft] /\ w' = x
  BY <1>3, Zenon DEF publish, Show
<1>6. x.save = y.save
  BY <1>4, <1>5 DEF Wizards
<1> QED
  BY <1>1, <1>2, <1>3, <1>5, <1>6, FlushesOnward

LEMMA EditsOnward == ASSUME ShapeInv, Fields \/ setPoster PROVE Onward
<1>1. Open /\ Calm
  BY FieldsUpdate DEF setPoster
<1>2. PICK m \in Nat : m = Len(events) /\ Fit(w, m) /\ Loaded(w, m) /\ w.draft \in Drafts(m)
  BY <1>1, OpenIsFit DEF Loaded
<1>3. PICK next \in Drafts(m) : w' = update(w, next) \/ w' = [update(w, next) EXCEPT !.file = TRUE]
  BY <1>2, FieldsUpdate DEF setPoster, Show
<1>4. PICK y : y = update(w, next)
  OBVIOUS
<1>5. y \in Wizards(m) /\ y.save = w.save
  BY <1>2, <1>4, UpdateType, UpdateFields DEF Fit, Loaded
<1>6. [y EXCEPT !.file = TRUE].save = y.save
  BY <1>5 DEF Wizards
<1> QED
  BY <1>1, <1>3, <1>4, <1>5, <1>6, StillGrows DEF Onward, Calm

LEMMA UndoRedoOnward == ASSUME ShapeInv, undo \/ redo PROVE Onward
<1>1. PICK m \in Nat : w \in Wizards(m)
  BY OpenIsFit DEF undo, redo, Loaded
<1>2. PICK y : /\ w' = [y EXCEPT !.timer = TRUE, !.touched = TRUE]
               /\ \/ y = [w EXCEPT !.draft = Last(w.past), !.past = Front(@),
                                   !.future = <<w.draft>> \o @, !.st = "dirty"]
                  \/ y = [w EXCEPT !.draft = Head(w.future), !.future = Tail(@),
                                   !.past = Append(@, w.draft), !.st = "dirty"]
  BY Zenon DEF undo, redo, Show, schedule
<1>3. y.save = w.save /\ DOMAIN y = DOMAIN w /\ "save" \in DOMAIN w
  BY <1>1, <1>2 DEF Wizards
<1>4. w'.save = w.save
  BY <1>2, <1>3
<1> QED
  BY <1>4, StillGrows DEF undo, redo, Calm, Onward

LEMMA MountOnward == ASSUME ShapeInv, Mount PROVE Onward
<1>1. Grows
  BY StillGrows DEF Mount, Calm
<1>2. ASSUME HydrateNew PROVE w'.save = Idle
  BY <1>2 DEF HydrateNew, Show, schedule, Closed
<1>3. ASSUME NEW e \in DOMAIN events, HydrateEdit(e) PROVE w'.save = Idle
  BY <1>3 DEF HydrateEdit, Show, Closed
<1>4. ASSUME NEW e \in DOMAIN events, HydrateClone(e) PROVE w'.save = w.save
  <2>1. PICK m \in Nat : w \in Wizards(m)
    BY ClosedType DEF ShapeInv, ServerOK, Fit, Loaded
  <2> QED
    BY <1>4, <2>1 DEF HydrateClone, Show, Wizards
<1> QED
  BY <1>1, <1>2, <1>3, <1>4 DEF Mount, Onward

LEMMA CallsOnward == ASSUME ShapeInv, PublishCall PROVE Onward
<1>1. PICK m \in Nat : w \in Wizards(m)
  BY OpenIsFit DEF PublishCall, Loaded
<1>2. NotPublished => w'.save = w.save
  BY <1>1 DEF NotPublished, Show, Wizards
<1>3. LeaveNothing \/ LeaveEmpty => w'.save = Idle
  BY DEF LeaveNothing, LeaveEmpty, Closed
<1> QED
  BY <1>2, <1>3, PublishCallGrows DEF PublishCall, Onward

LEMMA NetworkOnward == ASSUME ShapeInv, GoOffline \/ OwnedChanges PROVE Onward
<1>1. PICK m \in Nat : w \in Wizards(m)
  BY ClosedType DEF ShapeInv, ServerOK, Fit, Loaded
<1>2. GoOffline => w'.save = w.save
  BY <1>1 DEF GoOffline, Wizards
<1>3. ASSUME OwnedChanges PROVE w'.save = w.save
  <2>1. PICK d : w' \in {w, [w EXCEPT !.draft = d],
                         [[w EXCEPT !.draft = d] EXCEPT !.timer = TRUE, !.touched = TRUE]}
    BY <1>3, Zenon DEF OwnedChanges, Show, schedule
  <2> QED
    BY <1>1, <2>1 DEF Wizards
<1> QED
  BY <1>2, <1>3, StillGrows DEF GoOffline, OwnedChanges, Onward

LEMMA StepOnward == ASSUME ShapeInv, Next PROVE Sent \/ Onward
<1>1. ASSUME NEW e \in DOMAIN events, Others(e) PROVE Onward
  BY <1>1, OthersGrow, Zenon DEF Others, OtherEdit, OtherPublish, Onward
<1>2. Close => Onward
  BY StillGrows DEF Close, Calm, Onward, Closed
<1>3. Person => Onward
  BY <1>1, <1>2, EditsOnward, UndoRedoOnward, SaveNowOnward, MountOnward, PublishOnward
  DEF Person, Fields, Others
<1>4. Network => Onward
  BY GoOnlineOnward, NetworkOnward DEF Network
<1> QED
  BY <1>3, <1>4, SaveStepSent, TimersOnward, CallsOnward DEF Next

LandedInv == OnEvent(w.save, events)

LandedNext == OnEvent(w'.save, events')

LEMMA LandedBefore ==
  ASSUME ShapeInv, LandedInv, Sent, NEW e, e # 0, w.save.draft.eid \in {0, e}
  PROVE  w.save.landed \subseteq events'[e].rows
<1>1. CASE w.save.draft.eid = 0
  BY <1>1 DEF LandedInv, OnEvent, Sent
<1>2. CASE w.save.draft.eid # 0
  <2>1. w.save.draft.eid \in DOMAIN events
    BY <1>2, SaveHasEvent DEF Sent
  <2> QED
    BY <1>2, <2>1 DEF LandedInv, OnEvent, Sent, Grows
<1> QED
  BY <1>1, <1>2

LEMMA SentLands == ASSUME ShapeInv, LandedInv, Sent PROVE LandedNext
<1>1. PICK m \in Nat : m = Len(events)
  BY DEF ShapeInv, ServerOK
<1>2. PICK n \in Nat : n = Len(events') /\ m =< n
  BY <1>1 DEF Sent, Grows, ServerOK
<1>3. PICK x : w' = x /\ Outcome(x)
  BY DEF Sent, Show
<1>4. Loaded(w, n)
  BY <1>1, <1>2, SavingNow, WizardsGrow DEF Sent
<1>5. ASSUME NEW networkish \in BOOLEAN, x = Fail(w, networkish) PROVE x.save = Idle
  <2>1. PICK s \in {"offline", "error"}, a \in BOOLEAN, b \in BOOLEAN :
          x = Finish([w EXCEPT !.st = s, !.retryTimer = a, !.retryUsed = b])
    <3>1. PICK s \in {"offline", "error"} : s = IF networkish THEN "offline" ELSE "error"
      OBVIOUS
    <3>2. PICK a \in BOOLEAN : a = (w.retryTimer \/ (networkish /\ ~w.retryUsed))
      OBVIOUS
    <3>3. PICK b \in BOOLEAN : b = (w.retryUsed \/ networkish)
      OBVIOUS
    <3> QED
      BY <1>5, <3>1, <3>2, <3>3, Zenon DEF Fail
  <2>2. PICK y : y = [w EXCEPT !.st = s, !.retryTimer = a, !.retryUsed = b]
    OBVIOUS
  <2>3. Loaded(y, n)
    BY <1>4, <2>2 DEF Loaded, Wizards, States
  <2> QED
    BY <2>1, <2>2, <2>3, FinishFields
<1>6. ASSUME NEW i \in 1 .. 4, NEW y, NEW landed, Answered(y, n, landed), x = After(y, i),
             landed \subseteq w.save.landed \cup events'[y.save.draft.eid].rows
      PROVE  OnEvent(x.save, events')
  <2>1. /\ Loaded(y, n) /\ Begun(y.save, n) /\ y.save.draft.eid # 0 /\ y.save.landed = landed
        /\ w.save.draft.eid \in {0, y.save.draft.eid}
    BY <1>6 DEF Answered
  <2>2. w.save.landed \subseteq events'[y.save.draft.eid].rows
    BY <2>1, LandedBefore
  <2>3. \/ x.save = Idle
        \/ x.save.draft = y.save.draft /\ x.save.landed = landed
    BY <1>6, <2>1, AfterSaves
  <2> QED
    BY <1>6, <2>1, <2>2, <2>3 DEF OnEvent, Idle
<1>7. x.save = Idle \/ OnEvent(x.save, events')
  BY <1>2, <1>3, <1>5, <1>6 DEF Outcome
<1> QED
  BY <1>3, <1>7 DEF LandedNext, OnEvent, Idle

LEMMA OnwardLands == ASSUME ShapeInv, LandedInv, Onward PROVE LandedNext
<1>1. CASE w'.save = Idle \/ w'.save.landed = {}
  BY <1>1 DEF LandedNext, OnEvent, Idle
<1>2. CASE w'.save = w.save /\ ~w.save.on
  BY <1>2 DEF LandedNext, OnEvent
<1>3. CASE w'.save = w.save /\ w.save.on /\ w.save.draft.eid = 0
  BY <1>3 DEF LandedInv, LandedNext, OnEvent
<1>4. CASE w'.save = w.save /\ w.save.on /\ w.save.draft.eid # 0
  <2>1. w.save.draft.eid \in DOMAIN events
    BY <1>4, SaveHasEvent
  <2> QED
    BY <1>4, <2>1 DEF LandedInv, LandedNext, OnEvent, Onward, Grows
<1> QED
  BY <1>1, <1>2, <1>3, <1>4 DEF Onward

LEMMA LandedAlways == Spec => []LandedInv
<1>1. Init => LandedInv
  BY DEF Init, LandedInv, OnEvent, Closed, Idle
<1>2. ShapeInv /\ LandedInv /\ [Next]_vars => LandedNext
  BY StepOnward, SentLands, OnwardLands DEF vars, serverVars, LandedInv, LandedNext
<1>3. LandedNext => LandedInv'
  BY DEF LandedInv, LandedNext, OnEvent
<1> QED
  BY <1>1, <1>2, <1>3, ShapeAlways, PTL DEF Spec

(* What is in the draft d is in the draft c, but for rows that are on c's  *)
(* event.                                                                  *)
Keeps(d, c, evs) ==
  /\ patchFingerprint(c) = patchFingerprint(d)
  /\ \A k \in Tiers : c.tiers[k].val = d.tiers[k].val
  /\ c.rows \subseteq d.rows
  /\ \A r \in d.rows \ c.rows : r \in evs[c.eid].rows

LEMMA KeepsItself == ASSUME NEW d, NEW evs PROVE Keeps(d, d, evs)
  BY DEF Keeps

LEMMA AfterKeeps ==
  ASSUME NEW n \in Nat, NEW x, Loaded(x, n), Begun(x.save, n), NEW i \in 0 .. 4, NEW evs,
         x.save.landed = {} \/ x.save.landed \subseteq evs[x.save.draft.eid].rows
  PROVE  Keeps(x.draft, After(x, i).draft, evs)
<1>1. CASE {j \in i + 1 .. 5 : HasWork(x, j)} = {}
  <2>1. After(x, i) = Succeed(x)
    BY <1>1 DEF After
  <2>2. PICK d : d = Merged(x)
    OBVIOUS
  <2>3. d \in MaybeDrafts(n) /\ d \in Drafts(n) /\ x \in Wizards(n) /\ x.mode # "none"
    BY <2>2, MergedType DEF Loaded, MaybeDrafts
  <2>4. PICK y : y = [x EXCEPT !.draft = d, !.retryUsed = FALSE,
                               !.st = IF x.pending THEN "dirty" ELSE "saved"]
    OBVIOUS
  <2>5. Loaded(y, n) /\ Succeed(x) = Finish(y) /\ y.draft = d
    BY <2>2, <2>3, <2>4 DEF Loaded, Wizards, States, Succeed
  <2>6. Finish(y).draft = d
    BY <2>5, FinishFields
  <2>7. /\ d.text = x.draft.text /\ d.rest = x.draft.rest /\ d.eid = x.save.draft.eid
        /\ d.rows = x.draft.rows \ (IF x.draft.gen = x.save.draft.gen THEN x.save.landed ELSE {})
        /\ \A k \in Tiers : d.tiers[k] = MergedTier(x, k)
    BY <2>2, MergedType
  <2>8. \A k \in Tiers : d.tiers[k].val = x.draft.tiers[k].val
    BY <2>7, MergedTierType DEF Loaded, Begun
  <2>9. \A r \in x.draft.rows \ d.rows : r \in x.save.landed
    BY <2>7
  <2>10. Keeps(x.draft, d, evs)
    BY <2>7, <2>8, <2>9 DEF Keeps, patchFingerprint
  <2> QED
    BY <2>1, <2>5, <2>6, <2>10
<1>2. CASE {j \in i + 1 .. 5 : HasWork(x, j)} # {}
  <2>1. PICK m : After(x, i) = [x EXCEPT !.save.stage = m]
    BY <1>2 DEF After
  <2>2. After(x, i).draft = x.draft
    BY <2>1 DEF Loaded, Wizards
  <2> QED
    BY <2>2, KeepsItself
<1> QED
  BY <1>1, <1>2

LEMMA FlushKeeps ==
  ASSUME NEW n \in Nat, NEW x, Fit(x, n), NEW connected, NEW evs
  PROVE  Keeps(x.draft, flush(x, connected).draft, evs)
<1>1. x \in Wizards(n) /\ x.save \in Saves(n) /\ x.draft \in Drafts(n) /\ Loaded(x, n)
  BY DEF Fit, Loaded, Wizards
<1>2. CASE ~connected \/ x.save.on \/ ~canCreate(x.draft)
  <2>1. flush(x, connected) \in {[x EXCEPT !.st = "offline"], [x EXCEPT !.pending = TRUE],
                                 [x EXCEPT !.st = "local"]}
    BY <1>2 DEF flush
  <2>2. flush(x, connected).draft = x.draft
    BY <1>1, <2>1 DEF Wizards
  <2> QED
    BY <2>2, KeepsItself
<1>3. CASE connected /\ ~x.save.on /\ canCreate(x.draft)
  <2> PICK s : s = [on |-> TRUE, draft |-> x.draft, stage |-> 0, rows |-> x.draft.rows,
                    landed |-> {}, crewSynced |-> FALSE]
    OBVIOUS
  <2>1. s \in Saves(n) /\ Begun(s, n) /\ s.landed = {}
    BY <1>1 DEF Saves, Begun, MaybeDrafts, Drafts, DraftRecs
  <2> DEFINE y == [x EXCEPT !.st = "saving", !.save = s]
  <2>2. Loaded(y, n) /\ y.save = s /\ y.draft = x.draft
    BY <1>1, <2>1 DEF Loaded, Wizards, States
  <2>3. flush(x, connected) = After(y, 0)
    BY <1>3 DEF flush
  <2> HIDE DEF y
  <2>4. 0 \in 0 .. 4
    OBVIOUS
  <2> QED
    BY <2>1, <2>2, <2>3, <2>4, AfterKeeps
<1> QED
  BY <1>2, <1>3

KeepsNext == Keeps(w.draft, w'.draft, events')

LEMMA SentKeeps == ASSUME ShapeInv, LandedInv, Sent PROVE KeepsNext
<1>1. PICK m \in Nat : m = Len(events)
  BY DEF ShapeInv, ServerOK
<1>2. PICK n \in Nat : n = Len(events') /\ m =< n
  BY <1>1 DEF Sent, Grows, ServerOK
<1>3. PICK x : w' = x /\ Outcome(x)
  BY DEF Sent, Show
<1>4. Loaded(w, n)
  BY <1>1, <1>2, SavingNow, WizardsGrow DEF Sent
<1>5. ASSUME NEW networkish \in BOOLEAN PROVE Fail(w, networkish).draft = w.draft
  <2>1. PICK y : y = [w EXCEPT !.st = IF networkish THEN "offline" ELSE "error",
                               !.retryTimer = @ \/ (networkish /\ ~w.retryUsed),
                               !.retryUsed = @ \/ networkish]
    OBVIOUS
  <2>2. w.retryTimer \in BOOLEAN /\ w.retryUsed \in BOOLEAN
    BY <1>4 DEF Loaded, Wizards
  <2>3. y.draft = w.draft /\ y.mode = w.mode
    BY <1>4, <2>1 DEF Loaded, Wizards
  <2>4. Fail(w, networkish).draft = y.draft
    BY <1>4, <2>1 DEF Fail, Finish, schedule, Loaded, Wizards
  <2> QED
    BY <2>3, <2>4
<1>6. ASSUME NEW i \in 1 .. 4, NEW y, NEW landed, Answered(y, n, landed),
             landed \subseteq w.save.landed \cup events'[y.save.draft.eid].rows
      PROVE  Keeps(w.draft, After(y, i).draft, events')
  <2>1. /\ Loaded(y, n) /\ Begun(y.save, n) /\ y.save.draft.eid # 0 /\ y.save.landed = landed
        /\ w.save.draft.eid \in {0, y.save.draft.eid} /\ y.draft = w.draft
    BY <1>6 DEF Answered, LeftAlone
  <2>2. w.save.landed \subseteq events'[y.save.draft.eid].rows
    BY <2>1, LandedBefore
  <2>3. i \in 0 .. 4 /\ y.save.landed \subseteq events'[y.save.draft.eid].rows
    BY <1>6, <2>1, <2>2
  <2> QED
    BY <2>1, <2>3, AfterKeeps
<1>7. x.draft = w.draft \/ Keeps(w.draft, x.draft, events')
  BY <1>2, <1>3, <1>5, <1>6 DEF Outcome
<1> QED
  BY <1>3, <1>7, KeepsItself DEF KeepsNext

LEMMA TimersKeep == ASSUME ShapeInv, Timers PROVE KeepsNext
<1>1. PICK m \in Nat : m = Len(events) /\ Fit(w, m)
  BY OpenIsFit DEF Timers, TimerFires, RetryFires
<1>2. PICK y : y \in Fired(w) /\ w' = flush(y, online)
  BY DEF Timers, TimerFires, RetryFires, Show, Fired
<1>3. Fit(y, m) /\ y.draft = w.draft
  BY <1>1, <1>2, FieldsTouched
<1> QED
  BY <1>2, <1>3, FlushKeeps DEF KeepsNext

LEMMA NetworkKeeps == ASSUME ShapeInv, Network, Open PROVE KeepsNext
<1>1. PICK m \in Nat : m = Len(events) /\ Fit(w, m) /\ w \in Wizards(m) /\ w.draft \in Drafts(m)
  BY OpenIsFit DEF Loaded
<1>2. ASSUME GoOnline PROVE KeepsNext
  <2>1. PICK y : y = Woken(w) /\ w' = flush(y, TRUE)
    BY <1>2 DEF GoOnline, Show, Woken
  <2>2. Fit(y, m) /\ y.draft = w.draft
    BY <1>1, <2>1, FieldsTouched
  <2> QED
    BY <2>1, <2>2, FlushKeeps DEF KeepsNext
<1>3. ASSUME GoOffline PROVE KeepsNext
  <2>1. w'.draft = w.draft
    BY <1>1, <1>3 DEF GoOffline, Wizards
  <2> QED
    BY <2>1, KeepsItself DEF KeepsNext
<1>4. ASSUME OwnedChanges PROVE KeepsNext
  <2>1. PICK d : d = [w.draft EXCEPT !.org = owned']
    OBVIOUS
  <2>2. w' \in {w, [w EXCEPT !.draft = d], [[w EXCEPT !.draft = d] EXCEPT !.timer = TRUE, !.touched = TRUE]}
    BY <1>4, <2>1 DEF OwnedChanges, Show, schedule
  <2>3. w'.draft \in {w.draft, d}
    BY <1>1, <2>2 DEF Wizards
  <2>4. Keeps(w.draft, d, events')
    BY <1>1, <2>1 DEF Keeps, patchFingerprint, Drafts, DraftRecs
  <2> QED
    BY <2>3, <2>4, KeepsItself DEF KeepsNext
<1> QED
  BY <1>2, <1>3, <1>4 DEF Network

LEMMA CallsKeep == ASSUME ShapeInv, PublishCall, w'.mode # "none" PROVE KeepsNext
<1>1. PICK m \in Nat : w \in Wizards(m)
  BY OpenIsFit DEF PublishCall, Loaded
<1>2. NotPublished
  BY DEF PublishCall, LeaveNothing, LeaveEmpty, Closed
<1>3. w'.draft = w.draft
  BY <1>1, <1>2 DEF NotPublished, Show, Wizards
<1> QED
  BY <1>3, KeepsItself DEF KeepsNext

LEMMA RedoIsSeen == ASSUME ShapeInv, redo PROVE w'.future # w.future
<1>1. PICK m \in Nat : w \in Wizards(m)
  BY OpenIsFit DEF redo, Loaded
<1>2. w.future \in Seq(Drafts(m)) /\ w.future # <<>>
  BY <1>1 DEF Wizards, redo
<1>3. Tail(w.future) # w.future
  <2>1. PICK f \in Seq(Drafts(m)) : f = w.future /\ f # <<>>
    BY <1>2
  <2>2. PICK l \in Nat : l = Len(f) /\ l - 1 # l
    BY <2>1
  <2>3. PICK g : g = Tail(f) /\ Len(g) = l - 1
    BY <2>1, <2>2, HeadTailProperties, Zenon
  <2>4. g # f
    BY <2>2, <2>3
  <2> QED
    BY <2>1, <2>3, <2>4
<1>4. PICK y : /\ y = [w EXCEPT !.draft = Head(w.future), !.future = Tail(@),
                                 !.past = Append(@, w.draft), !.st = "dirty"]
               /\ w' = [y EXCEPT !.timer = TRUE, !.touched = TRUE]
  BY Zenon DEF redo, Show, schedule
<1>5. y.future = Tail(w.future) /\ DOMAIN y = DOMAIN w /\ "future" \in DOMAIN w
  BY <1>1, <1>4 DEF Wizards
<1>6. w'.future = Tail(w.future)
  BY <1>4, <1>5
<1> QED
  BY <1>3, <1>6

LEMMA StepKeeps ==
  ASSUME ShapeInv, Counted, LandedInv, Next, Open, w'.mode # "none", UNCHANGED <<edits, tabs>>,
         w'.future = w.future
  PROVE  KeepsNext
<1>1. ~Edit /\ ~Tab
  BY DEF Edit, Tab, Counted
<1>2. Close => w'.mode = "none"
  BY DEF Close, Closed
<1>3. ASSUME NEW e \in DOMAIN events, Others(e) PROVE KeepsNext
  BY <1>3, KeepsItself, Zenon DEF Others, OtherEdit, OtherPublish, KeepsNext
<1>4. ASSUME Person PROVE KeepsNext
  <2>1. \/ redo \/ Close
        \/ \E e \in DOMAIN events : Others(e)
    BY <1>1, <1>4, Zenon DEF Person, Type, setTiers, StageRow, StageCrew, setPoster, undo, saveNow, Mount,
       publish, Others
  <2> QED
    BY <1>2, <1>3, <2>1, RedoIsSeen
<1> QED
  BY <1>4, SaveStepSent, SentKeeps, TimersKeep, NetworkKeeps, CallsKeep DEF Next

(* A SAVE KEEPS WHAT IS TYPED MEANWHILE (SaveKeepsTyping): the end of a    *)
(* save merges what the server has called things into the draft in hand,   *)
(* and takes away only rows that are on the event (use-wizard.ts:491-720). *)
THEOREM TypingIsKept == Spec => SaveKeepsTyping
<1>1. ShapeInv /\ Counted /\ LandedInv /\ [Next]_vars =>
        [Open /\ w'.mode # "none" /\ UNCHANGED <<edits, tabs>> /\ w'.future = w.future => KeepsNext]_vars
  BY StepKeeps
<1>2. KeepsNext =>
        /\ patchFingerprint(w'.draft) = patchFingerprint(w.draft)
        /\ \A k \in Tiers : w'.draft.tiers[k].val = w.draft.tiers[k].val
        /\ w'.draft.rows \subseteq w.draft.rows
        /\ \A r \in w.draft.rows \ w'.draft.rows : r \in events'[w'.draft.eid].rows
  BY DEF KeepsNext, Keeps
<1>3. ShapeInv /\ Counted /\ LandedInv /\ [Next]_vars =>
        [Open /\ w'.mode # "none" /\ UNCHANGED <<edits, tabs>> /\ w'.future = w.future =>
           /\ patchFingerprint(w'.draft) = patchFingerprint(w.draft)
           /\ \A k \in Tiers : w'.draft.tiers[k].val = w.draft.tiers[k].val
           /\ w'.draft.rows \subseteq w.draft.rows
           /\ \A r \in w.draft.rows \ w'.draft.rows : r \in events'[w'.draft.eid].rows]_vars
  BY <1>1, <1>2
<1> QED
  BY <1>3, ShapeAlways, CountedAlways, LandedAlways, PTL DEF Spec, SaveKeepsTyping

=============================================================================
