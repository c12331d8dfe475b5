--------------------------- MODULE ScanDeskProofs ---------------------------
(***************************************************************************)
(* Proofs about ScanDesk for any number of desks, gates and tickets: the   *)
(* desks, their queue and their network use the gate of CheckIn as it is,  *)
(* so what is proved of the gate holds behind them; and "Let them in"      *)
(* stands at no entry but the one that was admitted.                       *)
(***************************************************************************)
EXTENDS ScanDesk, CheckInProofs, SumLemmas

LEMMA DeskInitGate == DeskInit => CheckInit
  BY DEF DeskInit

(* What a desk does leaves the gate alone; what the server does is a step  *)
(* of the gate.                                                            *)
LEMMA DeskStepGate ==
  ASSUME NEW d \in Desks, DeskStep(d)
  PROVE  UNCHANGED checkVars
  BY DEF DeskStep, PickEvent, Submit, NetFlips, ScreenUpdates, Reload, TakeAnswer, CallFails

LEMMA RequestGate ==
  ASSUME DeskTypeOK, NEW g \in Gates, ServerStep(g)
  PROVE  GateStep(g)
<1>1. ASSUME NEW r \in wire, Arrive(g, r) PROVE GateStep(g)
  <2>1. token[r.id] \in Tickets
    BY <1>1 DEF DeskTypeOK
  <2> QED BY <1>1, <2>1 DEF Arrive, GateStep
<1> QED BY <1>1 DEF ServerStep, Decide, Admitted, RequestFails, GateStep

-----------------------------------------------------------------------------
(* Whose scan a request, an answer and an admission belong to.             *)
RequestsKnown ==
  \A g \in Gates, t \in Tickets :
    gate[g] \in {Waiting(t), Admitting(t)} => serving[g] # NoScan /\ token[serving[g]] = t

AdmissionsKnown ==
  /\ \A t \in Tickets : admittedBy[t] # NoScan => status[t] = "used"
  /\ \A g \in Gates, t \in Tickets : gate[g] = Admitting(t) => admittedBy[t] = serving[g]
  /\ \A a \in answers : a.what = "allowed" => admittedBy[token[a.id]] = a.id

GreenKnown ==
  \A d \in Desks : \A e \in shown[d] : e.st = "allowed" => admittedBy[token[e.id]] = e.id

DeskInv == DeskTypeOK /\ RequestsKnown /\ AdmissionsKnown /\ GreenKnown

LEMMA DeskInitInv ==
  ASSUME CheckInConstants, DeskConstants, DeskInit, CheckInv
  PROVE  DeskInv
<1>1. token = <<>> /\ Len(token) = 0
  BY DEF DeskInit
<1>2. DeskTypeOK
  BY <1>1 DEF DeskInit, DeskConstants, DeskTypeOK, CheckInv, NoScan
<1>3. RequestsKnown /\ AdmissionsKnown
  BY DEF DeskInit, CheckInit, CheckInConstants, RequestsKnown, AdmissionsKnown,
         NoRequest, Waiting, Admitting
<1>4. GreenKnown
  BY DEF DeskInit, GreenKnown
<1> QED BY <1>2, <1>3, <1>4 DEF DeskInv

-----------------------------------------------------------------------------
(* The desk's own steps: the gate and who was admitted stay, and so does   *)
(* what every scan so far has read.                                        *)
LEMMA SubmitInv ==
  ASSUME DeskInv, NEW d \in Desks, NEW t \in Tickets, Submit(d, t)
  PROVE  DeskInv'
<1> USE DEF DeskInv
<1> DEFINE i == Len(token) + 1
<1>1. /\ token' = Append(token, t)
      /\ UNCHANGED <<checkVars, desk, serving, answers, admittedBy>>
      /\ shown' = [shown EXCEPT ![d] = @ \cup
           {IF desk[d].net THEN Entry(i, "checking", FALSE) ELSE Entry(i, "queued", desk[d].online)}]
      /\ wire' = IF desk[d].net THEN wire \cup {Ask(i, desk[d].event)} ELSE wire
  BY DEF Submit
<1>2. /\ token' \in Seq(Tickets) /\ Len(token) \in Nat /\ Len(token') = i
      /\ \A j \in 1..Len(token) : token'[j] = token[j]
  BY <1>1 DEF DeskTypeOK
<1>3. /\ desk[d].net \in BOOLEAN /\ desk[d].online \in BOOLEAN /\ desk[d].event \in Events
      /\ 1..Len(token) \subseteq 1..i /\ 0..Len(token) \subseteq 0..i /\ i \in 1..i
  BY <1>2 DEF DeskTypeOK
<1>4. shown' \in [Desks -> SUBSET [id : 1..i, st : Verdicts, slipped : BOOLEAN]]
  <2>1. \A e \in Desks : shown[e] \subseteq [id : 1..i, st : Verdicts, slipped : BOOLEAN]
    BY <1>3 DEF DeskTypeOK
  <2>2. {IF desk[d].net THEN Entry(i, "checking", FALSE) ELSE Entry(i, "queued", desk[d].online)}
          \subseteq [id : 1..i, st : Verdicts, slipped : BOOLEAN]
    BY <1>3 DEF Entry, Verdicts
  <2> QED BY <1>1, <2>1, <2>2 DEF DeskTypeOK
<1>5. wire' \subseteq [id : 1..i, event : Events]
  BY <1>1, <1>3 DEF DeskTypeOK, Ask
<1>6. DeskTypeOK'
  BY <1>1, <1>2, <1>3, <1>4, <1>5 DEF DeskTypeOK, CheckTypeOK, checkVars
<1>7. RequestsKnown' /\ AdmissionsKnown'
  BY <1>1, <1>2 DEF RequestsKnown, AdmissionsKnown, DeskTypeOK, checkVars, NoScan
<1>8. GreenKnown'
  <2> SUFFICES ASSUME NEW c \in Desks, NEW e \in shown'[c], e.st = "allowed"
               PROVE  admittedBy[token'[e.id]] = e.id
    BY <1>1 DEF GreenKnown
  <2>1. e \in shown[c]
    BY <1>1 DEF DeskTypeOK, Entry
  <2>2. e.id \in 1..Len(token)
    BY <2>1 DEF DeskTypeOK
  <2>3. token'[e.id] = token[e.id]
    BY <1>2, <2>2
  <2>4. admittedBy[token[e.id]] = e.id
    BY <2>1 DEF GreenKnown
  <2> QED BY <2>3, <2>4
<1> QED BY <1>6, <1>7, <1>8

(* Steps that leave the scans, the gate and the admissions alone and turn  *)
(* no entry green but for an answer that says so.                          *)
LEMMA ListInv ==
  ASSUME DeskInv,
         UNCHANGED <<checkVars, token, serving, admittedBy>>,
         answers' \subseteq answers,
         desk' \in [Desks -> [event : Events, net : BOOLEAN, online : BOOLEAN]],
         wire' \subseteq [id : 1..Len(token), event : Events],
         shown' \in [Desks -> SUBSET [id : 1..Len(token), st : Verdicts, slipped : BOOLEAN]],
         \A c \in Desks : \A e \in shown'[c] : e.st = "allowed" =>
           admittedBy[token[e.id]] = e.id
  PROVE  DeskInv'
<1> USE DEF DeskInv
<1>1. DeskTypeOK'
  BY DEF DeskTypeOK, CheckTypeOK, checkVars
<1>2. RequestsKnown' /\ AdmissionsKnown'
  BY DEF RequestsKnown, AdmissionsKnown, checkVars
<1>3. GreenKnown'
  BY DEF GreenKnown
<1> QED BY <1>1, <1>2, <1>3
LEMMA SettledType ==
  ASSUME NEW S, NEW list \in SUBSET [id : S, st : Verdicts, slipped : BOOLEAN],
         NEW i, NEW st \in Verdicts
  PROVE  Settled(list, i, st) \subseteq [id : S, st : Verdicts, slipped : BOOLEAN]
<1> SUFFICES ASSUME NEW e \in list
             PROVE  (IF e.id = i THEN [e EXCEPT !.st = st] ELSE e)
                      \in [id : S, st : Verdicts, slipped : BOOLEAN]
  BY DEF Settled
<1>1. e \in [id : S, st : Verdicts, slipped : BOOLEAN]
  OBVIOUS
<1> QED BY <1>1

LEMMA DeskStepInv ==
  ASSUME DeskConstants, DeskInv, NEW d \in Desks, DeskStep(d)
  PROVE  DeskInv'
<1> USE DEF DeskInv
<1> DEFINE Rows1 == [id : 1..Len(token), st : Verdicts, slipped : BOOLEAN]
<1>1. ASSUME NEW e \in Events, PickEvent(d, e) PROVE DeskInv'
  <2>1. desk' \in [Desks -> [event : Events, net : BOOLEAN, online : BOOLEAN]]
    BY <1>1 DEF PickEvent, DeskTypeOK
  <2> QED BY <1>1, <2>1, ListInv DEF PickEvent, askVars, DeskTypeOK, GreenKnown
<1>2. CASE NetFlips(d)
  <2>1. desk' \in [Desks -> [event : Events, net : BOOLEAN, online : BOOLEAN]]
    BY <1>2 DEF NetFlips, DeskTypeOK
  <2> QED BY <1>2, <2>1, ListInv DEF NetFlips, askVars, DeskTypeOK, GreenKnown
<1>3. CASE ScreenUpdates(d)
  <2>1. desk' \in [Desks -> [event : Events, net : BOOLEAN, online : BOOLEAN]]
    BY <1>3 DEF ScreenUpdates, DeskTypeOK
  <2>2. CASE UNCHANGED <<wire, shown>>
    BY <1>3, <2>1, <2>2, ListInv DEF ScreenUpdates, DeskTypeOK, GreenKnown
  <2>3. CASE Replay(d)
    <3>1. wire' = wire \cup {Ask(e.id, desk[d].event) : e \in Queued(d)}
      BY <2>3 DEF Replay, SendAll
    <3>2. shown' = [shown EXCEPT ![d] =
                      (@ \ Queued(d)) \cup {[e EXCEPT !.st = "checking"] : e \in Queued(d)}]
      BY <2>3 DEF Replay, SendAll
    <3>3. Queued(d) \subseteq shown[d] /\ shown[d] \subseteq Rows1 /\ desk[d].event \in Events
      BY DEF Queued, DeskTypeOK
    <3>4. wire' \subseteq [id : 1..Len(token), event : Events]
      BY <3>1, <3>3 DEF Ask, DeskTypeOK
    <3>5. {[e EXCEPT !.st = "checking"] : e \in Queued(d)} \subseteq Rows1
      BY <3>3 DEF Verdicts
    <3>6. shown' \in [Desks -> SUBSET Rows1]
      BY <3>2, <3>3, <3>5 DEF DeskTypeOK
    <3>7. ASSUME NEW c \in Desks, NEW e \in shown'[c], e.st = "allowed" PROVE e \in shown[c]
      <4>1. e \notin {[q EXCEPT !.st = "checking"] : q \in Queued(d)}
        BY <3>3, <3>7
      <4> QED BY <3>2, <3>7, <4>1 DEF DeskTypeOK
    <3> HIDE DEF Rows1
    <3>8. \A c \in Desks : \A e \in shown'[c] :
            e.st = "allowed" => admittedBy[token[e.id]] = e.id
      BY <3>7 DEF GreenKnown
    <3>9. UNCHANGED <<checkVars, token, serving, admittedBy, answers>>
      BY <1>3 DEF ScreenUpdates
    <3> QED BY <2>1, <3>4, <3>6, <3>8, <3>9, ListInv DEF Rows1
  <2> QED BY <1>3, <2>2, <2>3 DEF ScreenUpdates
<1>4. CASE Reload(d)
  <2>1. desk' \in [Desks -> [event : Events, net : BOOLEAN, online : BOOLEAN]]
    BY <1>4 DEF Reload, DeskTypeOK, DeskConstants
  <2>2. shown' \in [Desks -> SUBSET Rows1]
    BY <1>4 DEF Reload, DeskTypeOK
  <2>3. \A c \in Desks : shown'[c] \subseteq shown[c]
    BY <1>4 DEF Reload, DeskTypeOK
  <2> QED BY <1>4, <2>1, <2>2, <2>3, ListInv DEF Reload, askVars, DeskTypeOK, GreenKnown
<1>5. ASSUME NEW a \in answers, TakeAnswer(d, a) PROVE DeskInv'
  <2>1. a \in [id : 1..Len(token), what : {"allowed", "denied", "error"}]
    BY DEF DeskTypeOK
  <2>2. /\ shown' = [shown EXCEPT ![d] = Settled(@, a.id, a.what)]
        /\ answers' \subseteq answers
        /\ UNCHANGED <<checkVars, desk, token, wire, serving, admittedBy>>
    BY <1>5 DEF TakeAnswer
  <2>3. shown' \in [Desks -> SUBSET Rows1]
    <3>1. shown[d] \in SUBSET Rows1 /\ a.what \in Verdicts
      BY <2>1 DEF DeskTypeOK, Verdicts
    <3>2. Settled(shown[d], a.id, a.what) \subseteq Rows1
      BY <3>1, SettledType
    <3> QED BY <2>2, <3>2 DEF DeskTypeOK
  <2>4. ASSUME NEW c \in Desks, NEW e \in shown'[c], e.st = "allowed"
        PROVE  admittedBy[token[e.id]] = e.id
    <3>1. CASE e \in shown[c]
      BY <2>4, <3>1 DEF GreenKnown
    <3>2. CASE e \notin shown[c]
      <4>1. c = d /\ e \in Settled(shown[d], a.id, a.what)
        BY <2>2, <3>2 DEF DeskTypeOK
      <4>2. PICK f \in shown[d] : f.id = a.id /\ e = [f EXCEPT !.st = a.what]
        BY <3>2, <4>1 DEF Settled
      <4>3. e.id = a.id /\ a.what = "allowed"
        BY <2>4, <4>2 DEF DeskTypeOK
      <4> QED BY <4>3 DEF AdmissionsKnown
    <3> QED BY <3>1, <3>2
  <2> QED BY <2>2, <2>3, <2>4, ListInv DEF DeskTypeOK
<1>6. ASSUME NEW f \in shown[d], CallFails(d, f) PROVE DeskInv'
  <2>1. /\ shown' = [shown EXCEPT ![d] = Settled(@, f.id, "error")]
        /\ answers' \subseteq answers /\ wire' \subseteq wire
        /\ UNCHANGED <<checkVars, desk, token, serving, admittedBy>>
    BY <1>6 DEF CallFails
  <2>2. shown' \in [Desks -> SUBSET Rows1]
    <3>1. shown[d] \in SUBSET Rows1 /\ "error" \in Verdicts
      BY DEF DeskTypeOK, Verdicts
    <3>2. Settled(shown[d], f.id, "error") \subseteq Rows1
      BY <3>1, SettledType
    <3> QED BY <2>1, <3>2 DEF DeskTypeOK
  <2>3. ASSUME NEW c \in Desks, NEW e \in shown'[c], e.st = "allowed" PROVE e \in shown[c]
    <3>1. CASE c # d
      BY <2>1, <2>3, <3>1 DEF DeskTypeOK
    <3>2. CASE c = d
      <4>1. e \in Settled(shown[d], f.id, "error")
        BY <2>1, <2>3, <3>2 DEF DeskTypeOK
      <4>2. PICK q \in shown[d] : e = IF q.id = f.id THEN [q EXCEPT !.st = "error"] ELSE q
        BY <4>1 DEF Settled
      <4>3. q \in Rows1
        BY DEF DeskTypeOK
      <4> QED BY <2>3, <3>2, <4>2, <4>3
    <3> QED BY <3>1, <3>2
  <2>4. \A c \in Desks : \A e \in shown'[c] :
          e.st = "allowed" => admittedBy[token[e.id]] = e.id
    BY <2>3 DEF GreenKnown
  <2> QED BY <2>1, <2>2, <2>4, ListInv DEF DeskTypeOK
<1> QED BY <1>1, <1>2, <1>3, <1>4, <1>5, <1>6, SubmitInv DEF DeskStep
-----------------------------------------------------------------------------
(* The server's steps.                                                     *)
(* A request that ends frees its gate and leaves an answer.                *)
LEMMA AnsweredInv ==
  ASSUME DeskInv, CheckTypeOK', NEW g \in Gates, serving[g] \in 1..Len(token),
         NEW what \in {"allowed", "denied", "error"},
         what = "allowed" => admittedBy[token[serving[g]]] = serving[g],
         gate' = [gate EXCEPT ![g] = NoRequest],
         answers' = answers \cup {Answer(serving[g], what)},
         UNCHANGED <<desk, shown, token, wire, serving, admittedBy, status>>
  PROVE  DeskInv'
<1>1. DeskTypeOK /\ RequestsKnown /\ AdmissionsKnown /\ GreenKnown
  BY DEF DeskInv
<1>2. gate'[g] = NoRequest /\ \A h \in Gates : h # g => gate'[h] = gate[h]
  BY <1>1 DEF DeskTypeOK, CheckTypeOK
<1>3. \A t : NoRequest # Waiting(t) /\ NoRequest # Admitting(t)
  BY DEF NoRequest, Waiting, Admitting
<1>4. DeskTypeOK'
  <2>1. Answer(serving[g], what) \in [id : 1..Len(token), what : {"allowed", "denied", "error"}]
    BY DEF Answer
  <2>2. answers' \subseteq [id : 1..Len(token), what : {"allowed", "denied", "error"}]
    BY <1>1, <2>1 DEF DeskTypeOK
  <2> QED BY <1>1, <2>2 DEF DeskTypeOK
<1>5. RequestsKnown'
  <2> SUFFICES ASSUME NEW h \in Gates, NEW t \in Tickets, gate'[h] \in {Waiting(t), Admitting(t)}
               PROVE  serving[h] # NoScan /\ token[serving[h]] = t
    BY DEF RequestsKnown
  <2>1. gate'[h] = gate[h]
    BY <1>2, <1>3
  <2> QED BY <1>1, <2>1 DEF RequestsKnown
<1>6. AdmissionsKnown'
  <2>1. ASSUME NEW h \in Gates, NEW t \in Tickets, gate'[h] = Admitting(t)
        PROVE  admittedBy[t] = serving[h]
    <3>1. gate'[h] = gate[h]
      BY <1>2, <1>3, <2>1
    <3> QED BY <1>1, <2>1, <3>1 DEF AdmissionsKnown
  <2>2. ASSUME NEW a \in answers', a.what = "allowed" PROVE admittedBy[token[a.id]] = a.id
    <3>1. CASE a \in answers
      BY <1>1, <2>2, <3>1 DEF AdmissionsKnown
    <3>2. CASE a = Answer(serving[g], what)
      BY <2>2, <3>2 DEF Answer
    <3> QED BY <3>1, <3>2
  <2> QED BY <1>1, <2>1, <2>2 DEF AdmissionsKnown
<1>7. GreenKnown'
  BY <1>1 DEF GreenKnown
<1> QED BY <1>4, <1>5, <1>6, <1>7 DEF DeskInv

LEMMA ArriveInv ==
  ASSUME CheckInConstants, DeskInv, CheckTypeOK', NEW g \in Gates, NEW r \in wire, Arrive(g, r)
  PROVE  DeskInv'
<1> USE DEF DeskInv
<1> DEFINE t == token[r.id]
<1>1. /\ r.id \in 1..Len(token) /\ t \in Tickets /\ Len(token) \in Nat
      /\ UNCHANGED <<desk, shown, token, admittedBy, status>>
      /\ wire' \subseteq wire
  BY DEF Arrive, Scan, DeskTypeOK
<1>2. CASE FirstLook(g, t) = "allowed"
  <2>1. /\ gate' = [gate EXCEPT ![g] = Waiting(t)]
        /\ serving' = [serving EXCEPT ![g] = r.id] /\ UNCHANGED answers
    BY <1>2 DEF Arrive, Scan
  <2>2. DeskTypeOK'
    <3>1. serving' \in [Gates -> 0..Len(token)]
      BY <1>1, <2>1 DEF DeskTypeOK
    <3>2. DeskTypeOK
      OBVIOUS
    <3>3. wire' \subseteq [id : 1..Len(token), event : Events]
      BY ONLY <1>1, <3>2 DEF DeskTypeOK
    <3> QED BY <1>1, <2>1, <3>1, <3>2, <3>3 DEF DeskTypeOK
  <2>3. RequestsKnown'
    <3> SUFFICES ASSUME NEW h \in Gates, NEW u \in Tickets, gate'[h] \in {Waiting(u), Admitting(u)}
                 PROVE  serving'[h] # NoScan /\ token[serving'[h]] = u
      BY <1>1 DEF RequestsKnown
    <3>1. CASE h = g
      <4>1. gate'[g] = Waiting(t) /\ serving'[g] = r.id
        BY <2>1 DEF DeskTypeOK, CheckTypeOK
      <4>2. t = u
        BY <3>1, <4>1 DEF Waiting, Admitting
      <4>3. r.id # NoScan
        BY <1>1 DEF NoScan
      <4> QED BY <3>1, <4>1, <4>2, <4>3
    <3>2. CASE h # g
      <4>1. gate'[h] = gate[h] /\ serving'[h] = serving[h]
        BY <2>1, <3>2 DEF DeskTypeOK, CheckTypeOK
      <4> QED BY <4>1 DEF RequestsKnown
    <3> QED BY <3>1, <3>2
  <2>4. AdmissionsKnown'
    <3>1. ASSUME NEW h \in Gates, NEW u \in Tickets, gate'[h] = Admitting(u)
          PROVE  admittedBy[u] = serving'[h]
      <4>1. h # g /\ gate'[h] = gate[h] /\ serving'[h] = serving[h]
        BY <2>1, <3>1 DEF DeskTypeOK, CheckTypeOK, Waiting, Admitting
      <4> QED BY <3>1, <4>1 DEF AdmissionsKnown
    <3> QED BY <1>1, <2>1, <3>1 DEF AdmissionsKnown
  <2> QED BY <1>1, <2>2, <2>3, <2>4 DEF GreenKnown
<1>3. CASE FirstLook(g, t) # "allowed"
  <2>1. /\ UNCHANGED <<gate, serving>>
        /\ answers' = answers \cup {Answer(r.id, "denied")}
    BY <1>3 DEF Arrive, Scan
  <2>2. DeskTypeOK'
    <3>1. DeskTypeOK
      OBVIOUS
    <3>2. Answer(r.id, "denied") \in [id : 1..Len(token), what : {"allowed", "denied", "error"}]
      BY ONLY <1>1 DEF Answer
    <3>3. answers' \subseteq [id : 1..Len(token), what : {"allowed", "denied", "error"}]
      BY ONLY <2>1, <3>1, <3>2 DEF DeskTypeOK
    <3>4. wire' \subseteq [id : 1..Len(token), event : Events]
      BY ONLY <1>1, <3>1 DEF DeskTypeOK
    <3> QED BY <1>1, <2>1, <3>1, <3>3, <3>4 DEF DeskTypeOK
  <2>3. RequestsKnown'
    BY <1>1, <2>1 DEF RequestsKnown
  <2>4. AdmissionsKnown'
    BY <1>1, <2>1 DEF AdmissionsKnown, Answer
  <2> QED BY <1>1, <2>2, <2>3, <2>4 DEF GreenKnown
<1> QED BY <1>2, <1>3

(* The admission: nobody was admitted on an active ticket before, so no    *)
(* answer and no entry about it is green.                                  *)
LEMMA DecideInv ==
  ASSUME CheckInConstants, DeskInv, CheckTypeOK', NEW g \in Gates, NEW t \in Tickets, Decide(g, t)
  PROVE  DeskInv'
<1> USE DEF DeskInv
<1>1. /\ gate[g] = Waiting(t) /\ serving[g] # NoScan /\ token[serving[g]] = t
      /\ UNCHANGED <<desk, shown, token, wire, serving>>
  BY DEF Decide, AdmitUnderLock, RequestsKnown
<1>2. serving[g] \in 1..Len(token) /\ Len(token) \in Nat
  BY <1>1 DEF DeskTypeOK, NoScan
<1>3. CASE status[t] = "active"
  <2>1. /\ admittedBy' = [admittedBy EXCEPT ![t] = serving[g]] /\ UNCHANGED answers
        /\ status' = [status EXCEPT ![t] = "used"]
        /\ gate' = [gate EXCEPT ![g] = Admitting(t)]
    BY <1>3 DEF Decide, AdmitUnderLock
  <2>2. admittedBy[t] = NoScan
    BY <1>3 DEF AdmissionsKnown
  <2>3. DeskTypeOK'
    BY <1>1, <1>2, <2>1 DEF DeskTypeOK
  <2>4. RequestsKnown'
    <3> SUFFICES ASSUME NEW h \in Gates, NEW u \in Tickets, gate'[h] \in {Waiting(u), Admitting(u)}
                 PROVE  serving[h] # NoScan /\ token[serving[h]] = u
      BY <1>1 DEF RequestsKnown
    <3>1. CASE h = g
      <4>1. gate'[g] = Admitting(t)
        BY <2>1 DEF CheckTypeOK
      <4>2. t = u
        BY <3>1, <4>1 DEF Waiting, Admitting
      <4> QED BY <1>1, <3>1, <4>2
    <3>2. CASE h # g
      <4>1. gate'[h] = gate[h]
        BY <2>1, <3>2 DEF CheckTypeOK
      <4> QED BY <4>1 DEF RequestsKnown
    <3> QED BY <3>1, <3>2
  <2>5. \A u \in Tickets : admittedBy'[u] # NoScan => status'[u] = "used"
    BY <2>1 DEF AdmissionsKnown, DeskTypeOK, CheckTypeOK
  <2>6. ASSUME NEW h \in Gates, NEW u \in Tickets, gate'[h] = Admitting(u)
        PROVE  admittedBy'[u] = serving[h]
    <3>1. CASE h = g
      BY <2>1, <2>6, <3>1 DEF DeskTypeOK, CheckTypeOK, Admitting
    <3>2. CASE h # g
      <4>1. gate[h] = Admitting(u) /\ admittedBy[u] = serving[h]
        BY <2>1, <2>6, <3>2 DEF AdmissionsKnown, DeskTypeOK, CheckTypeOK
      <4>2. serving[h] # NoScan
        BY <4>1 DEF RequestsKnown
      <4>3. u # t
        BY <2>2, <4>1, <4>2
      <4> QED BY <2>1, <4>1, <4>3 DEF DeskTypeOK
    <3> QED BY <3>1, <3>2
  <2>7. ASSUME NEW i \in 1..Len(token), admittedBy[token[i]] = i
        PROVE  admittedBy'[token[i]] = i
    <3>0. token \in Seq(Tickets) /\ i \in 1..Len(token)
      BY DEF DeskTypeOK
    <3>1. token[i] \in Tickets /\ i # NoScan
      BY ONLY <3>0, <1>2 DEF NoScan
    <3>2. token[i] # t
      BY <2>2, <2>7, <3>1
    <3> QED BY <2>1, <2>7, <3>1, <3>2 DEF DeskTypeOK
  <2>8. \A a \in answers : a.what = "allowed" => admittedBy'[token[a.id]] = a.id
    BY <2>7 DEF AdmissionsKnown, DeskTypeOK
  <2>9. GreenKnown'
    <3> SUFFICES ASSUME NEW d \in Desks, NEW e \in shown[d], e.st = "allowed"
                 PROVE  admittedBy'[token[e.id]] = e.id
      BY <1>1 DEF GreenKnown
    <3>1. e.id \in 1..Len(token)
      BY DEF DeskTypeOK
    <3> QED BY <2>7, <3>1 DEF GreenKnown
  <2>10. AdmissionsKnown'
    BY <1>1, <2>1, <2>5, <2>6, <2>8 DEF AdmissionsKnown
  <2> QED BY <2>3, <2>4, <2>9, <2>10
<1>4. CASE status[t] # "active"
  <2>1. /\ answers' = answers \cup {Answer(serving[g], "denied")}
        /\ gate' = [gate EXCEPT ![g] = NoRequest]
        /\ UNCHANGED <<status, admittedBy>>
    BY <1>4 DEF Decide, AdmitUnderLock, Replied
  <2> QED BY <1>1, <1>2, <2>1, AnsweredInv
<1> QED BY <1>3, <1>4

LEMMA AdmittedInv ==
  ASSUME CheckInConstants, DeskInv, CheckTypeOK', NEW g \in Gates, NEW t \in Tickets, Admitted(g, t)
  PROVE  DeskInv'
<1> USE DEF DeskInv
<1>1. /\ gate[g] = Admitting(t) /\ gate' = [gate EXCEPT ![g] = NoRequest]
      /\ answers' = answers \cup {Answer(serving[g], "allowed")}
      /\ UNCHANGED <<desk, shown, token, wire, serving, admittedBy, status>>
  BY DEF Admitted, BumpAttendance, Replied
<1>2. serving[g] # NoScan /\ token[serving[g]] = t /\ admittedBy[t] = serving[g]
  BY <1>1 DEF RequestsKnown, AdmissionsKnown
<1>3. serving[g] \in 1..Len(token)
  BY <1>2 DEF DeskTypeOK, NoScan
<1> QED BY <1>1, <1>2, <1>3, AnsweredInv

LEMMA RequestFailsInv ==
  ASSUME CheckInConstants, DeskInv, CheckTypeOK', NEW g \in Gates, RequestFails(g)
  PROVE  DeskInv'
<1> USE DEF DeskInv
<1>1. /\ gate[g] # NoRequest /\ gate' = [gate EXCEPT ![g] = NoRequest]
      /\ answers' = answers \cup {Answer(serving[g], "error")}
      /\ UNCHANGED <<desk, shown, token, wire, serving, admittedBy, status>>
  BY DEF RequestFails, GateFails, Replied
<1>2. \E t \in Tickets : gate[g] \in {Waiting(t), Admitting(t)}
  BY <1>1 DEF DeskTypeOK, CheckTypeOK, Requests, Waiting, Admitting
<1>3. serving[g] \in 1..Len(token)
  BY <1>2 DEF RequestsKnown, DeskTypeOK, NoScan
<1> QED BY <1>1, <1>3, AnsweredInv

LEMMA ElsewhereInv ==
  ASSUME DeskInv, CheckTypeOK', Elsewhere
  PROVE  DeskInv'
<1> USE DEF DeskInv
<1>1. UNCHANGED <<deskVars, gate>>
  BY DEF Elsewhere, CheckTick, VoidTickets
<1>2. \A t \in Tickets : status[t] = "used" => status'[t] = "used"
  BY DEF Elsewhere, CheckTick, VoidTickets, DeskTypeOK, CheckTypeOK
<1>3. DeskTypeOK' /\ RequestsKnown' /\ GreenKnown'
  BY <1>1 DEF DeskTypeOK, RequestsKnown, GreenKnown, deskVars
<1>4. AdmissionsKnown'
  BY <1>1, <1>2 DEF AdmissionsKnown, deskVars
<1> QED BY <1>3, <1>4

-----------------------------------------------------------------------------
LEMMA DeskNextGate ==
  ASSUME DeskTypeOK, [DeskNext]_vars
  PROVE  [CheckNext]_checkVars
<1>1. ASSUME Elsewhere PROVE CheckNext
  BY <1>1 DEF Elsewhere, CheckNext
<1>2. ASSUME NEW g \in Gates, ServerStep(g) PROVE CheckNext
  BY <1>2, RequestGate DEF CheckNext
<1>3. ASSUME NEW d \in Desks, DeskStep(d) PROVE UNCHANGED checkVars
  BY <1>3, DeskStepGate
<1> QED BY <1>1, <1>2, <1>3 DEF DeskNext, vars

LEMMA DeskNextInv ==
  ASSUME CheckInConstants, DeskConstants, DeskInv, CheckTypeOK', [DeskNext]_vars
  PROVE  DeskInv'
<1>1. CASE UNCHANGED vars
  BY <1>1 DEF vars, checkVars, deskVars, DeskInv, DeskTypeOK, CheckTypeOK, RequestsKnown,
              AdmissionsKnown, GreenKnown
<1>2. ASSUME NEW g \in Gates, ServerStep(g) PROVE DeskInv'
  BY <1>2, ArriveInv, DecideInv, AdmittedInv, RequestFailsInv DEF ServerStep
<1> QED BY <1>1, <1>2, DeskStepInv, ElsewhereInv DEF DeskNext

(* The gate's invariant and the desks' hold together: every request and    *)
(* every answer is of a scan that was made, and an answer that says        *)
(* "allowed" is of the scan that admitted its ticket.                      *)
THEOREM DesksAndGate == DeskSpec => [](CheckInv /\ DeskInv)
<1>1. DeskInit => CheckInv /\ DeskInv
  BY CheckInConstants, DeskConstants, DeskInitGate, InitInv, DeskInitInv
<1>2. CheckInv /\ DeskInv /\ [DeskNext]_vars => CheckInv' /\ DeskInv'
  <2> SUFFICES ASSUME CheckInv, DeskInv, [DeskNext]_vars PROVE CheckInv' /\ DeskInv'
    OBVIOUS
  <2>1. CheckInv'
    BY CheckInConstants, DeskNextGate, NextInv DEF DeskInv
  <2>2. DeskInv'
    BY <2>1, CheckInConstants, DeskConstants, DeskNextInv DEF CheckInv
  <2> QED BY <2>1, <2>2
<1> QED BY <1>1, <1>2, PTL DEF DeskSpec

(* Whatever the desks and their network do, the gate behind them takes no  *)
(* step that CheckIn does not know.                                        *)
THEOREM DesksKeepTheGate == DeskSpec => CheckSpec
<1>1. DeskInit => CheckInit
  BY DeskInitGate
<1>2. DeskInv /\ [DeskNext]_vars => [CheckNext]_checkVars
  BY DeskNextGate DEF DeskInv
<1> QED BY <1>1, <1>2, DesksAndGate, PTL DEF DeskSpec, CheckSpec

(* "Let them in" stands at the entry of the scan that was admitted and     *)
(* nowhere else, for any number of desks, lost answers and replays.        *)
THEOREM GreenStandsOnce == DeskSpec => []GreenOnce
<1>1. DeskInv => GreenOnce
  <2> SUFFICES ASSUME DeskInv, NEW d \in Desks, NEW e \in shown[d], e.st = "allowed"
               PROVE  admittedBy[token[e.id]] = e.id /\ status[token[e.id]] = "used"
    BY DEF GreenOnce
  <2>1. e.id \in 1..Len(token) /\ token[e.id] \in Tickets /\ e.id # NoScan
    BY DEF DeskInv, DeskTypeOK, NoScan
  <2>2. admittedBy[token[e.id]] = e.id
    BY DEF DeskInv, GreenKnown
  <2> QED BY <2>1, <2>2 DEF DeskInv, AdmissionsKnown
<1> QED BY <1>1, DesksAndGate, PTL

(* A door lets one person in per ticket, with desks in front of it too.    *)
THEOREM DesksAreADoor == DeskSpec => ImplementsDoor
  BY DesksKeepTheGate, GateIsADoor, PTL
-----------------------------------------------------------------------------
(* "Replayed on reconnect": the queue of a desk that shows itself online   *)
(* holds only what slipped in before the screen had noticed the loss.      *)
LEMMA QueueStep ==
  ASSUME DeskInv, NothingLeftBehind, NEW c \in Desks, DeskStep(c)
  PROVE  NothingLeftBehind'
<1> USE DEF DeskInv
<1>0. ASSUME shown' = shown, \A d \in Desks : desk'[d].online = desk[d].online
      PROVE  NothingLeftBehind'
  BY <1>0 DEF NothingLeftBehind
<1>1. ASSUME NEW e \in Events, PickEvent(c, e) PROVE NothingLeftBehind'
  BY <1>0, <1>1 DEF PickEvent, DeskTypeOK
<1>2. CASE NetFlips(c)
  BY <1>0, <1>2 DEF NetFlips, DeskTypeOK
<1>3. ASSUME NEW t \in Tickets, Submit(c, t) PROVE NothingLeftBehind'
  <2> DEFINE new == IF desk[c].net THEN Entry(Len(token) + 1, "checking", FALSE)
                    ELSE Entry(Len(token) + 1, "queued", desk[c].online)
  <2>1. shown' = [shown EXCEPT ![c] = @ \cup {new}] /\ desk' = desk
    BY <1>3 DEF Submit
  <2>2. new.st = "queued" /\ desk[c].online => new.slipped
    BY DEF Entry
  <2> HIDE DEF new
  <2> QED BY <2>1, <2>2 DEF NothingLeftBehind, DeskTypeOK
<1>4. CASE ScreenUpdates(c)
  <2>1. desk' = [desk EXCEPT ![c].online = desk[c].net] /\ desk[c].net \in BOOLEAN
    BY <1>4 DEF ScreenUpdates, DeskTypeOK
  <2>2. CASE desk[c].net
    <3>1. shown' = [shown EXCEPT ![c] =
                      (@ \ Queued(c)) \cup {[e EXCEPT !.st = "checking"] : e \in Queued(c)}]
      BY <1>4, <2>2 DEF ScreenUpdates, Replay, SendAll
    <3>2. ASSUME NEW e \in shown'[c] PROVE e.st # "queued"
      <4>1. CASE e \in shown[c] \ Queued(c)
        BY <4>1 DEF Queued
      <4>2. CASE e \in {[q EXCEPT !.st = "checking"] : q \in Queued(c)}
        <5>1. PICK q \in Queued(c) : e = [q EXCEPT !.st = "checking"]
          BY <4>2
        <5>2. q \in [id : 1..Len(token), st : Verdicts, slipped : BOOLEAN]
          BY DEF Queued, DeskTypeOK
        <5> QED BY <5>1, <5>2
      <4> QED BY <3>1, <3>2, <4>1, <4>2 DEF DeskTypeOK
    <3>3. \A d \in Desks \ {c} : shown'[d] = shown[d] /\ desk'[d] = desk[d]
      BY <2>1, <3>1 DEF DeskTypeOK
    <3> QED BY <3>2, <3>3 DEF NothingLeftBehind
  <2>3. CASE ~desk[c].net
    <3>1. shown' = shown /\ ~desk'[c].online
      BY <1>4, <2>1, <2>3 DEF ScreenUpdates, DeskTypeOK
    <3>2. \A d \in Desks \ {c} : desk'[d] = desk[d]
      BY <2>1 DEF DeskTypeOK
    <3> QED BY <3>1, <3>2 DEF NothingLeftBehind
  <2> QED BY <2>1, <2>2, <2>3
<1>5. CASE Reload(c)
  <2>1. shown'[c] = {} /\ \A d \in Desks \ {c} : shown'[d] = shown[d] /\ desk'[d] = desk[d]
    BY <1>5 DEF Reload, DeskTypeOK
  <2> QED BY <2>1 DEF NothingLeftBehind
<1>6. ASSUME NEW i, NEW st \in Verdicts \ {"queued"}, desk' = desk,
             shown' = [shown EXCEPT ![c] = Settled(@, i, st)]
      PROVE  NothingLeftBehind'
  <2> SUFFICES ASSUME NEW d \in Desks, NEW e \in shown'[d], e.st = "queued", desk[d].online
               PROVE  e.slipped
    BY <1>6 DEF NothingLeftBehind
  <2>1. e \in shown[d]
    <3>1. CASE d # c
      BY <1>6, <3>1 DEF DeskTypeOK
    <3>2. CASE d = c
      <4>1. PICK q \in shown[c] : e = IF q.id = i THEN [q EXCEPT !.st = st] ELSE q
        BY <1>6, <3>2 DEF DeskTypeOK, Settled
      <4>2. q \in [id : 1..Len(token), st : Verdicts, slipped : BOOLEAN]
        BY DEF DeskTypeOK
      <4> QED BY <1>6, <3>2, <4>1, <4>2
    <3> QED BY <3>1, <3>2
  <2> QED BY <2>1 DEF NothingLeftBehind
<1>7. ASSUME NEW a \in answers, TakeAnswer(c, a) PROVE NothingLeftBehind'
  <2>1. a.what \in Verdicts \ {"queued"}
    BY DEF DeskTypeOK, Verdicts
  <2> QED BY <1>6, <1>7, <2>1 DEF TakeAnswer
<1>8. ASSUME NEW e \in shown[c], CallFails(c, e) PROVE NothingLeftBehind'
  <2>1. "error" \in Verdicts \ {"queued"}
    BY DEF Verdicts
  <2> QED BY <1>6, <1>8, <2>1 DEF CallFails
<1> QED BY <1>1, <1>2, <1>3, <1>4, <1>5, <1>7, <1>8 DEF DeskStep

(* Offline scans are "replayed on reconnect": none is left in the queue of *)
(* a desk that knows it is online, but those that slipped in before.       *)
THEOREM QueueIsReplayed == DeskSpec => []NothingLeftBehind
<1>1. DeskInit => NothingLeftBehind
  BY DEF DeskInit, NothingLeftBehind
<1>2. DeskInv /\ NothingLeftBehind /\ [DeskNext]_vars => NothingLeftBehind'
  <2> SUFFICES ASSUME DeskInv, NothingLeftBehind, [DeskNext]_vars PROVE NothingLeftBehind'
    OBVIOUS
  <2>1. ASSUME UNCHANGED <<shown, desk>> PROVE NothingLeftBehind'
    BY <2>1 DEF NothingLeftBehind
  <2>2. ASSUME NEW g \in Gates, ServerStep(g) PROVE UNCHANGED <<shown, desk>>
    BY <2>2 DEF ServerStep, Arrive, Decide, Admitted, RequestFails
  <2>3. Elsewhere \/ UNCHANGED vars => UNCHANGED <<shown, desk>>
    BY DEF Elsewhere, vars, deskVars
  <2> QED BY <2>1, <2>2, <2>3, QueueStep DEF DeskNext
<1> QED BY <1>1, <1>2, DesksAndGate, PTL DEF DeskSpec

(* Every entry, request and answer is of a scan that was made.             *)
THEOREM DesksTypeCorrect == DeskSpec => []DeskTypeOK
<1>1. CheckInv /\ DeskInv => DeskTypeOK
  BY DEF DeskInv
<1> QED BY <1>1, DesksAndGate, PTL

-----------------------------------------------------------------------------
(* Where a scan is.  Its entry stands on one desk; while it is still to be *)
(* answered it is in that desk's queue, on the wire, or with a gate that   *)
(* waits for the ticket's lock, and in one of these only.                  *)
AtLock(g, i) == gate[g].phase = "lock" /\ serving[g] = i

OneEntry == \A c, d \in Desks : \A e \in shown[c], f \in shown[d] : e.id = f.id => c = d

OnePlace ==
  /\ \A d \in Desks : \A e \in shown[d] : e.st = "queued" =>
       (\A r \in wire : r.id # e.id) /\ (\A g \in Gates : ~AtLock(g, e.id))
  /\ \A r \in wire : \A g \in Gates : ~AtLock(g, r.id)
  /\ \A r, s \in wire : r.id = s.id => r = s
  /\ \A g, h \in Gates : AtLock(g, serving[g]) /\ AtLock(h, serving[g]) => g = h

PlaceInv == OneEntry /\ OnePlace /\ NoEndlessCheck

(* An answer or a failure settles the entries of one scan on one desk.     *)
Settles(d, i, st) == shown' = [shown EXCEPT ![d] = Settled(@, i, st)]

LEMMA SettledEntries ==
  ASSUME DeskTypeOK, NEW d \in Desks, NEW i, NEW st, Settles(d, i, st),
         NEW c \in Desks, NEW e \in shown'[c]
  PROVE  \/ e \in shown[c] /\ (c # d \/ e.id # i)
         \/ c = d /\ e.st = st /\ e.id = i /\ \E f \in shown[d] : f.id = i
<1>1. CASE c # d
  BY <1>1 DEF DeskTypeOK, Settles
<1>2. CASE c = d
  <2>1. e \in Settled(shown[d], i, st)
    BY <1>2 DEF DeskTypeOK, Settles
  <2>2. PICK f \in shown[d] : e = IF f.id = i THEN [f EXCEPT !.st = st] ELSE f
    BY <2>1 DEF Settled
  <2>3. f \in [id : 1..Len(token), st : Verdicts, slipped : BOOLEAN]
    BY DEF DeskTypeOK
  <2> QED BY <1>2, <2>2, <2>3
<1> QED BY <1>1, <1>2

(* A replay sends each queued entry once and takes it off the queue.       *)
LEMMA ReplayedEntries ==
  ASSUME DeskTypeOK, NEW d \in Desks, Replay(d)
  PROVE  /\ \A c \in Desks : \A e \in shown'[c] :
              \/ e \in shown[c] /\ (c # d \/ e.st # "queued")
              \/ c = d /\ e.st = "checking" /\ \E f \in Queued(d) : f.id = e.id
         /\ \A e \in Queued(d) : Ask(e.id, desk[d].event) \in wire'
         /\ \A r \in wire' : r \in wire \/ \E e \in Queued(d) : r = Ask(e.id, desk[d].event)
         /\ wire \subseteq wire'
<1>1. wire' = wire \cup {Ask(e.id, desk[d].event) : e \in Queued(d)}
  BY DEF Replay, SendAll
<1>2. shown' = [shown EXCEPT ![d] =
                  (@ \ Queued(d)) \cup {[e EXCEPT !.st = "checking"] : e \in Queued(d)}]
  BY DEF Replay, SendAll
<1>3. ASSUME NEW c \in Desks, NEW e \in shown'[c]
      PROVE  \/ e \in shown[c] /\ (c # d \/ e.st # "queued")
             \/ c = d /\ e.st = "checking" /\ \E f \in Queued(d) : f.id = e.id
  <2>1. CASE c # d
    BY <1>2, <1>3, <2>1 DEF DeskTypeOK
  <2>2. CASE c = d /\ e \in shown[d] \ Queued(d)
    BY <2>2 DEF Queued
  <2>3. CASE c = d /\ e \in {[q EXCEPT !.st = "checking"] : q \in Queued(d)}
    <3>1. PICK q \in Queued(d) : e = [q EXCEPT !.st = "checking"]
      BY <2>3
    <3>2. q \in [id : 1..Len(token), st : Verdicts, slipped : BOOLEAN]
      BY DEF Queued, DeskTypeOK
    <3> QED BY <2>3, <3>1, <3>2
  <2> QED BY <1>2, <1>3, <2>1, <2>2, <2>3 DEF DeskTypeOK
<1> QED BY <1>1, <1>3

(* A scan submitted has an id that no entry, request or gate has yet.      *)
LEMMA SubmittedEntries ==
  ASSUME DeskTypeOK, NEW d \in Desks, NEW t \in Tickets, Submit(d, t)
  PROVE  LET i == Len(token) + 1 IN
         /\ token' = Append(token, t) /\ Len(token') = i /\ Len(token) \in Nat
         /\ \A j \in 1 .. Len(token) : token'[j] = token[j]
         /\ \A c \in Desks : \A e \in shown[c] : e.id # i
         /\ \A r \in wire : r.id # i
         /\ \A g \in Gates : serving[g] # i
         /\ wire \subseteq wire' /\ UNCHANGED <<gate, serving, answers>>
         /\ \A r \in wire' : r \in wire \/ r = Ask(i, desk[d].event)
         /\ \A c \in Desks : \A e \in shown'[c] :
              \/ e \in shown[c]
              \/ /\ c = d /\ e.id = i
                 /\ \/ e.st = "checking" /\ \E r \in wire' : r.id = i
                    \/ e.st = "queued" /\ wire' = wire
<1> DEFINE i == Len(token) + 1
           new == IF desk[d].net THEN Entry(i, "checking", FALSE)
                  ELSE Entry(i, "queued", desk[d].online)
<1>1. /\ token' = Append(token, t) /\ Len(token') = i /\ Len(token) \in Nat
      /\ \A j \in 1 .. Len(token) : token'[j] = token[j]
  BY DEF Submit, DeskTypeOK
<1>2. \A c \in Desks : \A e \in shown[c] : e.id \in 1 .. Len(token)
  BY DEF DeskTypeOK
<1>3. (\A r \in wire : r.id \in 1 .. Len(token)) /\ \A g \in Gates : serving[g] \in 0 .. Len(token)
  BY DEF DeskTypeOK
<1>4. /\ wire' = IF desk[d].net THEN wire \cup {Ask(i, desk[d].event)} ELSE wire
      /\ shown' = [shown EXCEPT ![d] = @ \cup {new}]
      /\ UNCHANGED <<gate, serving, answers>>
  BY DEF Submit, checkVars
<1>5. /\ Ask(i, desk[d].event).id = i /\ Ask(i, desk[d].event).event = desk[d].event
      /\ new.id = i /\ new.st = IF desk[d].net THEN "checking" ELSE "queued"
  BY DEF Ask, Entry
<1>6. \A x \in 0 .. Len(token) : x # i
  BY <1>1
<1>7. \A c \in Desks : \A e \in shown'[c] : e \in shown[c] \/ (c = d /\ e = new)
  <2>1. shown \in [Desks -> SUBSET [id : 1..Len(token), st : Verdicts, slipped : BOOLEAN]]
    BY DEF DeskTypeOK
  <2>2. shown' = [shown EXCEPT ![d] = @ \cup {new}]
    BY <1>4
  <2> HIDE DEF new
  <2>3. \A c \in Desks : shown'[c] = IF c = d THEN shown[c] \cup {new} ELSE shown[c]
    BY <2>1, <2>2
  <2> QED BY <2>3
<1>8. /\ \A c \in Desks : \A e \in shown[c] : e.id # i
      /\ \A r \in wire : r.id # i
      /\ \A g \in Gates : serving[g] # i
  BY <1>1, <1>2, <1>3, <1>6
<1> HIDE DEF i, new
<1>9. wire \subseteq wire' /\ \A r \in wire' : r \in wire \/ r = Ask(i, desk[d].event)
  BY <1>4
<1>10. \A c \in Desks : \A e \in shown'[c] :
              \/ e \in shown[c]
              \/ /\ c = d /\ e.id = i
                 /\ \/ e.st = "checking" /\ \E r \in wire' : r.id = i
                    \/ e.st = "queued" /\ wire' = wire
  BY <1>4, <1>5, <1>7
<1> QED BY <1>1, <1>4, <1>8, <1>9, <1>10 DEF i

(* Steps after which no entry is new, and what an entry still checked      *)
(* waits for is where it was.                                              *)
LEMMA ListPlaces ==
  ASSUME PlaceInv, UNCHANGED <<gate, serving>>, wire' \subseteq wire,
         \A c \in Desks : \A e \in shown'[c] :
           /\ \E f \in shown[c] : f.id = e.id
           /\ e.st = "queued" => e \in shown[c]
           /\ e.st = "checking" =>
                /\ e \in shown[c]
                /\ \A r \in wire : r.id = e.id => r \in wire'
                /\ \A a \in answers : a.id = e.id => a \in answers'
  PROVE  PlaceInv'
<1>1. OneEntry'
  BY DEF PlaceInv, OneEntry
<1>2. OnePlace'
  BY DEF PlaceInv, OnePlace, AtLock
<1>3. NoEndlessCheck'
  BY DEF PlaceInv, NoEndlessCheck
<1> QED BY <1>1, <1>2, <1>3 DEF PlaceInv

LEMMA DeskPlaces ==
  ASSUME DeskInv, PlaceInv, NEW d \in Desks, DeskStep(d)
  PROVE  PlaceInv'
<1>0. DeskTypeOK
  BY DEF DeskInv
<1>1. ASSUME UNCHANGED <<gate, serving, shown, wire, answers>> PROVE PlaceInv'
  BY <1>1, ListPlaces
<1>2. CASE NetFlips(d) \/ \E e \in Events : PickEvent(d, e)
  BY <1>1, <1>2 DEF NetFlips, PickEvent, checkVars, askVars
<1>3. CASE Reload(d)
  <2>1. \A c \in Desks : shown'[c] \subseteq shown[c]
    BY <1>0, <1>3 DEF Reload, DeskTypeOK
  <2> QED BY <1>3, <2>1, ListPlaces DEF Reload, checkVars, askVars
<1>4. ASSUME NEW a \in answers, TakeAnswer(d, a) PROVE PlaceInv'
  <2>1. /\ Settles(d, a.id, a.what) /\ answers' = answers \ {a}
        /\ UNCHANGED <<gate, serving, wire>>
    BY <1>4 DEF TakeAnswer, checkVars, Settles
  <2>2. a.what \notin {"queued", "checking"}
    BY <1>0 DEF DeskTypeOK
  <2>3. ASSUME NEW c \in Desks, NEW e \in shown'[c]
        PROVE  /\ \E f \in shown[c] : f.id = e.id
               /\ e.st \in {"queued", "checking"} => e \in shown[c] /\ (c # d \/ e.id # a.id)
    <3>1. \/ e \in shown[c] /\ (c # d \/ e.id # a.id)
          \/ c = d /\ e.st = a.what /\ e.id = a.id /\ \E f \in shown[d] : f.id = a.id
      BY <1>0, <2>1, <2>3, SettledEntries
    <3> QED BY <2>2, <3>1
  <2>4. \E f \in shown[d] : f.id = a.id
    BY <1>4 DEF TakeAnswer
  <2>5. ASSUME NEW c \in Desks, NEW e \in shown'[c], e.st = "checking" PROVE e.id # a.id
    BY <2>3, <2>4, <2>5 DEF PlaceInv, OneEntry
  <2> QED BY <2>1, <2>3, <2>5, ListPlaces
<1>5. ASSUME NEW f \in shown[d], CallFails(d, f) PROVE PlaceInv'
  <2>1. /\ Settles(d, f.id, "error")
        /\ wire' \in {wire, {r \in wire : r.id # f.id}}
        /\ answers' = {a \in answers : a.id # f.id}
        /\ UNCHANGED <<gate, serving>>
    BY <1>5 DEF CallFails, checkVars, Settles
  <2>2. ASSUME NEW c \in Desks, NEW e \in shown'[c]
        PROVE  /\ \E q \in shown[c] : q.id = e.id
               /\ e.st \in {"queued", "checking"} => e \in shown[c] /\ (c # d \/ e.id # f.id)
    <3>1. \/ e \in shown[c] /\ (c # d \/ e.id # f.id)
          \/ c = d /\ e.st = "error" /\ e.id = f.id /\ \E q \in shown[d] : q.id = f.id
      BY <1>0, <2>1, <2>2, SettledEntries
    <3> QED BY <3>1
  <2>3. ASSUME NEW c \in Desks, NEW e \in shown'[c], e.st = "checking" PROVE e.id # f.id
    BY <2>2, <2>3 DEF PlaceInv, OneEntry
  <2> QED BY <2>1, <2>2, <2>3, ListPlaces
<1>6. CASE ScreenUpdates(d)
  <2>1. CASE UNCHANGED <<wire, shown>>
    BY <1>1, <1>6, <2>1 DEF ScreenUpdates, checkVars
  <2>2. CASE Replay(d)
    <3>1. UNCHANGED <<gate, serving, answers>>
      BY <1>6 DEF ScreenUpdates, checkVars
    <3> DEFINE Sent == Queued(d)
    <3>2. \A c \in Desks : \A e \in shown'[c] :
            \/ e \in shown[c] /\ (c # d \/ e.st # "queued")
            \/ c = d /\ e.st = "checking" /\ \E f \in Sent : f.id = e.id
      BY <1>0, <2>2, ReplayedEntries
    <3>3. \A e \in Sent : \E r \in wire' : r.id = e.id
      BY <1>0, <2>2, ReplayedEntries DEF Ask
    <3>4. \A r \in wire' : r \in wire \/ \E e \in Sent : r = Ask(e.id, desk[d].event)
      BY <1>0, <2>2, ReplayedEntries
    <3>5. wire \subseteq wire'
      BY <1>0, <2>2, ReplayedEntries
    <3>6. \A e \in Sent : e \in shown[d] /\ e.st = "queued"
      BY DEF Queued
    <3> HIDE DEF Sent
    <3>7. \A c \in Desks : \A e \in shown'[c] : \E f \in shown[c] : f.id = e.id
      BY <3>2, <3>6
    <3>8. OneEntry'
      BY <3>7 DEF PlaceInv, OneEntry
    <3>9. \A i, e : Ask(i, e).id = i
      BY DEF Ask
    <3>10. \A r \in wire' : r \in wire \/ \E e \in Sent : r.id = e.id
      BY <3>4, <3>9
    <3>11. \A r, s \in wire' : r.id = s.id => r = s
      <4> SUFFICES ASSUME NEW r \in wire', NEW s \in wire', r.id = s.id PROVE r = s
        OBVIOUS
      <4>1. CASE r \in wire /\ s \in wire
        BY <4>1 DEF PlaceInv, OnePlace
      <4>2. CASE r \notin wire /\ s \notin wire
        <5>1. PICK e \in Sent : r = Ask(e.id, desk[d].event)
          BY <3>4, <4>2
        <5>2. PICK f \in Sent : s = Ask(f.id, desk[d].event)
          BY <3>4, <4>2
        <5> QED BY <3>9, <5>1, <5>2
      <4>3. CASE (r \in wire) # (s \in wire)
        BY <3>6, <3>10, <4>3 DEF PlaceInv, OnePlace
      <4> QED BY <4>1, <4>2, <4>3
    <3>12. \A c \in Desks : \A e \in shown'[c] : e.st = "queued" =>
             (\A r \in wire' : r.id # e.id) /\ (\A g \in Gates : ~AtLock(g, e.id))
      <4> SUFFICES ASSUME NEW c \in Desks, NEW e \in shown'[c], e.st = "queued"
                   PROVE  (\A r \in wire' : r.id # e.id) /\ (\A g \in Gates : ~AtLock(g, e.id))
        OBVIOUS
      <4>1. e \in shown[c] /\ c # d
        BY <3>2
      <4>2. \A f \in Sent : f.id # e.id
        BY <3>6, <4>1 DEF PlaceInv, OneEntry
      <4> QED BY <3>10, <4>1, <4>2 DEF PlaceInv, OnePlace
    <3>13. OnePlace'
      BY <3>1, <3>6, <3>10, <3>11, <3>12 DEF PlaceInv, OnePlace, AtLock
    <3>14. NoEndlessCheck'
      BY <3>1, <3>2, <3>3, <3>5 DEF PlaceInv, NoEndlessCheck
    <3> QED BY <3>8, <3>13, <3>14 DEF PlaceInv
  <2> QED BY <1>6, <2>1, <2>2 DEF ScreenUpdates
<1>7. ASSUME NEW t \in Tickets, Submit(d, t) PROVE PlaceInv'
  <2> DEFINE i == Len(token) + 1
  <2>1. /\ \A c \in Desks : \A e \in shown[c] : e.id # i
        /\ \A r \in wire : r.id # i
        /\ \A g \in Gates : serving[g] # i
    BY <1>0, <1>7, SubmittedEntries
  <2>2. UNCHANGED <<gate, serving, answers>> /\ wire \subseteq wire'
    BY <1>0, <1>7, SubmittedEntries
  <2>3. \A r \in wire' : r \in wire \/ (r.id = i /\ r = Ask(i, desk[d].event))
    BY <1>0, <1>7, SubmittedEntries DEF Ask
  <2>4. \A c \in Desks : \A e \in shown'[c] :
          \/ e \in shown[c]
          \/ /\ c = d /\ e.id = i
             /\ \/ e.st = "checking" /\ \E r \in wire' : r.id = i
                \/ e.st = "queued" /\ wire' = wire
    BY <1>0, <1>7, SubmittedEntries
  <2> HIDE DEF i
  <2>5. OneEntry'
    BY <2>1, <2>4 DEF PlaceInv, OneEntry
  <2>6. \A r, s \in wire' : r.id = s.id => r = s
    BY <2>1, <2>3 DEF PlaceInv, OnePlace
  <2>7. \A c \in Desks : \A e \in shown'[c] : e.st = "queued" =>
          (\A r \in wire' : r.id # e.id) /\ (\A g \in Gates : ~AtLock(g, e.id))
    BY <2>1, <2>3, <2>4 DEF PlaceInv, OnePlace, AtLock
  <2>8. OnePlace'
    BY <2>1, <2>2, <2>3, <2>6, <2>7 DEF PlaceInv, OnePlace, AtLock
  <2>9. NoEndlessCheck'
    BY <2>2, <2>4 DEF PlaceInv, NoEndlessCheck
  <2> QED BY <2>5, <2>8, <2>9 DEF PlaceInv
<1> QED BY <1>2, <1>3, <1>4, <1>5, <1>6, <1>7 DEF DeskStep

LEMMA Phases ==
  /\ \A t : Waiting(t).phase = "lock" /\ Admitting(t).phase = "bump"
  /\ NoRequest.phase = "idle"
  BY DEF Waiting, Admitting, NoRequest

(* A gate that answers is done with its scan; the answer is on its way.    *)
LEMMA ReplyPlaces ==
  ASSUME DeskInv, PlaceInv, NEW g \in Gates, NEW what, Replied(g, what),
         gate' = [gate EXCEPT ![g] = NoRequest], UNCHANGED <<shown, wire, serving>>
  PROVE  PlaceInv'
<1>1. /\ gate'[g] = NoRequest /\ \A h \in Gates \ {g} : gate'[h] = gate[h]
      /\ answers \subseteq answers' /\ \E a \in answers' : a.id = serving[g]
  <2>1. Answer(serving[g], what) \in answers' /\ Answer(serving[g], what).id = serving[g]
    BY DEF Replied, Answer
  <2> QED BY <2>1 DEF DeskInv, DeskTypeOK, CheckTypeOK, Replied
<1>2. OneEntry' /\ OnePlace'
  BY <1>1, Phases DEF PlaceInv, OneEntry, OnePlace, AtLock
<1>3. NoEndlessCheck'
  BY <1>1 DEF PlaceInv, NoEndlessCheck
<1> QED BY <1>2, <1>3 DEF PlaceInv

LEMMA ServerPlaces ==
  ASSUME DeskInv, PlaceInv, NEW g \in Gates, ServerStep(g)
  PROVE  PlaceInv'
<1>0. DeskTypeOK /\ CheckTypeOK
  BY DEF DeskInv, DeskTypeOK
<1>1. ASSUME NEW r \in wire, Arrive(g, r) PROVE PlaceInv'
  <2>1. gate[g] = NoRequest /\ wire' = wire \ {r} /\ shown' = shown
    BY <1>1 DEF Arrive, Scan
  <2>2. \A s \in wire : s # r => s \in wire' /\ s.id # r.id
    BY <2>1 DEF PlaceInv, OnePlace
  <2>3. CASE FirstLook(g, token[r.id]) = "allowed"
    <3>1. /\ gate' = [gate EXCEPT ![g] = Waiting(token[r.id])]
          /\ serving' = [serving EXCEPT ![g] = r.id] /\ UNCHANGED answers
      BY <1>1, <2>3 DEF Arrive, Scan
    <3>2. /\ gate'[g].phase = "lock" /\ gate'[g] # NoRequest /\ serving'[g] = r.id
          /\ \A h \in Gates \ {g} : gate'[h] = gate[h] /\ serving'[h] = serving[h]
      BY <1>0, <3>1, Phases DEF DeskTypeOK, CheckTypeOK
    <3>3. \A h \in Gates : AtLock(h, r.id) => FALSE
      BY DEF PlaceInv, OnePlace
    <3>4. \A d \in Desks : \A e \in shown[d] : e.st = "queued" => e.id # r.id
      BY DEF PlaceInv, OnePlace
    <3>5. OneEntry'
      BY <2>1 DEF PlaceInv, OneEntry
    <3>6. \A d \in Desks : \A e \in shown[d] : e.st = "queued" =>
            (\A s \in wire' : s.id # e.id) /\ (\A h \in Gates : ~AtLock(h, e.id)')
      BY <2>1, <3>2, <3>4 DEF PlaceInv, OnePlace, AtLock
    <3>7. \A s \in wire' : \A h \in Gates : ~AtLock(h, s.id)'
      BY <2>1, <2>2, <3>2 DEF PlaceInv, OnePlace, AtLock
    <3>8. \A h, k \in Gates : AtLock(h, serving[h])' /\ AtLock(k, serving[h])' => h = k
      BY <3>2, <3>3 DEF PlaceInv, OnePlace, AtLock
    <3>9. OnePlace'
      BY <2>1, <3>6, <3>7, <3>8 DEF PlaceInv, OnePlace, AtLock
    <3>10. NoEndlessCheck'
      BY <2>1, <2>2, <3>1, <3>2 DEF PlaceInv, NoEndlessCheck
    <3> QED BY <3>5, <3>9, <3>10 DEF PlaceInv
  <2>4. CASE FirstLook(g, token[r.id]) # "allowed"
    <3>1. UNCHANGED <<gate, serving>> /\ answers' = answers \cup {Answer(r.id, "denied")}
      BY <1>1, <2>4 DEF Arrive, Scan
    <3>2. answers \subseteq answers' /\ \E a \in answers' : a.id = r.id
      <4>1. Answer(r.id, "denied") \in answers' /\ Answer(r.id, "denied").id = r.id
        BY <3>1 DEF Answer
      <4> QED BY <3>1, <4>1
    <3>3. OneEntry' /\ OnePlace'
      BY <2>1, <3>1 DEF PlaceInv, OneEntry, OnePlace, AtLock
    <3>4. NoEndlessCheck'
      BY <2>1, <2>2, <3>1, <3>2 DEF PlaceInv, NoEndlessCheck
    <3> QED BY <3>3, <3>4 DEF PlaceInv
  <2> QED BY <2>3, <2>4
<1>2. ASSUME NEW t \in Tickets, Decide(g, t) PROVE PlaceInv'
  <2>1. UNCHANGED <<shown, wire, serving>>
    BY <1>2 DEF Decide
  <2>2. CASE status[t] = "active"
    <3>1. gate' = [gate EXCEPT ![g] = Admitting(t)] /\ UNCHANGED answers
      BY <1>2, <2>2 DEF Decide, AdmitUnderLock
    <3>2. /\ gate'[g] = Admitting(t) /\ gate'[g].phase = "bump" /\ gate'[g] # NoRequest
          /\ \A h \in Gates \ {g} : gate'[h] = gate[h]
      BY <1>0, <3>1, Phases DEF CheckTypeOK
    <3>3. OneEntry' /\ OnePlace'
      BY <2>1, <3>2 DEF PlaceInv, OneEntry, OnePlace, AtLock
    <3>4. NoEndlessCheck'
      BY <2>1, <3>1, <3>2 DEF PlaceInv, NoEndlessCheck
    <3> QED BY <3>3, <3>4 DEF PlaceInv
  <2>3. CASE status[t] # "active"
    BY <1>2, <2>1, <2>3, ReplyPlaces DEF Decide, AdmitUnderLock
  <2> QED BY <2>2, <2>3
<1>3. ASSUME NEW t \in Tickets, Admitted(g, t) PROVE PlaceInv'
  BY <1>3, ReplyPlaces DEF Admitted, BumpAttendance
<1>4. CASE RequestFails(g)
  BY <1>4, ReplyPlaces DEF RequestFails, GateFails
<1> QED BY <1>1, <1>2, <1>3, <1>4 DEF ServerStep

LEMMA PlacesNext ==
  ASSUME DeskInv, PlaceInv, [DeskNext]_vars
  PROVE  PlaceInv'
<1>1. CASE Elsewhere \/ UNCHANGED vars
  <2>1. UNCHANGED <<gate, serving, shown, wire, answers>>
    BY <1>1 DEF Elsewhere, CheckTick, VoidTickets, deskVars, vars, checkVars
  <2> QED BY <2>1, ListPlaces
<1> QED BY <1>1, DeskPlaces, ServerPlaces DEF DeskNext

LEMMA PlacesHold == DeskSpec => [](CheckInv /\ DeskInv /\ PlaceInv)
<1>1. DeskInit => PlaceInv
  <2> SUFFICES ASSUME DeskInit PROVE PlaceInv
    OBVIOUS
  <2>1. \A g \in Gates : gate[g].phase = "idle"
    BY Phases DEF DeskInit, CheckInit
  <2> QED BY <2>1 DEF DeskInit, PlaceInv, OneEntry, OnePlace, NoEndlessCheck, AtLock
<1> QED BY <1>1, DesksAndGate, PlacesNext, PTL DEF DeskSpec

(* An entry that says "Checking..." is waited for with reason: its request *)
(* is on the wire, with a gate, or answered, through offline spells,       *)
(* replays, failed calls and answers to scans of other desks.              *)
THEOREM ChecksAreAlive == DeskSpec => []NoEndlessCheck
<1>1. CheckInv /\ DeskInv /\ PlaceInv => NoEndlessCheck
  BY DEF PlaceInv
<1> QED BY <1>1, PlacesHold, PTL

-----------------------------------------------------------------------------
(* The trail.  A scan is undecided while it is in a queue, on the wire, or *)
(* at the lock; its row is written in the step that takes it from the last *)
(* of these places, and no step takes it back to one.                      *)
Undecided(i) ==
  \/ \E d \in Desks : \E e \in shown[d] : e.st = "queued" /\ e.id = i
  \/ \E r \in wire : r.id = i
  \/ \E g \in Gates : AtLock(g, i)

Decided(t) == {i \in 1 .. Len(token) : token[i] = t /\ ~Undecided(i)}

RowsInv == \A t \in Tickets : Rows(t) <= Cardinality(Decided(t))

LEMMA TrailKeys == CheckInConstants => IsFiniteSet(Events \X Results)
<1>1. \A x, y : IsFiniteSet({x} \cup {y})
  BY FS_Singleton, FS_Union
<1>2. \A x, y, u, v : IsFiniteSet(({x} \cup {y}) \cup ({u} \cup {v}))
  BY <1>1, FS_Union
<1>3. IsFiniteSet((({"allowed"} \cup {"wrong_event"}) \cup ({"already_used"} \cup {"not_active"}))
                  \cup {"out_of_window"})
  BY <1>2, FS_Singleton, FS_Union
<1>4. Results = (({"allowed"} \cup {"wrong_event"}) \cup ({"already_used"} \cup {"not_active"}))
                  \cup {"out_of_window"}
  BY DEF Results
<1>5. IsFiniteSet(Results)
  BY <1>3, <1>4
<1> QED BY <1>5, FS_Product DEF CheckInConstants

(* A row that is recorded adds one to the rows of its ticket.              *)
LEMMA RowsOfRecord ==
  ASSUME CheckInConstants, CheckTypeOK, NEW g \in Gates, NEW t \in Tickets,
         NEW result \in Results, Record(g, t, result), NEW u \in Tickets
  PROVE  Rows(u) \in Nat /\ Rows(u)' = IF u = t THEN Rows(u) + 1 ELSE Rows(u)
<1> DEFINE Keys == Events \X Results
           row == [r \in Keys |-> log[<<u, r[1], r[2]>>]]
           row1 == [r \in Keys |-> log'[<<u, r[1], r[2]>>]]
           key == <<GateEvent[g], result>>
<1>1. IsFiniteSet(Keys) /\ key \in Keys
  BY TrailKeys DEF CheckInConstants
<1>2. ASSUME NEW r \in Keys
      PROVE  /\ <<u, r[1], r[2]>> \in Tickets \X Events \X Results
             /\ log'[<<u, r[1], r[2]>>] = IF u = t /\ r = key THEN log[<<u, r[1], r[2]>>] + 1
                                          ELSE log[<<u, r[1], r[2]>>]
  <2>1. <<u, r[1], r[2]>> \in Tickets \X Events \X Results
    OBVIOUS
  <2>2. <<u, r[1], r[2]>> = <<t, GateEvent[g], result>> <=> u = t /\ r = key
    OBVIOUS
  <2> QED BY <2>1, <2>2 DEF Record, CheckTypeOK
<1>3. /\ \A r \in Keys : row[r] \in Nat
      /\ \A r \in Keys : row1[r] = IF u = t /\ r = key THEN row[r] + 1 ELSE row[r]
  BY <1>2 DEF CheckTypeOK
<1>4. Rows(u) = SumFunctionOnSet(row, Keys) /\ Rows(u)' = SumFunctionOnSet(row1, Keys)
  BY DEF Rows
<1> HIDE DEF row, row1, Keys, key
<1>5. SumFunctionOnSet(row, Keys) \in Nat
  BY <1>1, <1>3, SumNat
<1>6. CASE u # t
  BY <1>1, <1>3, <1>4, <1>5, <1>6, SumEqual
<1>7. CASE u = t
  <2>1. SumFunctionOnSet(row1, Keys) = SumFunctionOnSet(row, Keys) - row[key] + row1[key]
    <3>1. \A r \in Keys : row[r] \in Int /\ row1[r] \in Int
      BY <1>3
    <3>2. \A r \in Keys \ {key} : row[r] = row1[r]
      BY <1>3
    <3> QED BY <1>1, <3>1, <3>2, SumChange
  <2> QED BY <1>1, <1>3, <1>4, <1>5, <1>7, <2>1
<1> QED BY <1>6, <1>7

LEMMA ScansFinite ==
  ASSUME DeskTypeOK, NEW t
  PROVE  /\ IsFiniteSet(Decided(t)) /\ Cardinality(Decided(t)) \in Nat
         /\ Cardinality(Decided(t)) <= Cardinality({i \in DOMAIN token : token[i] = t})
         /\ Cardinality({i \in DOMAIN token : token[i] = t}) \in Nat
<1>1. DOMAIN token = 1 .. Len(token) /\ Len(token) \in Nat
  BY DEF DeskTypeOK
<1>2. IsFiniteSet(1 .. Len(token))
  BY <1>1, FS_Interval
<1>3. IsFiniteSet({i \in DOMAIN token : token[i] = t})
  BY <1>1, <1>2, FS_Subset
<1>4. Decided(t) \subseteq {i \in DOMAIN token : token[i] = t}
  BY <1>1 DEF Decided
<1> QED BY <1>3, <1>4, FS_Subset, FS_CardinalityType

LEMMA RowsNat ==
  ASSUME CheckInConstants, CheckTypeOK, NEW t \in Tickets
  PROVE  Rows(t) \in Nat
<1> DEFINE Keys == Events \X Results
           row == [r \in Keys |-> log[<<t, r[1], r[2]>>]]
<1>1. \A r \in Keys : row[r] \in Nat
  BY DEF CheckTypeOK
<1>2. IsFiniteSet(Keys)
  BY TrailKeys
<1> HIDE DEF row, Keys
<1>3. SumFunctionOnSet(row, Keys) \in Nat
  BY <1>1, <1>2, SumNat
<1> QED BY <1>3 DEF Rows, row, Keys

(* Steps that write no row and make no scan undecided again.               *)
LEMMA NoRow ==
  ASSUME CheckInConstants, DeskTypeOK, DeskTypeOK', RowsInv, log' = log,
         Len(token) <= Len(token'),
         \A i \in 1 .. Len(token) : token'[i] = token[i] /\ (Undecided(i)' => Undecided(i))
  PROVE  RowsInv'
<1> SUFFICES ASSUME NEW t \in Tickets PROVE Rows(t)' <= Cardinality(Decided(t)')
  BY DEF RowsInv
<1>1. Len(token) \in Nat /\ Len(token') \in Nat
  BY DEF DeskTypeOK
<1>2. 1 .. Len(token) \subseteq 1 .. Len(token')
  BY <1>1
<1>3. Decided(t) \subseteq Decided(t)'
  BY <1>2 DEF Decided
<1>4. Decided(t)' \subseteq 1 .. Len(token') /\ IsFiniteSet(1 .. Len(token'))
  BY <1>1, FS_Interval DEF Decided
<1>5. IsFiniteSet(Decided(t)') /\ Cardinality(Decided(t)') \in Nat
  BY <1>4, FS_Subset, FS_CardinalityType
<1>6. Cardinality(Decided(t)) <= Cardinality(Decided(t)') /\ Cardinality(Decided(t)) \in Nat
  BY <1>3, <1>5, FS_Subset, FS_CardinalityType
<1>7. Rows(t)' = Rows(t) /\ Rows(t) \in Nat
  BY RowsNat DEF Rows, DeskTypeOK
<1>8. Rows(t) <= Cardinality(Decided(t))
  BY DEF RowsInv
<1> QED BY <1>5, <1>6, <1>7, <1>8

(* The step that decides a scan writes its row.                            *)
LEMMA OneRow ==
  ASSUME CheckInConstants, DeskTypeOK, RowsInv, NEW g \in Gates, NEW i \in 1 .. Len(token),
         NEW result \in Results, Record(g, token[i], result), token' = token,
         Undecided(i), ~Undecided(i)', \A j \in 1 .. Len(token) : Undecided(j)' => Undecided(j)
  PROVE  RowsInv'
<1> SUFFICES ASSUME NEW u \in Tickets PROVE Rows(u)' <= Cardinality(Decided(u)')
  BY DEF RowsInv
<1>0. token \in Seq(Tickets) /\ CheckTypeOK /\ i \in 1 .. Len(token)
  BY DEF DeskTypeOK
<1>1. token[i] \in Tickets /\ Len(token) \in Nat /\ CheckTypeOK
  BY ONLY <1>0
<1>2. Rows(u) \in Nat /\ Rows(u)' = IF u = token[i] THEN Rows(u) + 1 ELSE Rows(u)
  BY <1>1, RowsOfRecord
<1>3. Rows(u) <= Cardinality(Decided(u))
  BY DEF RowsInv
<1>4. IsFiniteSet(1 .. Len(token)) /\ Decided(u) \subseteq 1 .. Len(token)
      /\ Decided(u)' \subseteq 1 .. Len(token)
  <2>1. Decided(u) \subseteq 1 .. Len(token) /\ Decided(u)' \subseteq 1 .. Len(token)
    BY DEF Decided
  <2>2. IsFiniteSet(1 .. Len(token))
    BY <1>1, FS_Interval
  <2> QED BY <2>1, <2>2
<1>5. /\ IsFiniteSet(Decided(u)) /\ Cardinality(Decided(u)) \in Nat
      /\ IsFiniteSet(Decided(u)') /\ Cardinality(Decided(u)') \in Nat
  BY <1>4, FS_Subset, FS_CardinalityType
<1>6. Decided(u) \subseteq Decided(u)' /\ Cardinality(Decided(u)) <= Cardinality(Decided(u)')
  <2>1. Decided(u) \subseteq Decided(u)'
    BY DEF Decided
  <2> QED BY <1>5, <2>1, FS_Subset
<1>7. CASE u = token[i]
  <2>1. i \notin Decided(u) /\ Decided(u) \cup {i} \subseteq Decided(u)'
    BY <1>6, <1>7 DEF Decided
  <2>2. Cardinality(Decided(u) \cup {i}) = Cardinality(Decided(u)) + 1
    BY <1>5, <2>1, FS_AddElement
  <2>3. Cardinality(Decided(u) \cup {i}) <= Cardinality(Decided(u)')
    BY <1>5, <2>1, FS_Subset
  <2> QED BY <1>2, <1>3, <1>5, <1>7, <2>2, <2>3
<1>8. CASE u # token[i]
  BY <1>2, <1>3, <1>5, <1>6, <1>8
<1> QED BY <1>7, <1>8

(* A desk decides nothing: it may only take a scan out of its queue.       *)
LEMMA DeskRows ==
  ASSUME CheckInConstants, DeskInv, DeskTypeOK', PlaceInv, RowsInv, NEW d \in Desks, DeskStep(d)
  PROVE  RowsInv'
<1>0. DeskTypeOK /\ Len(token) \in Nat /\ log' = log
  <2>1. UNCHANGED checkVars
    BY DeskStepGate
  <2>2. DeskTypeOK
    BY DEF DeskInv
  <2>3. Len(token) \in Nat
    BY <2>2 DEF DeskTypeOK
  <2> QED BY <2>1, <2>2, <2>3 DEF checkVars
<1>1. ASSUME UNCHANGED <<gate, serving, token>>, wire' \subseteq wire,
             \A c \in Desks : \A e \in shown'[c] : e.st = "queued" => e \in shown[c]
      PROVE  RowsInv'
  <2>1. \A i : Undecided(i)' => Undecided(i)
    BY <1>1 DEF Undecided, AtLock
  <2> QED BY <1>0, <1>1, <2>1, NoRow
<1>2. CASE NetFlips(d) \/ \E e \in Events : PickEvent(d, e)
  BY <1>1, <1>2 DEF NetFlips, PickEvent, checkVars, askVars
<1>3. CASE Reload(d)
  <2>1. \A c \in Desks : shown'[c] \subseteq shown[c]
    BY <1>0, <1>3 DEF Reload, DeskTypeOK
  <2> QED BY <1>1, <1>3, <2>1 DEF Reload, checkVars, askVars
<1>4. ASSUME NEW a \in answers, TakeAnswer(d, a) PROVE RowsInv'
  <2>1. Settles(d, a.id, a.what) /\ UNCHANGED <<gate, serving, wire, token>>
    BY <1>4 DEF TakeAnswer, checkVars, Settles
  <2>2. a.what # "queued"
    BY <1>0 DEF DeskTypeOK
  <2>3. \A c \in Desks : \A e \in shown'[c] : e.st = "queued" => e \in shown[c]
    BY <1>0, <2>1, <2>2, SettledEntries
  <2> QED BY <1>1, <2>1, <2>3
<1>5. ASSUME NEW f \in shown[d], CallFails(d, f) PROVE RowsInv'
  <2>1. Settles(d, f.id, "error") /\ UNCHANGED <<gate, serving, token>> /\ wire' \subseteq wire
    BY <1>5 DEF CallFails, checkVars, Settles
  <2>2. \A c \in Desks : \A e \in shown'[c] : e.st = "queued" => e \in shown[c]
    BY <1>0, <2>1, SettledEntries
  <2> QED BY <1>1, <2>1, <2>2
<1>6. CASE ScreenUpdates(d)
  <2>1. CASE UNCHANGED <<wire, shown>>
    BY <1>1, <1>6, <2>1 DEF ScreenUpdates, checkVars
  <2>2. CASE Replay(d)
    <3>1. \A c \in Desks : \A e \in shown'[c] : e.st = "queued" => e \in shown[c]
      BY <1>0, <2>2, ReplayedEntries
    <3>2. \A r \in wire' : r \in wire \/ \E e \in shown[d] : e.st = "queued" /\ e.id = r.id
      <4>1. DeskTypeOK /\ Replay(d)
        BY <1>0, <2>2
      <4> QED BY ONLY <4>1, ReplayedEntries DEF Ask, Queued
    <3>3. UNCHANGED <<gate, serving, token>>
      BY <1>6 DEF ScreenUpdates, checkVars
    <3>4. \A i : Undecided(i)' => Undecided(i)
      BY <3>1, <3>2, <3>3 DEF Undecided, AtLock
    <3> QED BY <1>0, <3>3, <3>4, NoRow
  <2> QED BY <1>6, <2>1, <2>2 DEF ScreenUpdates
<1>7. ASSUME NEW t \in Tickets, Submit(d, t) PROVE RowsInv'
  <2> DEFINE i == Len(token) + 1
  <2>1. /\ Len(token') = i /\ \A j \in 1 .. Len(token) : token'[j] = token[j]
        /\ UNCHANGED <<gate, serving>>
    BY <1>0, <1>7, SubmittedEntries
  <2>2. \A r \in wire' : r \in wire \/ r.id = i
    BY <1>0, <1>7, SubmittedEntries DEF Ask
  <2>3. \A c \in Desks : \A e \in shown'[c] : e \in shown[c] \/ e.id = i
    BY <1>0, <1>7, SubmittedEntries
  <2>4. i \notin 1 .. Len(token) /\ Len(token) <= i
    BY <1>0
  <2> HIDE DEF i
  <2>5. \A j \in 1 .. Len(token) : Undecided(j)' => Undecided(j)
    BY <2>1, <2>2, <2>3, <2>4 DEF Undecided, AtLock
  <2> QED BY <1>0, <2>1, <2>4, <2>5, NoRow
<1> QED BY <1>2, <1>3, <1>4, <1>5, <1>6, <1>7 DEF DeskStep

LEMMA ServerRows ==
  ASSUME CheckInConstants, DeskInv, DeskTypeOK', PlaceInv, RowsInv, NEW g \in Gates, ServerStep(g)
  PROVE  RowsInv'
<1>0. DeskTypeOK /\ CheckTypeOK
  BY DEF DeskInv, DeskTypeOK
<1>1. Len(token) \in Nat
  BY <1>0 DEF DeskTypeOK
<1>2. token' = token
  BY DEF ServerStep, Arrive, Decide, Admitted, RequestFails
<1>3. ASSUME NEW r \in wire, Arrive(g, r) PROVE RowsInv'
  <2>1. /\ r.id \in 1 .. Len(token) /\ token[r.id] \in Tickets
        /\ wire' = wire \ {r} /\ UNCHANGED shown
    BY <1>0, <1>3 DEF Arrive, DeskTypeOK
  <2>2. \A s \in wire' : s \in wire /\ s.id # r.id
    BY <2>1 DEF PlaceInv, OnePlace
  <2>3. CASE FirstLook(g, token[r.id]) = "allowed"
    <3>1. /\ gate' = [gate EXCEPT ![g] = Waiting(token[r.id])]
          /\ serving' = [serving EXCEPT ![g] = r.id] /\ UNCHANGED log
      BY <1>3, <2>3 DEF Arrive, Scan
    <3>2. /\ serving'[g] = r.id
          /\ \A h \in Gates \ {g} : gate'[h] = gate[h] /\ serving'[h] = serving[h]
      BY <1>0, <3>1 DEF DeskTypeOK, CheckTypeOK
    <3>3. \A j : Undecided(j)' => Undecided(j)
      BY <2>1, <2>2, <3>2 DEF Undecided, AtLock
    <3> QED BY <1>0, <1>1, <1>2, <3>1, <3>3, NoRow
  <2>4. CASE FirstLook(g, token[r.id]) # "allowed"
    <3>1. UNCHANGED <<gate, serving>> /\ Record(g, token[r.id], FirstLook(g, token[r.id]))
      BY <1>3, <2>4 DEF Arrive, Scan
    <3>2. FirstLook(g, token[r.id]) \in Results
      BY <1>0, <2>1, FirstLookType
    <3>3. Undecided(r.id) /\ \A j : Undecided(j)' => Undecided(j)
      BY <2>1, <2>2, <3>1 DEF Undecided, AtLock
    <3>4. ~Undecided(r.id)'
      BY <2>1, <2>2, <3>1 DEF Undecided, AtLock, PlaceInv, OnePlace
    <3> QED BY <1>0, <1>2, <2>1, <3>1, <3>2, <3>3, <3>4, OneRow
  <2> QED BY <2>3, <2>4
<1>4. ASSUME NEW t \in Tickets, Decide(g, t) PROVE RowsInv'
  <2> DEFINE result == IF status[t] = "active" THEN "allowed"
                       ELSE IF status[t] = "used" THEN "already_used" ELSE "not_active"
  <2>0. gate[g] = Waiting(t)
    BY <1>4 DEF Decide, AdmitUnderLock
  <2>2. PICK i \in 1 .. Len(token) : i = serving[g] /\ token[i] = t
    <3>1. serving[g] # NoScan /\ token[serving[g]] = t
      BY <2>0 DEF DeskInv, RequestsKnown
    <3>2. serving[g] \in 0 .. Len(token)
      BY <1>0 DEF DeskTypeOK
    <3>3. serving[g] \in 1 .. Len(token)
      BY <1>1, <3>1, <3>2 DEF NoScan
    <3> QED BY <3>1, <3>3
  <2>1. AtLock(g, i) /\ UNCHANGED <<shown, wire, serving>>
    BY <1>4, <2>0, <2>2, Phases DEF Decide, AtLock
  <2>3. Record(g, t, result) /\ result \in Results
    BY <1>4 DEF Decide, AdmitUnderLock, Results
  <2>4. PICK x : x.phase # "lock" /\ gate' = [gate EXCEPT ![g] = x]
    BY <1>4, Phases DEF Decide, AdmitUnderLock
  <2>5. gate'[g].phase # "lock" /\ \A h \in Gates \ {g} : gate'[h] = gate[h]
    BY <1>0, <2>4 DEF CheckTypeOK
  <2>6. Undecided(i)
    BY <2>1 DEF Undecided
  <2>7. \A j : Undecided(j)' => Undecided(j)
    BY <2>1, <2>5 DEF Undecided, AtLock
  <2>8. ~Undecided(i)'
    <3>1. (\A d \in Desks : \A e \in shown[d] : ~(e.st = "queued" /\ e.id = i))
          /\ \A r \in wire : r.id # i
      BY <2>1 DEF PlaceInv, OnePlace
    <3>2. \A h \in Gates : AtLock(h, i) => h = g
      BY <2>1, <2>2 DEF PlaceInv, OnePlace
    <3>3. \A h \in Gates : ~AtLock(h, i)'
      BY <2>1, <2>5, <3>2 DEF AtLock
    <3> QED BY <2>1, <3>1, <3>3 DEF Undecided
  <2> HIDE DEF result
  <2>9. Record(g, token[i], result)
    BY <2>2, <2>3
  <2>10. \A j \in 1 .. Len(token) : Undecided(j)' => Undecided(j)
    BY <2>7
  <2> QED BY <1>0, <1>2, <2>2, <2>3, <2>6, <2>8, <2>9, <2>10, OneRow
<1>5. CASE RequestFails(g) \/ \E t \in Tickets : Admitted(g, t)
  <2>1. gate' = [gate EXCEPT ![g] = NoRequest] /\ UNCHANGED <<shown, wire, serving, log>>
    BY <1>5 DEF RequestFails, GateFails, Admitted, BumpAttendance
  <2>2. gate'[g].phase # "lock" /\ \A h \in Gates \ {g} : gate'[h] = gate[h]
    BY <1>0, <2>1, Phases DEF CheckTypeOK
  <2>3. \A j : Undecided(j)' => Undecided(j)
    BY <2>1, <2>2 DEF Undecided, AtLock
  <2> QED BY <1>0, <1>1, <1>2, <2>1, <2>3, NoRow
<1> QED BY <1>3, <1>4, <1>5 DEF ServerStep

LEMMA RowsNext ==
  ASSUME CheckInConstants, DeskInv, DeskInv', PlaceInv, RowsInv, [DeskNext]_vars
  PROVE  RowsInv'
<1>1. DeskTypeOK /\ DeskTypeOK' /\ Len(token) \in Nat
  <2>1. DeskTypeOK /\ DeskTypeOK'
    BY DEF DeskInv
  <2>2. Len(token) \in Nat
    BY <2>1 DEF DeskTypeOK
  <2> QED BY <2>1, <2>2
<1>2. CASE Elsewhere \/ UNCHANGED vars
  <2>1. UNCHANGED <<gate, serving, shown, wire, token, log>>
    BY <1>2 DEF Elsewhere, CheckTick, VoidTickets, deskVars, vars, checkVars
  <2>2. \A j : Undecided(j)' => Undecided(j)
    BY <2>1 DEF Undecided, AtLock
  <2> QED BY <1>1, <2>1, <2>2, NoRow
<1> QED BY <1>1, <1>2, DeskRows, ServerRows DEF DeskNext

(* The trail is "one row per scan that reached a real ticket": queue,      *)
(* replay, lost requests and gates that die may leave a scan without its   *)
(* row, and never write a second one, whatever the number of desks.        *)
THEOREM TrailCountsScans == DeskSpec => []OneRowPerScan
<1>1. DeskInit /\ CheckInv /\ DeskInv => RowsInv
  <2> SUFFICES ASSUME DeskInit, CheckInv, DeskInv, NEW t \in Tickets
               PROVE  Rows(t) <= Cardinality(Decided(t))
    BY DEF RowsInv
  <2> DEFINE Keys == Events \X Results
             row == [r \in Keys |-> log[<<t, r[1], r[2]>>]]
  <2>1. \A r \in Keys : row[r] = 0
    BY DEF DeskInit, CheckInit
  <2>2. IsFiniteSet(Keys)
    BY TrailKeys, CheckInConstants
  <2> HIDE DEF row, Keys
  <2>3. SumFunctionOnSet(row, Keys) = 0
    BY <2>1, <2>2, SumZero
  <2>4. Rows(t) = 0
    BY <2>3 DEF Rows, row, Keys
  <2>5. Cardinality(Decided(t)) \in Nat
    BY ScansFinite DEF DeskInv
  <2> QED BY <2>4, <2>5
<1>2. CheckInv /\ DeskInv /\ PlaceInv /\ RowsInv /\ DeskInv' /\ [DeskNext]_vars => RowsInv'
  BY CheckInConstants, RowsNext
<1>3. DeskSpec => [](DeskInv /\ RowsInv)
  BY <1>1, <1>2, PlacesHold, PTL DEF DeskSpec
<1>4. DeskInv /\ RowsInv => OneRowPerScan
  <2> SUFFICES ASSUME DeskInv, RowsInv, NEW t \in Tickets
               PROVE  Rows(t) <= Cardinality({i \in DOMAIN token : token[i] = t})
    BY DEF OneRowPerScan
  <2>1. DeskTypeOK /\ CheckTypeOK
    BY DEF DeskInv, DeskTypeOK
  <2>2. Rows(t) \in Nat /\ Rows(t) <= Cardinality(Decided(t))
    BY <2>1, RowsNat, CheckInConstants DEF RowsInv
  <2> QED BY <2>1, <2>2, ScansFinite
<1> QED BY <1>3, <1>4, PTL
=============================================================================
