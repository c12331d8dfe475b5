------------------------------ MODULE ScanDesk ------------------------------
(***************************************************************************)
(* The stewards' screens (components/organizer/scan-desk.tsx) in front of  *)
(* the gate of CheckIn: a desk that sends what it scans, keeps a queue     *)
(* while the browser says it is offline and sends it again on reconnect;   *)
(* the network between, which loses requests and answers; and the workers  *)
(* that answer.  A gate of CheckIn is a worker serving requests for its    *)
(* event.                                                                  *)
(*                                                                         *)
(* A scan's id is its place in token; a replayed entry keeps its id here   *)
(* (the code makes a new one, and nothing refers to the old).  The flash,  *)
(* the sound and the order of the list are presentation.                   *)
(***************************************************************************)
EXTENDS CheckIn, Sequences, Functions

CONSTANTS Desks, Link     \* the event a desk was opened for (?event=)

VARIABLES
  desk,          \* the event picked, navigator.onLine, the screen's copy of it
  shown,         \* the entries of each desk's list
  token,         \* what each scan has read, all desks together
  wire,          \* verify requests on their way to the server
  serving,       \* the scan each gate's request is for
  answers,       \* responses on their way back
  admittedBy     \* auxiliary: the scan that admitted a ticket

deskVars == <<desk, shown, token, wire, serving, answers, admittedBy>>
askVars == <<wire, serving, answers, admittedBy>>
vars == <<checkVars, deskVars>>

ASSUME DeskConstants == Link \in [Desks -> Events]

NoScan == 0

Entry(i, st, slipped) == [id |-> i, st |-> st, slipped |-> slipped]
Ask(i, e) == [id |-> i, event |-> e]
Answer(i, what) == [id |-> i, what |-> what]

DeskInit ==
  /\ CheckInit
  /\ desk = [d \in Desks |-> [event |-> Link[d], net |-> TRUE, online |-> TRUE]]
  /\ shown = [d \in Desks |-> {}]
  /\ token = <<>>
  /\ wire = {} /\ answers = {}
  /\ serving = [g \in Gates |-> NoScan]
  /\ admittedBy = [t \in Tickets |-> NoScan]

-----------------------------------------------------------------------------
(* The desk.                                                               *)

PickEvent(d, e) ==
  /\ desk[d].event # e
  /\ desk' = [desk EXCEPT ![d].event = e]
  /\ UNCHANGED <<checkVars, shown, token, askVars>>

(* submit: asked of the browser, not of the screen's own online state.  A  *)
(* scan queued while the two disagree is marked as slipped.                *)
Submit(d, t) ==
  LET i == Len(token) + 1 IN
  /\ Len(token) < MaxScans
  /\ token' = Append(token, t)
  /\ shown' = [shown EXCEPT ![d] = @ \cup
       {IF desk[d].net THEN Entry(i, "checking", FALSE) ELSE Entry(i, "queued", desk[d].online)}]
  /\ wire' = IF desk[d].net THEN wire \cup {Ask(i, desk[d].event)} ELSE wire
  /\ UNCHANGED <<checkVars, desk, serving, answers, admittedBy>>

NetFlips(d) ==
  /\ desk' = [desk EXCEPT ![d].net = ~@]
  /\ UNCHANGED <<checkVars, shown, token, askVars>>

Queued(d) == {e \in shown[d] : e.st = "queued"}

SendAll(d, Q, keep) ==
  /\ wire' = wire \cup {Ask(e.id, desk[d].event) : e \in Q}
  /\ shown' = [shown EXCEPT ![d] =
       (@ \ Q) \cup {[e EXCEPT !.st = IF keep THEN @ ELSE "checking"] : e \in Q}]

(* Mutants: the entry stays in the queue; one scan per reconnect.          *)
Replay_StaysQueued(d) == SendAll(d, Queued(d), TRUE)

Replay_OnlyOne(d) ==
  IF Queued(d) = {} THEN UNCHANGED <<wire, shown>>
  ELSE SendAll(d, {CHOOSE e \in Queued(d) : TRUE}, FALSE)

(* The whole queue, for the event picked now.                              *)
Replay(d) == SendAll(d, Queued(d), FALSE)

(* An online or offline event reaches the screen; the effect on its state  *)
(* replays the queue.                                                      *)
ScreenUpdates(d) ==
  /\ desk[d].online # desk[d].net
  /\ desk' = [desk EXCEPT ![d].online = desk[d].net]
  /\ IF desk[d].net THEN Replay(d) ELSE UNCHANGED <<wire, shown>>
  /\ UNCHANGED <<checkVars, token, serving, answers, admittedBy>>

(* The page is loaded again: the list, the queue with it, is gone, and the *)
(* picker stands at the link's event again.                                *)
Reload(d) ==
  /\ shown[d] # {}
  /\ shown' = [shown EXCEPT ![d] = {}]
  /\ desk' = [desk EXCEPT ![d] = [event |-> Link[d], net |-> @.net, online |-> @.net]]
  /\ UNCHANGED <<checkVars, token, askVars>>

Settled(list, i, st) ==
  {IF e.id = i THEN [e EXCEPT !.st = st] ELSE e : e \in list}

(* Mutant: the answer is shown at every entry of its ticket.               *)
TakeAnswer_ByToken(d, a) ==
  /\ \E e \in shown[d] : e.id = a.id /\ e.st = "checking"
  /\ shown' = [shown EXCEPT ![d] =
       {IF token[e.id] = token[a.id] THEN [e EXCEPT !.st = a.what] ELSE e : e \in @}]
  /\ answers' = answers \ {a}
  /\ UNCHANGED <<checkVars, desk, token, wire, serving, admittedBy>>

TakeAnswer(d, a) ==
  /\ \E e \in shown[d] : e.id = a.id /\ e.st = "checking"
  /\ shown' = [shown EXCEPT ![d] = Settled(@, a.id, a.what)]
  /\ answers' = answers \ {a}
  /\ UNCHANGED <<checkVars, desk, token, wire, serving, admittedBy>>

(* Mutant: a failed call is not caught.                                    *)
CallFails_Uncaught(d, e) ==
  /\ e.st = "checking"
  /\ wire' = {r \in wire : r.id # e.id}
  /\ answers' = {a \in answers : a.id # e.id}
  /\ UNCHANGED <<checkVars, desk, shown, token, serving, admittedBy>>

(* The connection fails under a call: "Could not reach the server".  Its   *)
(* request may reach the server all the same.                              *)
CallFails(d, e) ==
  /\ e.st = "checking"
  /\ shown' = [shown EXCEPT ![d] = Settled(@, e.id, "error")]
  /\ wire' \in {wire, {r \in wire : r.id # e.id}}
  /\ answers' = {a \in answers : a.id # e.id}
  /\ UNCHANGED <<checkVars, desk, token, serving, admittedBy>>

DeskStep(d) ==
  \/ \E e \in Events : PickEvent(d, e)
  \/ \E t \in Tickets : Submit(d, t)
  \/ NetFlips(d) \/ ScreenUpdates(d) \/ Reload(d)
  \/ \E a \in answers : TakeAnswer(d, a)
  \/ \E e \in shown[d] : CallFails(d, e)

-----------------------------------------------------------------------------
(* The server: the steps of CheckIn, each with its request and answer.     *)

Replied(g, what) == answers' = answers \cup {Answer(serving[g], what)}

Arrive(g, r) ==
  LET t == token[r.id] IN
  /\ r.event = GateEvent[g]
  /\ Scan(g, t)
  /\ wire' = wire \ {r}
  /\ IF FirstLook(g, t) = "allowed"
       THEN serving' = [serving EXCEPT ![g] = r.id] /\ UNCHANGED answers
       ELSE answers' = answers \cup {Answer(r.id, "denied")} /\ UNCHANGED serving
  /\ UNCHANGED <<desk, shown, token, admittedBy>>

Decide(g, t) ==
  /\ AdmitUnderLock(g, t)
  /\ IF status[t] = "active"
       THEN admittedBy' = [admittedBy EXCEPT ![t] = serving[g]] /\ UNCHANGED answers
       ELSE Replied(g, "denied") /\ UNCHANGED admittedBy
  /\ UNCHANGED <<desk, shown, token, wire, serving>>

Admitted(g, t) ==
  /\ BumpAttendance(g, t)
  /\ Replied(g, "allowed")
  /\ UNCHANGED <<desk, shown, token, wire, serving, admittedBy>>

(* A 500, or a connection that closes without an answer.                   *)
RequestFails(g) ==
  /\ GateFails(g)
  /\ Replied(g, "error")
  /\ UNCHANGED <<desk, shown, token, wire, serving, admittedBy>>

ServerStep(g) ==
  \/ \E r \in wire : Arrive(g, r)
  \/ \E t \in Tickets : Decide(g, t) \/ Admitted(g, t)
  \/ RequestFails(g)

(* Refunds and time know no desk.  (The attendance cache, which no ticket  *)
(* and no answer depends on, is left to CheckIn's own specification.)      *)
Elsewhere ==
  /\ CheckTick \/ \E o \in Orders : VoidTickets(o)
  /\ UNCHANGED deskVars

DeskNext ==
  \/ \E d \in Desks : DeskStep(d)
  \/ \E g \in Gates : ServerStep(g)
  \/ Elsewhere

DeskSpec == DeskInit /\ [][DeskNext]_vars

-----------------------------------------------------------------------------
Verdicts == {"queued", "checking", "allowed", "denied", "error"}

DeskTypeOK ==
  /\ CheckTypeOK
  /\ desk \in [Desks -> [event : Events, net : BOOLEAN, online : BOOLEAN]]
  /\ token \in Seq(Tickets)
  /\ shown \in [Desks -> SUBSET [id : 1..Len(token), st : Verdicts, slipped : BOOLEAN]]
  /\ wire \subseteq [id : 1..Len(token), event : Events]
  /\ serving \in [Gates -> 0..Len(token)]
  /\ answers \subseteq [id : 1..Len(token), what : {"allowed", "denied", "error"}]
  /\ admittedBy \in [Tickets -> 0..Len(token)]

(* "A green flash for a scan nobody has decided would admit two people on  *)
(* one ticket": whatever desks, retries and lost answers there are, "Let   *)
(* them in" stands at no entry but the one whose scan took the ticket from *)
(* active to used, so at one entry per ticket in the whole building.       *)
GreenOnce ==
  \A d \in Desks : \A e \in shown[d] :
    e.st = "allowed" =>
      /\ admittedBy[token[e.id]] = e.id
      /\ status[token[e.id]] = "used"

(* The trail is "one row per scan that reached a real ticket": queue and   *)
(* replay may lose a scan but never record one twice.                      *)
Rows(t) ==
  SumFunctionOnSet([r \in Events \X Results |-> log[<<t, r[1], r[2]>>]], Events \X Results)

OneRowPerScan ==
  \A t \in Tickets : Rows(t) <= Cardinality({i \in DOMAIN token : token[i] = t})

(* "Checking..." ends: some request, worker or answer is still about it.   *)
NoEndlessCheck ==
  \A d \in Desks : \A e \in shown[d] : e.st = "checking" =>
    \/ \E r \in wire : r.id = e.id
    \/ \E g \in Gates : gate[g] # NoRequest /\ serving[g] = e.id
    \/ \E a \in answers : a.id = e.id

(* "Replayed on reconnect": a desk that shows itself online keeps nothing  *)
(* in its queue but scans that slipped in before it had noticed the loss.  *)
NothingLeftBehind ==
  \A d \in Desks : \A e \in shown[d] :
    e.st = "queued" /\ desk[d].online => e.slipped
=============================================================================
