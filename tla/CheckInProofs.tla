---------------------------- MODULE CheckInProofs ---------------------------
(***************************************************************************)
(* Proofs about CheckIn for any number of tickets, gates and refunds: its  *)
(* type, the agreement of the scan trail with the tickets, and that the    *)
(* gate implements Door.                                                   *)
(***************************************************************************)
EXTENDS CheckIn, FiniteSetTheorems, TLAPS

(* A gate that waits for the lock has already turned away other events.    *)
RightGate ==
  \A g \in Gates, t \in Tickets : gate[g] = Waiting(t) => TicketEvent[t] = GateEvent[g]

CheckInv == CheckTypeOK /\ RightGate /\ LedgerAgrees

(* The ladder of lock-free checks ends in a result, and lets through only  *)
(* an active ticket of this gate's event.                                  *)
LEMMA FirstLookType ==
  ASSUME CheckTypeOK, NEW g \in Gates, NEW t \in Tickets
  PROVE  /\ FirstLook(g, t) \in Results
         /\ FirstLook(g, t) = "allowed" => TicketEvent[t] = GateEvent[g]
  BY DEF CheckTypeOK, FirstLook, Results

(* A row of the trail changes the count of its own result only.            *)
LEMMA RecordRow ==
  ASSUME CheckTypeOK, CheckInConstants, NEW g \in Gates, NEW t \in Tickets,
         NEW r \in Results, Record(g, t, r)
  PROVE  /\ log' \in [Tickets \X Events \X Results -> Nat]
         /\ \A u \in Tickets, e \in Events :
              log'[<<u, e, "allowed">>] =
                IF u = t /\ e = GateEvent[g] /\ r = "allowed" THEN log[<<u, e, "allowed">>] + 1
                ELSE log[<<u, e, "allowed">>]
<1> DEFINE Rows == Tickets \X Events \X Results
<1>1. <<t, GateEvent[g], r>> \in Rows
  BY DEF CheckInConstants
<1>2. log \in [Rows -> Nat] /\ log[<<t, GateEvent[g], r>>] + 1 \in Nat
  BY <1>1 DEF CheckTypeOK
<1>3. log' \in [Rows -> Nat]
  BY <1>1, <1>2 DEF Record
<1>4. ASSUME NEW u \in Tickets, NEW e \in Events
      PROVE  /\ <<u, e, "allowed">> \in Rows
             /\ log'[<<u, e, "allowed">>] =
                  IF <<u, e, "allowed">> = <<t, GateEvent[g], r>>
                  THEN log[<<u, e, "allowed">>] + 1 ELSE log[<<u, e, "allowed">>]
  BY <1>2 DEF Record, Results
<1> QED BY <1>3, <1>4

(* A denial leaves the admissions as they were, an admission adds one.     *)
LEMMA RecordDenied ==
  ASSUME CheckTypeOK, CheckInConstants, NEW g \in Gates, NEW t \in Tickets,
         NEW r \in Results, r # "allowed", Record(g, t, r)
  PROVE  /\ log' \in [Tickets \X Events \X Results -> Nat]
         /\ \A u \in Tickets, e \in Events :
              log'[<<u, e, "allowed">>] = log[<<u, e, "allowed">>]
<1>1. log' \in [Tickets \X Events \X Results -> Nat]
  BY RecordRow
<1>2. ASSUME NEW u \in Tickets, NEW e \in Events
      PROVE  log'[<<u, e, "allowed">>] = log[<<u, e, "allowed">>]
  BY RecordRow
<1> QED BY <1>1, <1>2

LEMMA RecordAllowed ==
  ASSUME CheckTypeOK, CheckInConstants, NEW g \in Gates, NEW t \in Tickets,
         Record(g, t, "allowed")
  PROVE  /\ log' \in [Tickets \X Events \X Results -> Nat]
         /\ \A u \in Tickets, e \in Events :
              log'[<<u, e, "allowed">>] =
                IF u = t /\ e = GateEvent[g] THEN log[<<u, e, "allowed">>] + 1
                ELSE log[<<u, e, "allowed">>]
<1>1. "allowed" \in Results
  BY DEF Results
<1>2. log' \in [Tickets \X Events \X Results -> Nat]
  BY <1>1, RecordRow
<1>3. ASSUME NEW u \in Tickets, NEW e \in Events
      PROVE  log'[<<u, e, "allowed">>] =
               IF u = t /\ e = GateEvent[g] THEN log[<<u, e, "allowed">>] + 1
               ELSE log[<<u, e, "allowed">>]
  BY <1>1, RecordRow
<1> QED BY <1>2, <1>3

LEMMA InitInv == CheckInConstants /\ CheckInit => CheckInv
  BY DEF CheckInConstants, CheckInit, CheckInv, CheckTypeOK, RightGate, LedgerAgrees,
         NoRequest, Waiting, Requests, Results

-----------------------------------------------------------------------------
LEMMA ScanInv ==
  ASSUME CheckInConstants, CheckInv, NEW g \in Gates, NEW t \in Tickets, Scan(g, t)
  PROVE  CheckInv'
<1> USE DEF CheckInv
<1>1. CASE FirstLook(g, t) = "allowed"
  <2>1. /\ gate' = [gate EXCEPT ![g] = Waiting(t)] /\ scans' = scans + 1
        /\ UNCHANGED <<log, now, status, counter, fresh, reading>>
    BY <1>1 DEF Scan, cacheVars
  <2>2. CheckTypeOK'
    BY <2>1 DEF CheckTypeOK, Requests, Waiting
  <2>3. RightGate'
    BY <1>1, <2>1, FirstLookType DEF RightGate, CheckTypeOK, Waiting
  <2> QED BY <2>1, <2>2, <2>3 DEF LedgerAgrees
<1>2. CASE FirstLook(g, t) # "allowed"
  <2>1. /\ Record(g, t, FirstLook(g, t)) /\ scans' = scans + 1
        /\ UNCHANGED <<gate, now, status, counter, fresh, reading>>
    BY <1>2 DEF Scan, cacheVars
  <2>0. FirstLook(g, t) \in Results
    BY FirstLookType
  <2>2. log' \in [Tickets \X Events \X Results -> Nat]
    BY <1>2, <2>0, <2>1, RecordDenied
  <2>3. \A u \in Tickets, e \in Events : log'[<<u, e, "allowed">>] = log[<<u, e, "allowed">>]
    BY <1>2, <2>0, <2>1, RecordDenied
  <2>4. CheckTypeOK'
    BY <2>1, <2>2 DEF CheckTypeOK
  <2>5. LedgerAgrees'
    BY <2>1, <2>3 DEF LedgerAgrees
  <2> QED BY <2>1, <2>4, <2>5 DEF RightGate
<1> QED BY <1>1, <1>2

(* The step that admits: the ticket was active, so its trail was empty.    *)
LEMMA AdmitInv ==
  ASSUME CheckInConstants, CheckInv, NEW g \in Gates, NEW t \in Tickets, AdmitUnderLock(g, t)
  PROVE  CheckInv'
<1> USE DEF CheckInv
<1>0. /\ gate[g] = Waiting(t) /\ TicketEvent[t] = GateEvent[g]
      /\ UNCHANGED <<now, counter, fresh, reading, scans>>
  BY DEF AdmitUnderLock, RightGate, cacheVars
<1>1. CASE status[t] = "active"
  <2>1. /\ status' = [status EXCEPT ![t] = "used"] /\ Record(g, t, "allowed")
        /\ gate' = [gate EXCEPT ![g] = Admitting(t)]
    BY <1>1 DEF AdmitUnderLock
  <2>3. log' \in [Tickets \X Events \X Results -> Nat]
    BY <2>1, RecordAllowed
  <2>4. \A u \in Tickets, e \in Events :
          log'[<<u, e, "allowed">>] =
            IF u = t /\ e = GateEvent[g] THEN log[<<u, e, "allowed">>] + 1
            ELSE log[<<u, e, "allowed">>]
    BY <2>1, RecordAllowed
  <2>5. CheckTypeOK'
    BY <1>0, <2>1, <2>3 DEF CheckTypeOK, Requests, Admitting
  <2>6. RightGate'
    BY <2>1 DEF RightGate, CheckTypeOK, Admitting, Waiting
  <2>7. ASSUME NEW u \in Tickets, NEW e \in Events
        PROVE  log'[<<u, e, "allowed">>] =
                 IF status'[u] = "used" /\ e = TicketEvent[u] THEN 1 ELSE 0
    <3>1. log[<<u, e, "allowed">>] = IF status[u] = "used" /\ e = TicketEvent[u] THEN 1 ELSE 0
      BY DEF LedgerAgrees
    <3>2. status'[u] = IF u = t THEN "used" ELSE status[u]
      BY <2>1 DEF CheckTypeOK
    <3> QED BY <1>0, <1>1, <2>4, <3>1, <3>2
  <2>8. LedgerAgrees'
    BY <2>7 DEF LedgerAgrees
  <2> QED BY <2>5, <2>6, <2>8
<1>2. CASE status[t] # "active"
  <2> DEFINE r == IF status[t] = "used" THEN "already_used" ELSE "not_active"
  <2>1. Record(g, t, r) /\ gate' = [gate EXCEPT ![g] = NoRequest] /\ status' = status
    BY <1>2 DEF AdmitUnderLock
  <2>2. r \in Results /\ r # "allowed"
    BY DEF Results
  <2> HIDE DEF r
  <2>3. /\ log' \in [Tickets \X Events \X Results -> Nat]
        /\ \A u \in Tickets, e \in Events : log'[<<u, e, "allowed">>] = log[<<u, e, "allowed">>]
    BY <2>1, <2>2, RecordDenied
  <2>4. CheckTypeOK'
    BY <1>0, <2>1, <2>3 DEF CheckTypeOK, Requests
  <2>5. RightGate'
    BY <2>1 DEF RightGate, CheckTypeOK, NoRequest, Waiting
  <2>6. LedgerAgrees'
    BY <2>1, <2>3 DEF LedgerAgrees
  <2> QED BY <2>4, <2>5, <2>6
<1> QED BY <1>1, <1>2

LEMMA VoidInv ==
  ASSUME CheckInConstants, CheckInv, NEW o \in Orders, VoidTickets(o)
  PROVE  CheckInv'
<1> USE DEF CheckInv
<1>1. CheckTypeOK'
  BY DEF VoidTickets, CheckTypeOK, cacheVars
<1>2. \A t \in Tickets : status'[t] = "used" <=> status[t] = "used"
  BY DEF VoidTickets, CheckTypeOK
<1>3. RightGate' /\ LedgerAgrees'
  BY <1>2 DEF VoidTickets, RightGate, LedgerAgrees
<1> QED BY <1>1, <1>3

(* How many tickets are used is a number: what the dashboard reads.        *)
LEMMA UsedIsNat ==
  ASSUME CheckInConstants, NEW e
  PROVE  Used(e) \in Nat
<1>1. IsFiniteSet({t \in Tickets : TicketEvent[t] = e /\ status[t] = "used"})
  BY FS_Subset DEF CheckInConstants
<1> QED BY <1>1, FS_CardinalityType DEF Used

LEMMA GateInv ==
  ASSUME CheckInConstants, CheckInv, NEW g \in Gates, GateStep(g)
  PROVE  CheckInv'
<1> USE DEF CheckInv
<1>1. ASSUME NEW t \in Tickets, BumpAttendance(g, t) PROVE CheckInv'
  <2>1. CheckTypeOK'
    BY <1>1 DEF BumpAttendance, CheckTypeOK, CheckInConstants, Requests
  <2>2. RightGate'
    BY <1>1 DEF BumpAttendance, RightGate, CheckTypeOK, NoRequest, Waiting
  <2> QED BY <1>1, <2>1, <2>2 DEF BumpAttendance, LedgerAgrees
<1>2. CASE GateFails(g)
  <2>1. CheckTypeOK'
    BY <1>2 DEF GateFails, CheckTypeOK, Requests, cacheVars
  <2>2. RightGate'
    BY <1>2 DEF GateFails, RightGate, CheckTypeOK, NoRequest, Waiting
  <2> QED BY <1>2, <2>1, <2>2 DEF GateFails, LedgerAgrees
<1> QED BY <1>1, <1>2, ScanInv, AdmitInv DEF GateStep

LEMMA CacheInv ==
  ASSUME CheckInConstants, CheckInv, NEW e \in Events, CacheStep(e)
  PROVE  CheckInv'
<1> USE DEF CheckInv
<1>1. UNCHANGED <<now, status, log, gate, scans>>
  BY DEF CacheStep, ReconcileRead, ReconcileSet, FreshExpires, CounterEvicted
<1>2. counter' \in [Events -> Nat \cup {NoCount}]
  BY DEF CacheStep, ReconcileRead, ReconcileSet, FreshExpires, CounterEvicted, CheckTypeOK
<1>3. fresh' \in [Events -> BOOLEAN]
  BY DEF CacheStep, ReconcileRead, ReconcileSet, FreshExpires, CounterEvicted, CheckTypeOK
<1>4. reading' \in [Events -> Nat \cup {NoCount}]
  BY UsedIsNat DEF CacheStep, ReconcileRead, ReconcileSet, FreshExpires, CounterEvicted, CheckTypeOK
<1>5. CheckTypeOK'
  BY <1>1, <1>2, <1>3, <1>4 DEF CheckTypeOK
<1> QED BY <1>1, <1>5 DEF RightGate, LedgerAgrees

LEMMA NextInv ==
  ASSUME CheckInConstants, CheckInv, [CheckNext]_checkVars
  PROVE  CheckInv'
<1>1. CASE UNCHANGED checkVars
  BY <1>1 DEF checkVars, CheckInv, CheckTypeOK, RightGate, LedgerAgrees
<1>2. CASE CheckTick
  BY <1>2 DEF CheckTick, cacheVars, CheckInv, CheckTypeOK, RightGate, LedgerAgrees
<1>3. ASSUME NEW e \in Watched, CacheStep(e) PROVE CheckInv'
  BY <1>3, CacheInv DEF CheckInConstants
<1> QED BY <1>1, <1>2, <1>3, GateInv, VoidInv DEF CheckNext

(* Every ticket, gate and cache cell keeps its type, and a gate waiting    *)
(* for a lock waits for a ticket of its own event.                         *)
THEOREM CheckInCorrect == CheckSpec => []CheckInv
<1>1. CheckInit => CheckInv
  BY CheckInConstants, InitInv
<1>2. CheckInv /\ [CheckNext]_checkVars => CheckInv'
  BY CheckInConstants, NextInv
<1> QED BY <1>1, <1>2, PTL DEF CheckSpec

(* The audit count of count_allowed_for_event and the used tickets agree,  *)
(* ticket by ticket, however many gates scan and refunds void.             *)
THEOREM TrailAgrees == CheckSpec => []LedgerAgrees
<1>1. CheckInv => LedgerAgrees
  BY DEF CheckInv
<1> QED BY <1>1, CheckInCorrect, PTL

-----------------------------------------------------------------------------
LEMMA DoorStep ==
  ASSUME CheckInConstants, CheckInv, CheckInv', [CheckNext]_checkVars
  PROVE  [AtTheDoor!Next]_(AtTheDoor!doorVars)
<1> DEFINE admitted == [t \in Tickets |-> log[<<t, TicketEvent[t], "allowed">>]]
           open == [t \in Tickets |-> status[t] = "active"]
<1> USE DEF AtTheDoor!Next, AtTheDoor!doorVars, CheckInv
<1>1. (\A t \in Tickets : log'[<<t, TicketEvent[t], "allowed">>] = log[<<t, TicketEvent[t], "allowed">>])
        => admitted' = admitted
  OBVIOUS
<1>2. UNCHANGED status => open' = open
  OBVIOUS
<1>3. UNCHANGED <<status, log>> => UNCHANGED <<admitted, open>>
  BY <1>1, <1>2
<1>4. ASSUME NEW g \in Gates, NEW t \in Tickets, Scan(g, t)
      PROVE  UNCHANGED <<admitted, open>>
  <2>1. UNCHANGED status
    BY <1>4 DEF Scan
  <2>2. \A u \in Tickets : TicketEvent[u] \in Events
    BY DEF CheckInConstants
  <2>3. \A u \in Tickets :
          log'[<<u, TicketEvent[u], "allowed">>] = log[<<u, TicketEvent[u], "allowed">>]
    BY <2>1, <2>2 DEF LedgerAgrees
  <2> QED BY <2>1, <2>3, <1>1, <1>2
<1>5. ASSUME NEW g \in Gates, NEW t \in Tickets, AdmitUnderLock(g, t)
      PROVE  AtTheDoor!Admit(t) \/ UNCHANGED <<admitted, open>>
  <2>1. CASE status[t] = "active"
    <3>1. status' = [status EXCEPT ![t] = "used"]
      BY <1>5, <2>1 DEF AdmitUnderLock
    <3>2. \A u \in Tickets : TicketEvent[u] \in Events
      BY DEF CheckInConstants
    <3>3. \A u \in Tickets :
            log'[<<u, TicketEvent[u], "allowed">>] =
              IF u = t THEN log[<<u, TicketEvent[u], "allowed">>] + 1
              ELSE log[<<u, TicketEvent[u], "allowed">>]
      BY <2>1, <3>1, <3>2 DEF LedgerAgrees, CheckTypeOK
    <3>4. admitted' = [admitted EXCEPT ![t] = @ + 1]
      BY <3>3
    <3>5. open' = [open EXCEPT ![t] = FALSE]
      BY <3>1 DEF CheckTypeOK
    <3> QED BY <2>1, <3>4, <3>5 DEF AtTheDoor!Admit
  <2>2. CASE status[t] # "active"
    <3>1. UNCHANGED status
      BY <1>5, <2>2 DEF AdmitUnderLock
    <3>2. \A u \in Tickets : TicketEvent[u] \in Events
      BY DEF CheckInConstants
    <3>3. \A u \in Tickets :
            log'[<<u, TicketEvent[u], "allowed">>] = log[<<u, TicketEvent[u], "allowed">>]
      BY <3>1, <3>2 DEF LedgerAgrees
    <3> QED BY <3>1, <3>3, <1>1, <1>2
  <2> QED BY <2>1, <2>2
<1>6. ASSUME NEW g \in Gates, GateStep(g)
      PROVE  (\E t \in Tickets : AtTheDoor!Admit(t)) \/ UNCHANGED <<admitted, open>>
  <2>1. ASSUME NEW t \in Tickets, BumpAttendance(g, t) PROVE UNCHANGED <<admitted, open>>
    BY <1>3, <2>1 DEF BumpAttendance
  <2>2. CASE GateFails(g)
    BY <1>3, <2>2 DEF GateFails
  <2> QED BY <1>4, <1>5, <1>6, <2>1, <2>2 DEF GateStep
<1>7. ASSUME NEW o \in Orders, VoidTickets(o)
      PROVE  \E T \in SUBSET Tickets : AtTheDoor!Withdraw(T)
  <2> DEFINE T == {t \in Tickets : TicketOrder[t] = o}
  <2>1. open' = [t \in Tickets |-> open[t] /\ t \notin T]
    BY <1>7 DEF VoidTickets, CheckTypeOK
  <2>2. admitted' = admitted
    BY <1>7 DEF VoidTickets
  <2>3. T \in SUBSET Tickets
    OBVIOUS
  <2> HIDE DEF T
  <2>4. AtTheDoor!Withdraw(T)
    BY <2>1, <2>2 DEF AtTheDoor!Withdraw
  <2> QED BY <2>3, <2>4
<1>8. ASSUME CheckTick \/ (\E e \in Watched : CacheStep(e)) \/ UNCHANGED checkVars
      PROVE  UNCHANGED <<admitted, open>>
  BY <1>3, <1>8 DEF CheckTick, CacheStep, ReconcileRead, ReconcileSet, FreshExpires,
                     CounterEvicted, checkVars
<1> QED BY <1>6, <1>7, <1>8 DEF CheckNext

(* "The same ticket must NEVER admit two people": the gate, with all its   *)
(* races, implements the door that lets one person in per ticket.          *)
THEOREM GateIsADoor == CheckSpec => ImplementsDoor
<1>1. CheckInit => AtTheDoor!Init
  BY CheckInConstants DEF CheckInit, AtTheDoor!Init, CheckInConstants, Results
<1>2. CheckInv /\ CheckInv' /\ [CheckNext]_checkVars => [AtTheDoor!Next]_(AtTheDoor!doorVars)
  BY CheckInConstants, DoorStep
<1> QED BY <1>1, <1>2, CheckInCorrect, PTL DEF CheckSpec, ImplementsDoor, AtTheDoor!Spec
=============================================================================
