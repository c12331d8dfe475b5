------------------------------ MODULE CheckIn -------------------------------
(***************************************************************************)
(* The gate (apps/checkin): scanners that read a ticket without a lock,    *)
(* decide again under its row lock and write the scan trail; a refund that *)
(* voids the tickets of a booking meanwhile; and the live attendance, a    *)
(* cached counter that the database corrects.                              *)
(*                                                                         *)
(* A scan names a genuine ticket: the signature check before it touches no *)
(* state.  lookup_ticket writes nothing and is not an action.              *)
(***************************************************************************)
EXTENDS Naturals, FiniteSets

CONSTANTS
  Tickets, Gates, Events, Orders,
  TicketEvent, TicketOrder,   \* the event and the booking of a ticket
  GateEvent,                  \* the event a gate is stationed for
  Opens, Closes,              \* the scan window of a ticket's session
  Watched,                    \* events whose attendance somebody displays
  NoTicket, NoCount,
  MaxTime, MaxScans           \* bounds

VARIABLES
  now,
  status,                     \* Ticket.status
  log,                        \* ScanLog: rows per ticket, event and result
  gate,                       \* what each gate's request is doing
  counter, fresh,             \* cache: admitted counter, "reconciled" marker
  reading,                    \* the count a reconcile has read, not yet set
  scans                       \* requests so far, for the bound

checkVars == <<now, status, log, gate, counter, fresh, reading, scans>>
cacheVars == <<counter, fresh, reading>>

Results == {"allowed", "wrong_event", "already_used", "not_active", "out_of_window"}

ASSUME CheckInConstants ==
  /\ IsFiniteSet(Tickets) /\ IsFiniteSet(Events)
  /\ TicketEvent \in [Tickets -> Events] /\ TicketOrder \in [Tickets -> Orders]
  /\ GateEvent \in [Gates -> Events]
  /\ Opens \in [Tickets -> Nat] /\ Closes \in [Tickets -> Nat]
  /\ Watched \subseteq Events
  /\ NoTicket \notin Tickets /\ NoCount \notin Nat
  /\ MaxTime \in Nat /\ MaxScans \in Nat

Waiting(t) == [ticket |-> t, phase |-> "lock"]
Admitting(t) == [ticket |-> t, phase |-> "bump"]
NoRequest == [ticket |-> NoTicket, phase |-> "idle"]

CheckInit ==
  /\ now = 0
  /\ status = [t \in Tickets |-> "active"]
  /\ log = [row \in Tickets \X Events \X Results |-> 0]
  /\ gate = [g \in Gates |-> NoRequest]
  /\ counter = [e \in Events |-> NoCount]
  /\ fresh = [e \in Events |-> FALSE]
  /\ reading = [e \in Events |-> NoCount]
  /\ scans = 0

-----------------------------------------------------------------------------
(* verify_and_mark_used.                                                   *)

WithinWindow(t) == Opens[t] <= now /\ now <= Closes[t]

(* Where the ladder of lock-free checks stops.                             *)
FirstLook(g, t) ==
  CASE TicketEvent[t] # GateEvent[g] -> "wrong_event"
    [] TicketEvent[t] = GateEvent[g] /\ status[t] = "used" -> "already_used"
    [] TicketEvent[t] = GateEvent[g] /\ status[t] \notin {"active", "used"} -> "not_active"
    [] TicketEvent[t] = GateEvent[g] /\ status[t] = "active" ->
         IF WithinWindow(t) THEN "allowed" ELSE "out_of_window"

Record(g, t, result) == log' = [log EXCEPT ![<<t, GateEvent[g], result>>] = @ + 1]

Scan(g, t) ==
  /\ gate[g] = NoRequest /\ scans < MaxScans
  /\ scans' = scans + 1
  /\ IF FirstLook(g, t) = "allowed"
       THEN gate' = [gate EXCEPT ![g] = Waiting(t)] /\ UNCHANGED log
       ELSE Record(g, t, FirstLook(g, t)) /\ UNCHANGED gate
  /\ UNCHANGED <<now, status, cacheVars>>

(* Mutant: only a second admission is looked for under the lock.           *)
AdmitUnderLock_OnlyUsedRechecked(g, t) ==
  /\ gate[g] = Waiting(t)
  /\ IF status[t] # "used"
       THEN /\ status' = [status EXCEPT ![t] = "used"]
            /\ Record(g, t, "allowed")
            /\ gate' = [gate EXCEPT ![g] = Admitting(t)]
       ELSE /\ Record(g, t, "already_used")
            /\ gate' = [gate EXCEPT ![g] = NoRequest]
            /\ UNCHANGED status
  /\ UNCHANGED <<now, cacheVars, scans>>

(* The decision that counts, on the row as it is under its lock.           *)
AdmitUnderLock(g, t) ==
  /\ gate[g] = Waiting(t)
  /\ IF status[t] = "active"
       THEN /\ status' = [status EXCEPT ![t] = "used"]
            /\ Record(g, t, "allowed")
            /\ gate' = [gate EXCEPT ![g] = Admitting(t)]
       ELSE /\ Record(g, t, IF status[t] = "used" THEN "already_used" ELSE "not_active")
            /\ gate' = [gate EXCEPT ![g] = NoRequest]
            /\ UNCHANGED status
  /\ UNCHANGED <<now, cacheVars, scans>>

(* After the commit: INCR, which creates a missing key.                    *)
BumpAttendance(g, t) ==
  LET e == GateEvent[g] IN
  /\ gate[g] = Admitting(t)
  /\ counter' = [counter EXCEPT ![e] = IF @ = NoCount THEN 1 ELSE @ + 1]
  /\ gate' = [gate EXCEPT ![g] = NoRequest]
  /\ UNCHANGED <<now, status, log, fresh, reading, scans>>

(* The process dies, or the cache does not answer: the transaction rolls   *)
(* back, or the bump is lost.                                              *)
GateFails(g) ==
  /\ gate[g] # NoRequest
  /\ gate' = [gate EXCEPT ![g] = NoRequest]
  /\ UNCHANGED <<now, status, log, cacheVars, scans>>

-----------------------------------------------------------------------------
(* Mutants: the used tickets are voided too; the payment's status is       *)
(* written to the tickets.                                                 *)
VoidTickets_UsedToo(o) ==
  /\ status' = [t \in Tickets |-> IF TicketOrder[t] = o THEN "void" ELSE status[t]]
  /\ UNCHANGED <<now, log, gate, cacheVars, scans>>

VoidTickets_PaymentStatus(o) ==
  /\ status' = [t \in Tickets |->
       IF TicketOrder[t] = o /\ status[t] = "active" THEN "refunded" ELSE status[t]]
  /\ UNCHANGED <<now, log, gate, cacheVars, scans>>

(* void_active_for_booking, in the transaction that records a refund.      *)
VoidTickets(o) ==
  /\ status' = [t \in Tickets |->
       IF TicketOrder[t] = o /\ status[t] = "active" THEN "void" ELSE status[t]]
  /\ UNCHANGED <<now, log, gate, cacheVars, scans>>

-----------------------------------------------------------------------------
(* get_attendance.                                                         *)

Used(e) == Cardinality({t \in Tickets : TicketEvent[t] = e /\ status[t] = "used"})

(* Mutant: a counter is served for as long as it is there.                 *)
FastPath_AnyAge(e) == counter[e] # NoCount

FastPath(e) == fresh[e] /\ counter[e] # NoCount

ReconcileRead(e) ==
  /\ ~FastPath(e) /\ reading[e] = NoCount
  /\ reading' = [reading EXCEPT ![e] = Used(e)]
  /\ UNCHANGED <<now, status, log, gate, counter, fresh, scans>>

ReconcileSet(e) ==
  /\ reading[e] # NoCount
  /\ counter' = [counter EXCEPT ![e] = reading[e]]
  /\ fresh' = [fresh EXCEPT ![e] = TRUE]
  /\ reading' = [reading EXCEPT ![e] = NoCount]
  /\ UNCHANGED <<now, status, log, gate, scans>>

(* ATTENDANCE_FRESH_TTL_SECONDS runs out; the counter key is evicted.      *)
FreshExpires(e) ==
  /\ fresh[e]
  /\ fresh' = [fresh EXCEPT ![e] = FALSE]
  /\ UNCHANGED <<now, status, log, gate, counter, reading, scans>>

CounterEvicted(e) ==
  /\ counter[e] # NoCount
  /\ counter' = [counter EXCEPT ![e] = NoCount]
  /\ UNCHANGED <<now, status, log, gate, fresh, reading, scans>>

CheckTick ==
  /\ now < MaxTime /\ now' = now + 1
  /\ UNCHANGED <<status, log, gate, cacheVars, scans>>

-----------------------------------------------------------------------------
GateStep(g) ==
  \/ \E t \in Tickets : Scan(g, t) \/ AdmitUnderLock(g, t) \/ BumpAttendance(g, t)
  \/ GateFails(g)

CacheStep(e) ==
  ReconcileRead(e) \/ ReconcileSet(e) \/ FreshExpires(e) \/ CounterEvicted(e)

CheckNext ==
  \/ \E g \in Gates : GateStep(g)
  \/ \E o \in Orders : VoidTickets(o)
  \/ \E e \in Watched : CacheStep(e)
  \/ CheckTick

CheckSpec == CheckInit /\ [][CheckNext]_checkVars

(* Requests end, the marker's TTL runs out, and a dashboard polls.         *)
CheckFairness ==
  /\ \A g \in Gates :
       WF_checkVars(GateFails(g) \/ \E t \in Tickets : AdmitUnderLock(g, t) \/ BumpAttendance(g, t))
  /\ \A e \in Watched :
       WF_checkVars(FreshExpires(e)) /\ WF_checkVars(ReconcileRead(e)) /\ WF_checkVars(ReconcileSet(e))

CheckFairSpec == CheckSpec /\ CheckFairness

-----------------------------------------------------------------------------
Requests == {NoRequest} \cup [ticket : Tickets, phase : {"lock", "bump"}]

CheckTypeOK ==
  /\ now \in Nat /\ scans \in Nat
  /\ status \in [Tickets -> {"active", "used", "void"}]
  /\ log \in [Tickets \X Events \X Results -> Nat]
  /\ gate \in [Gates -> Requests]
  /\ counter \in [Events -> Nat \cup {NoCount}]
  /\ fresh \in [Events -> BOOLEAN]
  /\ reading \in [Events -> Nat \cup {NoCount}]

(* "This parallel count exists for audit reconciliation - the two must     *)
(* always agree" (count_allowed_for_event): a ticket is used exactly when  *)
(* the trail holds one ALLOWED row for it, at its own event and no other,  *)
(* in spite of two gates, a refund, a crash and the unlocked first look.   *)
LedgerAgrees ==
  \A t \in Tickets, e \in Events :
    log[<<t, e, "allowed">>] = IF status[t] = "used" /\ e = TicketEvent[t] THEN 1 ELSE 0

(* "The same ticket must NEVER admit two people", and a refunded one       *)
(* nobody: seen through its trail and status the gate is a Door.           *)
AtTheDoor == INSTANCE Door WITH
  admitted <- [t \in Tickets |-> log[<<t, TicketEvent[t], "allowed">>]],
  open <- [t \in Tickets |-> status[t] = "active"]

ImplementsDoor == AtTheDoor!Spec

(* "A missed increment or a lost key self-heals on the next reconcile":    *)
(* once the scanning is over the figure shown is the database's for good.  *)
Shown(e) == IF FastPath(e) THEN counter[e] ELSE Used(e)

AttendanceHeals == \A e \in Watched : <>[](Shown(e) = Used(e))
=============================================================================
