------------------------------ MODULE Checkout ------------------------------
(***************************************************************************)
(* The checkout in a buyer's browser (components/booking, lib/booking):    *)
(* the ticket picker, the review screen that takes the hold when it opens  *)
(* and again when that fails, the pay button, the failed-payment and the   *)
(* confirmation screen, one event, one tab.  The booking in context lives  *)
(* in the layout and outlives a screen; the attempt numbers live in        *)
(* sessionStorage and outlive a reload; `?booking=' lives in the URL.      *)
(*                                                                         *)
(* An answer reaches the closure that asked, whatever screen is open by    *)
(* then.  Effects run when a step is over (Settle).  The booking API is    *)
(* external here; the module Booking models it.                            *)
(***************************************************************************)
EXTENDS Naturals, Sequences, FiniteSets

CONSTANTS
  Sels, None,                \* selections, and the empty one
  MaxSteps, MaxFaults,       \* bounds: what the person does; what fails
  MaxHolds                   \* bound: bookings the server makes

VARIABLES
  c,                         \* the tab
  attempts,                  \* sessionStorage: attempt per selection, 0 if none is stored
  holds,                     \* server: the bookings, in order of creation
  steps, faults

vars == <<c, attempts, holds, steps, faults>>

ASSUME CheckoutConstants ==
  /\ None \notin Sels
  /\ {MaxSteps, MaxFaults, MaxHolds} \subseteq Nat

(* What changes the payment order: the donation, a code, another gateway,  *)
(* and the repair of a missing order.                                      *)
Writes == {"donation", "coupon", "gateway", "order"}

-----------------------------------------------------------------------------
(* A booking: `due' once its deadline has passed; `ver' counts what asks   *)
(* for a new payment order, another total or another gateway; `order' is   *)
(* the payment order it has, 0 if it has none; `cap' is the order that was *)
(* paid at the provider.                                                   *)
NewHold(r, st) ==
  [sel |-> r.sel, att |-> r.att, st |-> st, due |-> FALSE, ver |-> 1, order |-> 1, cap |-> 0]

IsLive(h) == holds[h].st = "reserved" /\ ~holds[h].due

(* What the tab holds of a booking: a copy, and the selection it was       *)
(* reserved for as far as the client knows.  History: `old', the server    *)
(* has changed its order since, and nothing is under way that will say so. *)
NoBooking == [id |-> 0, for |-> None, st |-> "none", order |-> 0, old |-> FALSE]

Copy(h, for) == [id |-> h, for |-> for, st |-> holds[h].st, order |-> holds[h].order, old |-> FALSE]

(* `mount' numbers the review screens and `layout' the layouts; `net' are  *)
(* the requests in flight.  History: `back', the last review URL; `gone',  *)
(* holds a cancel was sent for; `quit', a live hold was given up and       *)
(* nothing new asked for; `opened', the screen's check of the hold in its  *)
(* URL failed, which lets it reserve; `returned', the screen shows a       *)
(* booking that the tab knew to be paid; `stray', an answer that came too  *)
(* late changed the booking, the URL or an attempt, or a screen that says  *)
(* the hold ran out reserved by itself; `foreign', a hold in the URL was   *)
(* taken over for other tickets; `crossed', a write was overtaken, by      *)
(* another, by Pay or by another screen, or its answer lost; `loose',      *)
(* numbers of reserves that no screen got an answer to; `blind', a number  *)
(* was moved on that such a reserve, or one under way, may still take      *)
(* seats under, or that belonged to others than the booking given up or    *)
(* just paid for.                                                          *)
NoPay == <<0, 0>>                \* the booking and the order in the provider's checkout

Fresh ==
  [at |-> "out", sel |-> None, param |-> 0, ctx |-> NoBooking, layout |-> 0, mount |-> 0,
   checked |-> FALSE, asked |-> FALSE, attempted |-> FALSE, retried |-> FALSE, silent |-> FALSE,
   timer |-> FALSE, err |-> FALSE, over |-> FALSE, clearing |-> FALSE, retrying |-> FALSE,
   releasing |-> FALSE, nonce |-> FALSE, seen |-> <<>>, pending |-> {}, paying |-> NoPay, fromList |-> FALSE,
   net |-> {}, back |-> <<None, 0>>, gone |-> {}, quit |-> FALSE, opened |-> FALSE, returned |-> FALSE,
   stray |-> FALSE, foreign |-> FALSE, crossed |-> FALSE, loose |-> {}, blind |-> FALSE]

Init ==
  /\ c = Fresh
  /\ attempts = [s \in Sels |-> 0]
  /\ holds = <<>>
  /\ steps = 0 /\ faults = 0

-----------------------------------------------------------------------------
(* lib/booking/attempt.ts.                                                 *)

attemptIn(a, s) == IF a[s] >= 1 THEN a[s] ELSE 1

attemptFor(s) == attemptIn(attempts, s)

bumpAttempt(s) == [attempts EXCEPT ![s] = attemptFor(s) + 1]

(* Only what is stored is bumped: a first attempt is not.                  *)
bumpAllAttemptsForEvent ==
  attempts' = [s \in Sels |-> IF attempts[s] = 0 THEN 0 ELSE attempts[s] + 1]

(* History: may a reserve that nobody heard from stand under the number?   *)
Unheard(x, s) ==
  <<s, attemptFor(s)>> \in x.loose \cup {<<r.sel, r.att>> : r \in {q \in x.net : q.kind = "create"}}

MovesOn(x, s) == [x EXCEPT !.blind = @ \/ Unheard(x, s)]

MovesAllOn(x, h) ==
  [x EXCEPT !.blind = @ \/ \E s \in Sels : attempts[s] # 0 /\ (s # holds[h].sel \/ Unheard(x, s))]

-----------------------------------------------------------------------------
(* Requests.  A write whose payment order failed goes on as a re-read of   *)
(* the booking (ans = "reread").                                           *)

Request(x, kind, h, what) ==
  [kind |-> kind, layout |-> x.layout, mount |-> x.mount, h |-> h, what |-> what, for |-> x.ctx.for,
   sel |-> x.sel, att |-> 0, again |-> x.retried, since |-> Len(holds), ans |-> "sent", copy |-> NoBooking]

Send(x, r) == [x EXCEPT !.net = @ \cup {r}]

SendCancel(x, h, what) ==
  [Send(x, Request(x, "cancel", h, what)) EXCEPT !.gone = @ \cup {h}]

(* Is the screen, or the layout, that asked still there?                   *)
Mine(x, r) == x.at = "review" /\ r.mount = x.mount

Provided(x, r) == x.at # "out" /\ r.layout = x.layout

(* ... or the page, which a reload ends.                                   *)
Alive(r) == r.mount # 0

(* The answer is to a screen that was left, or to a write on a booking     *)
(* that was given up meanwhile.                                            *)
Stray(x, r) == ~Mine(x, r) \/ (r.kind = "write" /\ r.h \in x.gone)

setBooking(x, r, booking) ==
  IF Provided(x, r) THEN [x EXCEPT !.ctx = booking, !.stray = @ \/ Stray(x, r)] ELSE x

-----------------------------------------------------------------------------
(* The effects of the picker and of the review screen.                     *)

(* The picker gives back a hold it finds.                                  *)
Release(x) ==
  IF x.ctx.id = 0 \/ x.releasing THEN x
  ELSE [SendCancel(x, x.ctx.id, "picker") EXCEPT !.releasing = TRUE, !.ctx = NoBooking]

(* The zombie-checkout guard: the hold in the URL is asked for first.      *)
CheckHold_OpenGate(x) ==
  IF x.param = 0 \/ x.asked THEN x
  ELSE IF x.ctx.id # 0 THEN [x EXCEPT !.asked = TRUE, !.checked = TRUE]
  ELSE [Send(x, Request(x, "check", x.param, "none")) EXCEPT !.asked = TRUE, !.checked = TRUE]

CheckHold(x) ==
  IF x.param = 0 \/ x.asked THEN x
  ELSE IF x.ctx.id # 0 THEN [x EXCEPT !.asked = TRUE, !.checked = TRUE]
  ELSE [Send(x, Request(x, "check", x.param, "none")) EXCEPT !.asked = TRUE]

(* The booking in context may describe a different order.                  *)
staleBooking_ItemsOnly(x) ==
  x.ctx.id # 0 /\ x.ctx.for = None /\ holds[x.ctx.id].sel # x.sel

staleBooking(x) ==
  /\ x.ctx.id # 0
  /\ IF x.ctx.for # None THEN x.ctx.for # x.sel ELSE holds[x.ctx.id].sel # x.sel

ClearStale(x) ==
  IF ~staleBooking(x) \/ x.clearing THEN x
  ELSE [SendCancel(x, x.ctx.id, "clear") EXCEPT !.clearing = TRUE]

(* The reserve effect runs again when one of its dependencies changed.     *)
Reserve(x, a) ==
  LET deps == <<x.checked, x.ctx.id # 0, x.nonce>>
      y == [x EXCEPT !.seen = deps]
  IN  IF deps = x.seen \/ ~x.checked \/ x.ctx.id # 0 \/ x.attempted THEN y
      ELSE [Send(y, [Request(y, "create", 0, "none") EXCEPT !.att = attemptIn(a, y.sel)])
              EXCEPT !.attempted = TRUE, !.stray = @ \/ x.over]

(* Nothing chosen: the review screen goes back to the picker.              *)
Settle(x, a) ==
  CASE x.at = "picker" -> Release(x)
    [] x.at = "review" /\ x.sel = None -> Release([x EXCEPT !.at = "picker", !.param = 0, !.releasing = FALSE])
    [] x.at = "review" /\ x.sel # None ->
         LET y == Reserve(ClearStale(CheckHold(x)), a) IN [y EXCEPT !.back = <<y.sel, y.param>>]
    [] OTHER -> x

Become(x) == c' = Settle(x, attempts)

(* A bumped number is what the effects of the same step read.              *)
BecomeWith(x, s) == attempts' = bumpAttempt(s) /\ c' = Settle(x, bumpAttempt(s))

OpenReview(x, s, p) ==
  Become([x EXCEPT !.at = "review", !.sel = s, !.param = p, !.mount = @ + 1, !.checked = (p = 0),
            !.asked = FALSE, !.attempted = FALSE, !.retried = FALSE, !.silent = FALSE, !.timer = FALSE,
            !.err = FALSE, !.over = FALSE, !.clearing = FALSE, !.retrying = FALSE, !.nonce = FALSE,
            !.seen = <<>>, !.pending = {}, !.paying = NoPay, !.opened = FALSE, !.returned = x.ctx.st = "paid",
            !.crossed = @ \/ \E r \in x.net : r.kind = "write"])

OpenPicker(x, s, p) ==
  Become([x EXCEPT !.at = "picker", !.sel = s, !.param = p, !.releasing = FALSE, !.paying = NoPay])

(* A layout of its own: what was in memory is gone.                        *)
NewLayout(x) == [x EXCEPT !.layout = @ + 1, !.ctx = NoBooking]

(* A navigation to another screen of the checkout, from wherever one is.   *)
Landing(x, at, p) ==
  [IF x.at = "out" THEN NewLayout(x) ELSE x EXCEPT !.at = at, !.param = p, !.fromList = FALSE]

-----------------------------------------------------------------------------
(* The booking API.                                                        *)

Fault == faults < MaxFaults /\ faults' = faults + 1

Server(r, ans, h) ==
  c' = [c EXCEPT !.net = (@ \ {r}) \cup
          {[r EXCEPT !.ans = ans, !.h = h,
              !.copy = IF h = 0 THEN NoBooking
                       ELSE [id |-> h, for |-> r.sel, st |-> holds'[h].st, order |-> holds'[h].order,
                             old |-> FALSE]]}]

(* POST /bookings: a replay of what the key stands for, or a new hold; the *)
(* order may fail, which cancels the hold; the tickets may be gone.        *)
ServerCreate(r) ==
  LET same == {h \in DOMAIN holds : holds[h].sel = r.sel /\ holds[h].att = r.att}
      live == {h \in same : IsLive(h)}
      paid == {h \in same : holds[h].st = "paid"}
  IN  /\ r \in c.net /\ r.kind = "create" /\ r.ans = "sent"
      /\ \/ \E h \in live :
              \/ /\ holds' = [holds EXCEPT ![h].order = IF @ = 0 THEN holds[h].ver ELSE @]
                 /\ Server(r, "ok", h) /\ UNCHANGED faults
              \/ /\ holds[h].order = 0 /\ UNCHANGED faults
                 /\ holds' = [holds EXCEPT ![h].st = "cancelled"]
                 /\ Server(r, "failed", 0)
         \/ \E h \in paid : live = {} /\ UNCHANGED <<holds, faults>> /\ Server(r, "ok", h)
         \/ /\ live = {} /\ Len(holds) < MaxHolds
            /\ \/ /\ holds' = Append(holds, NewHold(r, "reserved"))
                  /\ Server(r, "ok", Len(holds) + 1) /\ UNCHANGED faults
               \/ /\ holds' = Append(holds, NewHold(r, "cancelled"))
                  /\ Server(r, "failed", 0) /\ Fault
         \/ live = {} /\ Fault /\ UNCHANGED holds /\ Server(r, "refused", 0)
      /\ UNCHANGED <<attempts, steps>>

(* The donation, a code, another gateway, and the repair of a missing      *)
(* order: the change is kept and asks for an order of its own, which may   *)
(* fail.  (What changes nothing is left out.)                              *)
ServerWrite(r) ==
  LET ver == holds[r.h].ver + (IF r.what = "order" THEN 0 ELSE 1)
  IN  /\ r \in c.net /\ r.kind = "write" /\ r.ans = "sent"
      /\ \/ /\ holds[r.h].st = "reserved"
            /\ holds' = [holds EXCEPT ![r.h].ver = ver, ![r.h].order = ver]
            /\ Server(r, "ok", r.h) /\ UNCHANGED faults
         \/ /\ holds[r.h].st = "reserved" /\ Fault
            /\ holds' = [holds EXCEPT ![r.h].ver = ver, ![r.h].order = 0]
            /\ Server(r, "failed", r.h)
         \/ /\ holds[r.h].st # "reserved"
            /\ UNCHANGED <<holds, faults>> /\ Server(r, "refused", r.h)
      /\ UNCHANGED <<attempts, steps>>

(* The deadline passes.  No request takes as long as a hold lasts.         *)
Lapse(h) ==
  /\ ~holds[h].due
  /\ \A r \in c.net : r.since >= h
  /\ holds' = [holds EXCEPT ![h].due = TRUE, ![h].st = IF @ = "reserved" THEN "expired" ELSE @]
  /\ UNCHANGED <<c, attempts, steps, faults>>

(* The payment of the booking's current order is confirmed.                *)
Confirm(h) ==
  /\ IsLive(h) /\ holds[h].cap # 0 /\ holds[h].cap = holds[h].order
  /\ holds' = [holds EXCEPT ![h].st = "paid"]
  /\ UNCHANGED <<c, attempts, steps, faults>>

-----------------------------------------------------------------------------
(* Answers, and what never answers.                                        *)

Answered(r) ==
  [c EXCEPT !.net = @ \ {r},
            !.loose = IF r.kind = "create" /\ ~Mine(c, r) THEN @ \cup {<<r.sel, r.att>>} ELSE @]

Again_Forgets(x) == [x EXCEPT !.attempted = FALSE]

(* attempted.current = false; setReserveNonce(n + 1)                       *)
Again(x) == [x EXCEPT !.attempted = FALSE, !.nonce = ~@]

(* The booking that came back can be paid for.                             *)
Reserved(r) ==
  /\ r.copy.st = "reserved" /\ ~holds[r.h].due
  /\ Become([setBooking(Answered(r), r, r.copy) EXCEPT
               !.param = IF c.at # "out" /\ Alive(r) THEN r.h ELSE @,
               !.stray = @ \/ (c.at # "out" /\ Alive(r) /\ Stray(c, r))])
  /\ UNCHANGED attempts

(* It was paid: a new attempt, at once.                                    *)
PaidBefore(r) ==
  LET x == setBooking(Answered(r), r, NoBooking)
  IN  /\ r.copy.st = "paid"
      /\ IF Alive(r) THEN BecomeWith(IF Mine(c, r) THEN Again(MovesOn(x, r.sel)) ELSE [x EXCEPT !.stray = TRUE], r.sel)
         ELSE Become(x) /\ UNCHANGED attempts

(* It has ended: a new attempt, once; the effect is not asked to run.      *)
EndedMeanwhile(r) ==
  LET x == setBooking(Answered(r), r, NoBooking)
  IN  /\ r.copy.st # "paid" /\ (r.copy.st # "reserved" \/ holds[r.h].due)
      /\ IF r.again \/ ~Alive(r)
         THEN /\ Become(IF Mine(c, r) THEN [Answered(r) EXCEPT !.err = TRUE] ELSE Answered(r))
              /\ UNCHANGED attempts
         ELSE BecomeWith(IF Mine(c, r) THEN [MovesOn(x, r.sel) EXCEPT !.retried = TRUE, !.attempted = FALSE]
                         ELSE [x EXCEPT !.stray = TRUE], r.sel)

ReserveFailed_Bumps(x, r, transient) ==
  IF Mine(c, r) /\ transient /\ ~x.silent
  THEN BecomeWith([x EXCEPT !.silent = TRUE, !.timer = TRUE], r.sel)
  ELSE Become(IF Mine(c, r) THEN [x EXCEPT !.err = TRUE] ELSE x) /\ UNCHANGED attempts

(* One silent retry with the same key, then the error.                     *)
ReserveFailed(x, r, transient) ==
  /\ Become(IF ~Mine(c, r) THEN x
            ELSE IF transient /\ ~x.silent THEN [x EXCEPT !.silent = TRUE, !.timer = TRUE]
            ELSE [x EXCEPT !.err = TRUE])
  /\ UNCHANGED attempts

CreateAnswer(r) ==
  /\ r \in c.net /\ r.kind = "create" /\ r.ans # "sent"
  /\ \/ r.ans = "ok" /\ (Reserved(r) \/ PaidBefore(r) \/ EndedMeanwhile(r))
     \/ r.ans # "ok" /\ ReserveFailed(Answered(r), r, r.ans = "failed")
  /\ UNCHANGED <<holds, steps, faults>>

(* Adopted with the signature of the selection on the screen that asked.   *)
Adopt(x, r) ==
  [setBooking(x, r, Copy(r.h, r.sel)) EXCEPT !.foreign = @ \/ (Provided(x, r) /\ holds[r.h].sel # r.sel)]

(* GET the live hold: adopt it, or leave, whatever screen is open by then. *)
CheckAnswer(r) ==
  LET x == Answered(r)
      late == [x EXCEPT !.stray = @ \/ ~Mine(c, r)]
      st == IF holds[r.h].st = "reserved" THEN "live" ELSE holds[r.h].st
  IN  /\ r \in c.net /\ r.kind = "check"
      /\ Become(CASE st = "live" /\ Mine(c, r) ->
                     [Adopt(x, r) EXCEPT !.attempted = TRUE, !.checked = TRUE]
                  [] st = "live" /\ ~Mine(c, r) -> Adopt(x, r)
                  [] st = "paid" /\ Alive(r) -> Landing(late, "confirmation", r.h)
                  [] st \notin {"live", "paid"} /\ Alive(r) ->
                       [late EXCEPT !.at = "out", !.sel = None, !.ctx = NoBooking]
                  [] OTHER -> x)
      /\ UNCHANGED <<attempts, holds, steps, faults>>

(* A cancel gives the seats back if they are still held.                   *)
CancelAnswer(r, arrives) ==
  LET x == Answered(r)
  IN  /\ r \in c.net /\ r.kind = "cancel"
      /\ holds' = IF arrives /\ holds[r.h].st = "reserved"
                  THEN [holds EXCEPT ![r.h].st = "cancelled"] ELSE holds
      /\ CASE r.what = "clear" /\ Mine(c, r) ->
                Become([x EXCEPT !.attempted = FALSE, !.ctx = NoBooking, !.clearing = FALSE])
           [] r.what = "retry" /\ Mine(c, r) ->
                Become([Again(x) EXCEPT !.over = FALSE, !.err = FALSE, !.ctx = NoBooking, !.retrying = FALSE])
           [] r.what \in {"clear", "retry"} /\ ~Mine(c, r) -> Become(setBooking(x, r, NoBooking))
           [] r.what = "picker" -> c' = IF x.at = "picker" THEN [x EXCEPT !.releasing = FALSE] ELSE x
           [] OTHER -> c' = x
      /\ UNCHANGED <<attempts, steps>>

(* A repaired order opens the payment.  A donation or a code whose order   *)
(* failed makes the screen re-read the booking; a gateway whose order      *)
(* failed is dropped in silence.  A screen that is still there waits for   *)
(* the re-read too (`pending').                                            *)
WriteDone(x, r) == [x EXCEPT !.pending = IF Mine(x, r) THEN @ \ {r.what} ELSE @]

(* History: the booking shown is not the one the server has now.           *)
Outdated(x, r) == [x EXCEPT !.ctx.old = @ \/ (Provided(x, r) /\ x.ctx.id = r.h)]

WriteOk(r) ==
  LET x == WriteDone(Answered(r), r)
      shown == [r.copy EXCEPT !.for = IF r.what = "donation" THEN None ELSE r.for]
  IN  /\ r.ans = "ok"
      /\ Become(IF r.what # "order" THEN setBooking(x, r, shown)
                ELSE [setBooking(x, r, shown) EXCEPT
                        !.paying = IF Alive(r) THEN <<r.h, r.copy.order>> ELSE @,
                        !.stray = @ \/ (Alive(r) /\ Stray(c, r))])

WriteFailed_NoResync(r) ==
  /\ r.ans \in {"failed", "refused"}
  /\ Become(WriteDone(IF r.ans = "failed" /\ r.what = "gateway" THEN Outdated(Answered(r), r) ELSE Answered(r), r))

WriteFailed(r) ==
  /\ r.ans \in {"failed", "refused"}
  /\ Become(CASE r.ans = "failed" /\ r.what \in {"donation", "coupon"} /\ Alive(r) ->
                  Send(Answered(r), [r EXCEPT !.ans = "reread", !.copy = NoBooking])
              [] r.ans = "failed" /\ r.what = "gateway" -> WriteDone(Outdated(Answered(r), r), r)
              [] OTHER -> WriteDone(Answered(r), r))

WriteAnswer(r) ==
  /\ r \in c.net /\ r.kind = "write" /\ (WriteOk(r) \/ WriteFailed(r))
  /\ UNCHANGED <<attempts, holds, steps, faults>>

(* resyncBooking: what is read is shown, whatever its status.              *)
ReadAnswer(r) ==
  /\ r \in c.net /\ r.kind = "write" /\ r.ans = "reread"
  /\ LET x == setBooking(WriteDone(Answered(r), r), r, Copy(r.h, r.for))
     IN  Become([x EXCEPT !.returned = @ \/ (Provided(c, r) /\ holds[r.h].st = "paid")])
  /\ UNCHANGED <<attempts, holds, steps, faults>>

(* The request, or its answer, is lost; a re-read, in the same outage that *)
(* failed its write.  A check that fails lets the screen reserve; a        *)
(* re-read that fails is ignored.                                          *)
Lost(r) ==
  LET x == Answered(r)
  IN  /\ r \in c.net /\ r.kind # "cancel"
      /\ IF r.ans = "reread" THEN UNCHANGED faults ELSE Fault
      /\ CASE r.kind = "create" ->
                ReserveFailed([x EXCEPT !.loose = @ \cup {<<r.sel, r.att>>}], r, TRUE)
           [] r.kind = "check" ->
                /\ Become(IF Mine(c, r) THEN [x EXCEPT !.checked = TRUE, !.opened = TRUE] ELSE x)
                /\ UNCHANGED attempts
           [] r.kind = "write" /\ r.ans = "reread" ->
                Become(WriteDone(Outdated(x, r), r)) /\ UNCHANGED attempts
           [] r.kind = "write" /\ r.ans # "reread" ->
                Become([WriteDone(x, r) EXCEPT !.crossed = @ \/ r.ans # "sent"]) /\ UNCHANGED attempts
      /\ UNCHANGED <<holds, steps>>

Network ==
  \E r \in c.net :
    \/ ServerCreate(r) \/ ServerWrite(r)
    \/ CreateAnswer(r) \/ CheckAnswer(r) \/ WriteAnswer(r) \/ ReadAnswer(r)
    \/ CancelAnswer(r, TRUE) /\ UNCHANGED faults
    \/ CancelAnswer(r, FALSE) /\ Fault
    \/ Lost(r)

-----------------------------------------------------------------------------
(* Timers of the review screen.                                            *)

reserving == \E r \in c.net : r.kind = "create" /\ Mine(c, r)

Shown == c.at = "review" /\ ~c.over /\ (c.err \/ (c.ctx.id # 0 /\ ~reserving))

SilentRetry ==
  /\ c.at = "review" /\ c.timer
  /\ Become(Again([c EXCEPT !.timer = FALSE]))
  /\ UNCHANGED <<attempts, holds, steps, faults>>

(* The countdown reaches zero.                                             *)
expireHold ==
  /\ Shown /\ c.ctx.id # 0 /\ c.ctx.st # "paid" /\ holds[c.ctx.id].due
  /\ BecomeWith([SendCancel(MovesOn(c, c.sel), c.ctx.id, "none") EXCEPT !.over = TRUE, !.ctx = NoBooking], c.sel)
  /\ UNCHANGED <<holds, steps, faults>>

(* The confirmation screen's poll publishes what it read.                  *)
Poll ==
  /\ c.at = "confirmation" /\ c.ctx # Copy(c.param, None)
  /\ LET x == [c EXCEPT !.ctx = Copy(c.param, None)]
     IN  IF holds[c.param].st = "paid"
         THEN /\ Become([MovesAllOn(x, c.param) EXCEPT !.blind = @ \/ c.fromList])
              /\ bumpAllAttemptsForEvent
         ELSE Become(x) /\ UNCHANGED attempts
  /\ UNCHANGED <<holds, steps, faults>>

(* The failure screen finds that the payment went through after all.       *)
PaidAfterAll ==
  /\ c.at = "failed" /\ holds[c.param].st = "paid"
  /\ Become(Landing(c, "confirmation", c.param))
  /\ UNCHANGED <<attempts, holds, steps, faults>>

-----------------------------------------------------------------------------
(* What the person does.                                                   *)

Step == steps < MaxSteps /\ steps' = steps + 1

Here == Step /\ UNCHANGED <<attempts, holds, faults>>

(* On the picker, from the event page or with another quantity.            *)
Choose(s) ==
  /\ Here /\ c.at \in {"out", "picker"} /\ s # c.sel
  /\ IF c.at = "out" THEN OpenPicker(NewLayout(c), s, 0) ELSE Become([c EXCEPT !.sel = s])

advance ==
  /\ Here /\ c.at = "picker" /\ c.sel # None
  /\ OpenReview([c EXCEPT !.quit = FALSE], c.sel, c.param)

Change ==
  /\ Here /\ Shown
  /\ OpenPicker(c, c.sel, 0)

(* The browser's Back, which a live hold intercepts, and its way to the    *)
(* last review screen, with the booking that is in context then: from the  *)
(* confirmation screen, the one it polled; and a reload.                   *)
BrowserBack ==
  /\ Here
  /\ \/ c.at = "review" /\ (c.ctx.id # 0 => ~IsLive(c.ctx.id)) /\ OpenPicker(c, c.sel, 0)
     \/ c.at = "failed" /\ OpenReview(c, c.back[1], c.back[2])
     \/ /\ c.at = "picker" \/ (c.at = "confirmation" /\ ~c.fromList)
        /\ c.back[1] # None /\ OpenReview(c, c.back[1], c.back[2])
     \/ c.at = "out" /\ c.back[1] # None /\ OpenReview(NewLayout(c), c.back[1], c.back[2])

Reload ==
  /\ Here /\ c.at = "review"
  /\ OpenReview([NewLayout(c) EXCEPT !.net = {[r EXCEPT !.layout = 0, !.mount = 0] : r \in @}], c.sel, c.param)

(* The back arrow: asks about a live hold, releases it and leaves; what    *)
(* was chosen is cleared.                                                  *)
leave ==
  /\ Step /\ c.at \in {"picker", "review"}
  /\ IF c.ctx.id # 0 /\ IsLive(c.ctx.id)
     THEN /\ c' = [SendCancel(MovesAllOn(c, c.ctx.id), c.ctx.id, "none") EXCEPT
                      !.at = "out", !.sel = None, !.ctx = NoBooking, !.quit = TRUE]
          /\ bumpAllAttemptsForEvent
     ELSE c' = [c EXCEPT !.at = "out", !.sel = None, !.ctx = NoBooking] /\ UNCHANGED attempts
  /\ UNCHANGED <<holds, faults>>

(* Try again, and Get these tickets again.                                 *)
retryHold ==
  LET x == [c EXCEPT !.silent = FALSE, !.quit = FALSE]
  IN  /\ Step /\ c.at = "review" /\ ~c.retrying
      /\ c.over \/ (c.err /\ c.ctx.id = 0)
      /\ IF c.ctx.id # 0
         THEN BecomeWith([SendCancel(MovesOn(x, c.sel), c.ctx.id, "retry") EXCEPT !.retrying = TRUE], c.sel)
         ELSE BecomeWith([Again(MovesOn(x, c.sel)) EXCEPT !.over = FALSE, !.err = FALSE], c.sel)
      /\ UNCHANGED <<holds, faults>>

(* A donation, a code, another gateway: each has one write at a time.      *)
changeTotal(k) ==
  /\ Here /\ Shown /\ c.ctx.id # 0 /\ k \in {"donation", "coupon", "gateway"} \ c.pending
  /\ Become([Send(c, Request(c, "write", c.ctx.id, k)) EXCEPT
               !.pending = @ \cup {k}, !.crossed = @ \/ c.pending # {}])

(* Pay: the order of the booking shown, repaired first if it has none.  A  *)
(* gateway under way does not keep anybody from pressing it, and the       *)
(* deadline does not count for a booking that is paid.                     *)
pay ==
  /\ Here /\ Shown /\ c.ctx.id # 0 /\ c.pending \subseteq {"gateway"} /\ c.paying = NoPay
  /\ holds[c.ctx.id].due => c.ctx.st = "paid"
  /\ LET x == [c EXCEPT !.crossed = @ \/ c.pending # {}]
     IN  Become(IF c.ctx.order # 0 THEN [x EXCEPT !.paying = <<c.ctx.id, c.ctx.order>>]
                ELSE [Send(x, Request(c, "write", c.ctx.id, "order")) EXCEPT !.pending = @ \cup {"order"}])

(* ... and again on the failure screen, which reads the booking itself.    *)
(* (There too a missing order is repaired first; that is left out.)        *)
payAgain ==
  /\ Here /\ c.at = "failed" /\ c.paying = NoPay
  /\ IsLive(c.param) /\ holds[c.param].order # 0
  /\ c' = [c EXCEPT !.paying = <<c.param, holds[c.param].order>>]

(* The provider's checkout: paid, declined (it says), or closed.           *)
Outcome ==
  /\ Step /\ c.paying # NoPay
  /\ LET h == c.paying[1]
         x == [c EXCEPT !.paying = NoPay]
         captured == [holds EXCEPT ![h].cap = c.paying[2]]
     IN  \/ /\ holds' = captured
            /\ Become(Landing(x, "confirmation", h))
         \/ holds' \in {holds, captured} /\ Become(Landing(x, "failed", h))
         \/ Become(x) /\ UNCHANGED holds
  /\ UNCHANGED <<attempts, faults>>

(* Ways out of the last two screens, and into the last from the bookings   *)
(* list.  "Finish payment" and the failure screen's "Back to your booking" *)
(* open the review screen without a selection.                             *)
LeaveForGood ==
  /\ Here /\ c.at \in {"failed", "confirmation"}
  /\ c' = [c EXCEPT !.at = "out", !.sel = None, !.ctx = NoBooking]

OpenFromList(h) ==
  /\ Here /\ c.at = "out"
  /\ Become([NewLayout(c) EXCEPT !.at = "confirmation", !.param = h, !.fromList = TRUE])

BackToReview ==
  /\ Here
  /\ c.at = "failed" \/ (c.at = "confirmation" /\ c.fromList /\ c.ctx.id # 0 /\ IsLive(c.ctx.id))
  /\ OpenReview(c, None, 0)

(* The provider's modal covers the page while it is open.                  *)
Person ==
  \/ BrowserBack \/ Reload \/ Outcome
  \/ /\ c.paying = NoPay
     /\ \/ \E s \in Sels : Choose(s)
        \/ advance \/ Change \/ leave \/ retryHold
        \/ \E k \in Writes : changeTotal(k)
        \/ pay \/ payAgain \/ LeaveForGood \/ BackToReview
        \/ \E h \in DOMAIN holds : OpenFromList(h)

Next ==
  \/ Network \/ SilentRetry \/ expireHold \/ Poll \/ PaidAfterAll
  \/ \E h \in DOMAIN holds : Lapse(h) \/ Confirm(h)
  \/ Person

Spec == Init /\ [][Next]_vars

-----------------------------------------------------------------------------
(* Types, one live hold per idempotency key, and a screen that asks about  *)
(* one hold at a time: the one in its URL or the one it reserves.          *)
CheckoutTypeOK ==
  /\ c.at \in {"out", "picker", "review", "failed", "confirmation"}
  /\ {c.ctx.id, c.param, c.paying[1]} \subseteq 0 .. Len(holds)
  /\ attempts \in [Sels -> Nat]
  /\ \A g, h \in DOMAIN holds :
       IsLive(g) /\ IsLive(h) /\ holds[g].sel = holds[h].sel /\ holds[g].att = holds[h].att => g = h
  /\ \A q, r \in c.net : {q.kind, r.kind} \subseteq {"check", "create"} /\ Mine(c, q) /\ Mine(c, r) => c.stray \/ q = r

(* NO HOLD IS FORGOTTEN: seats that are held are those of the booking in   *)
(* context, or a cancel was sent for them, or reserving that selection     *)
(* again is answered with them: nothing takes a second set of seats while  *)
(* the first goes on being held for nobody.  Left out are the histories in *)
(* which it does happen: a number moved on while a reserve under it was    *)
(* unanswered or its answer lost, or moved on with the others of the event *)
(* (blind; step-review.tsx:562, funnel-shell.tsx:233), and an answer that  *)
(* came to a screen that was left (stray; step-review.tsx:401).            *)
NoForgottenHold ==
  \A h \in DOMAIN holds :
    IsLive(h) /\ h \notin c.gone /\ ~c.blind /\ ~c.stray
      => c.ctx.id = h \/ attemptFor(holds[h].sel) = holds[h].att

(* THE ORDER SHOWN IS THE ORDER CHOSEN: the review screen shows a hold on  *)
(* the tickets in its URL, or is about to give it back.  Left out: a hold  *)
(* that was adopted from the URL under the signature of other tickets      *)
(* (foreign; step-review.tsx:231).                                         *)
ShowsWhatWasChosen ==
  Shown /\ c.ctx.id # 0 /\ ~c.clearing /\ ~c.foreign => holds[c.ctx.id].sel = c.sel

(* THE LOADER ENDS: a review screen without a hold, a failure or an        *)
(* expiry to show waits for something that is still to come.  Left out:    *)
(* the screen whose reserve was answered with a hold that has ended, which *)
(* asks for nothing more (retried; step-review.tsx:382-391), and late      *)
(* answers (stray).                                                        *)
LoaderEnds ==
  c.at = "review" /\ c.ctx.id = 0 /\ ~c.err /\ ~c.over /\ ~c.retried /\ ~c.stray
    => c.timer \/ \E r \in c.net : Mine(c, r)

(* PAY OPENS THE CURRENT ORDER: the provider is opened on the order that   *)
(* the booking has now, and from the review screen not for a booking that  *)
(* the tab knows to be paid (payment-section.tsx:95-105, step-review.tsx:  *)
(* 308-315, 579-587).  Left out are the histories in which the code opens  *)
(* another: a write was overtaken, or its answer lost (crossed) or late    *)
(* (stray); the re-read after a failed order failed too, or another        *)
(* gateway got no order (old; step-review.tsx:588-593, payment-section.    *)
(* tsx:651-656: only an order that is missing on the screen is repaired);  *)
(* another gateway is under way; and Back came from the confirmation of    *)
(* the booking, or the re-read found it paid (returned).                   *)
PaysTheCurrentTotal ==
  [][c'.paying # c.paying /\ c'.paying # NoPay =>
       \/ c.crossed \/ c.stray \/ c.ctx.old \/ "gateway" \in c.pending
       \/ /\ holds[c'.paying[1]].order = c'.paying[2]
          /\ c.at = "review" => c.ctx.st # "paid" \/ c.returned]_vars

(* NO ZOMBIE CHECKOUT: the screen reserves nothing for somebody who gave   *)
(* up a live hold and has only gone back or reloaded since.  Left out: the *)
(* reserve after a check of the hold in the URL that failed (opened),      *)
(* which step-review.tsx:247-250 wants, and late answers (stray).          *)
NoZombieReserve ==
  [][\A r \in c'.net \ c.net :
       r.kind = "create" /\ Mine(c', r) /\ r.ans = "sent" => ~c'.quit \/ c'.opened \/ c'.stray]_vars

=============================================================================
