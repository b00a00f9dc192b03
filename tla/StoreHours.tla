------------------------------ MODULE StoreHours ------------------------------
(***************************************************************************)
(* One store's OPEN/CLOSED switch and everyone who moves it: the vendor's  *)
(* toggle and saved hours (vendor/storefront.py), the worker's minute      *)
(* (business_hours.sync_all), an operator's approval, suspension and       *)
(* deactivation (storefront.set_verified, admin/vendors.py), and the       *)
(* owner's account deletion (account_deletion._close_store).               *)
(*                                                                         *)
(* A request reads the row without a lock and later writes the columns it  *)
(* changed; the sweep reads every row first and then writes each one with  *)
(* one conditional UPDATE.                                                 *)
(***************************************************************************)
EXTENDS BusinessHours, FiniteSets

CONSTANTS
    Schedules,    \* bound: the weekly hours a vendor may save
    Sessions,     \* database sessions that may be open at the same time
    Migrated,     \* may the store's hours predate the scheduled_open column?
    None

\* A pass of the worker over the store: the values it read and the answer it will
\* write; alone: nothing has overlapped it.
Pass == [hours : Schedules \cup {None}, last : BOOLEAN \cup {None},
         answer : BOOLEAN, alone : BOOLEAN]

ASSUME StoreAssumption ==
    /\ Schedules \subseteq Schedule
    /\ Migrated \in BOOLEAN
    /\ None \notin Schedules /\ None \notin BOOLEAN /\ None \notin Pass

Switch == {"OPEN", "CLOSED"}

\* The columns of `restaurants` that decide whether it trades.
Store == [hours : Schedules \cup {None}, scheduled : BOOLEAN \cup {None},
          status : Switch, verified : BOOLEAN, active : BOOLEAN]

Kinds == {"toggle", "hours", "verify", "activate", "close"}
Request == [kind : Kinds, snap : Store, new : Store]

VARIABLES
    now,     \* the minute of the week
    store,
    gone,    \* the owner's account is deleted
    req,     \* the open request of each session
    sweep,   \* the worker's minute, between its read and its write
    swept,   \* a pass of the worker that nothing overlapped has ended this minute
    word     \* the vendor's last toggle, until the hours next change

vars == <<now, store, gone, req, sweep, swept, word>>

Answer(row) == row.hours # None /\ IsOpenAt(row.hours, now)
Synced(row) == row.hours # None => row.scheduled = Answer(row)

\* A store without hours, or one whose hours were saved before scheduled_open
\* existed (migration 0013 adds the column as NULL).  An operator's "create
\* vendor" may already have it verified.
Init ==
    /\ now = 0
    /\ store \in Store
    /\ store.scheduled = None /\ store.active
    /\ ~store.verified => store.status = "CLOSED"
    /\ store.hours # None => Migrated
    /\ gone = FALSE
    /\ req = [s \in Sessions |-> None]
    /\ sweep = None
    /\ swept = FALSE
    /\ word = None

(***************************************************************************)
(* Requests                                                                *)
(***************************************************************************)
Start(s, kind, new) ==
    /\ req[s] = None
    /\ req' = [req EXCEPT ![s] = [kind |-> kind, snap |-> store, new |-> new]]
    /\ UNCHANGED <<now, store, gone, sweep, swept, word>>

\* The vendor's switch, whatever the approval says; an operator may set it too,
\* as the hours, even when the owner is gone.
SetStoreStatus(s, status) ==
    Start(s, "toggle", [store EXCEPT !.status = status])

\* Saving the week applies it at once, whatever the toggle says.
SetHours(s, hours) ==
    LET open == IsOpenAt(hours, now) IN
    Start(s, "hours", [store EXCEPT !.hours = hours, !.scheduled = open,
                                    !.status = IF open THEN "OPEN" ELSE "CLOSED"])

SetVerified(s, verified) ==
    /\ store.verified # verified
    /\ Start(s, "verify", [store EXCEPT !.verified = verified,
                                        !.status = IF verified THEN @ ELSE "CLOSED"])

SetActive(s, active) == Start(s, "activate", [store EXCEPT !.active = active])

\* The owner deletes the account: closed, off the app, off the schedule.
CloseStore(s) ==
    /\ ~gone
    /\ Start(s, "close", [store EXCEPT !.active = FALSE, !.status = "CLOSED",
                                       !.hours = None, !.scheduled = None])

\* Only the columns that differ from the values read are written.
Flushed(t) == [c \in DOMAIN store |->
    IF t.new[c] # t.snap[c] THEN t.new[c] ELSE store[c]]

\* A toggle that nothing overlapped, made once the worker has caught up.
Caught(t) == store = t.snap /\ sweep = None /\ store.hours # None /\ Synced(store)

\* A pass of the worker that something else overlaps.
Disturbed == IF sweep = None THEN None ELSE [sweep EXCEPT !.alone = FALSE]

Commit(s) ==
    LET t == req[s] IN
    /\ t # None
    /\ store' = Flushed(t)
    /\ gone' = (gone \/ t.kind = "close")
    /\ req' = [req EXCEPT ![s] = None]
    /\ swept' = FALSE
    /\ sweep' = Disturbed
    /\ word' = CASE t.kind = "toggle" /\ Caught(t) -> t.new.status
                 [] t.kind = "activate" -> word
                 [] OTHER -> None
    /\ UNCHANGED now

Abort(s) ==
    /\ req[s] # None
    /\ req' = [req EXCEPT ![s] = None]
    /\ UNCHANGED <<now, store, gone, sweep, swept, word>>

(***************************************************************************)
(* The worker's minute                                                     *)
(***************************************************************************)
\* Mutant of SweepRead: the answer is compared with the switch itself.
SweepReadByStatus ==
    /\ sweep = None /\ ~swept
    /\ IF store.hours # None => (store.status = "OPEN") = Answer(store)
       THEN swept' = TRUE /\ UNCHANGED sweep
       ELSE /\ sweep' = [hours |-> store.hours, last |-> store.scheduled,
                         answer |-> Answer(store), alone |-> TRUE]
            /\ UNCHANGED swept
    /\ UNCHANGED <<now, store, gone, req, word>>

\* sync_all reads the row, asks the schedule and compares the answer with the
\* last one; nothing is written when they agree.
SweepRead ==
    /\ sweep = None /\ ~swept
    /\ IF Synced(store)
       THEN swept' = TRUE /\ UNCHANGED sweep
       ELSE /\ sweep' = [hours |-> store.hours, last |-> store.scheduled,
                         answer |-> Answer(store), alone |-> TRUE]
            /\ UNCHANGED swept
    /\ UNCHANGED <<now, store, gone, req, word>>

Applied == [store EXCEPT !.scheduled = sweep.answer,
                         !.status = IF sweep.answer THEN "OPEN" ELSE "CLOSED"]

\* Mutant of SweepWrite: the UPDATE names the store alone.
SweepWriteAlways ==
    /\ sweep # None
    /\ store' = Applied
    /\ sweep' = None /\ swept' = sweep.alone
    /\ UNCHANGED <<now, gone, req, word>>

\* UPDATE ... WHERE scheduled_open IS <the value read>.
SweepWrite ==
    /\ sweep # None
    /\ store' = IF store.scheduled = sweep.last THEN Applied ELSE store
    /\ sweep' = None /\ swept' = sweep.alone
    /\ UNCHANGED <<now, gone, req, word>>

\* A deploy or a crash loses the pass; one more may run at startup.
SweepLost ==
    /\ sweep # None
    /\ sweep' = None
    /\ UNCHANGED <<now, store, gone, req, swept, word>>

\* The clock moves on; the minute's pass may have been missed altogether.
Tick ==
    /\ now' = (now + 1) % WeekLength
    /\ swept' = FALSE
    /\ word' = IF store.hours # None /\ IsOpenAt(store.hours, now') # Answer(store)
               THEN None ELSE word
    /\ sweep' = Disturbed
    /\ UNCHANGED <<store, gone, req>>

Next ==
    \/ \E s \in Sessions :
          \/ \E status \in Switch : SetStoreStatus(s, status)
          \/ \E hours \in Schedules : SetHours(s, hours)
          \/ \E on \in BOOLEAN : SetVerified(s, on) \/ SetActive(s, on)
          \/ CloseStore(s)
          \/ Commit(s)
          \/ Abort(s)
    \/ SweepRead \/ SweepWrite \/ SweepLost
    \/ Tick

Spec == Init /\ [][Next]_vars

(***************************************************************************)
(* Properties                                                              *)
(***************************************************************************)
\* Every variable holds a value of its kind.
TypeOK ==
    /\ now \in 0..(WeekLength - 1)
    /\ store \in Store
    /\ gone \in BOOLEAN /\ swept \in BOOLEAN
    /\ req \in [Sessions -> Request \cup {None}]
    /\ sweep \in Pass \cup {None}
    /\ word \in Switch \cup {None}

\* Whatever minutes were missed and whatever raced before it, after one whole
\* pass that nothing overlapped the store has been told what its hours say at
\* this very minute.
SweptIsCurrent ==
    swept /\ store.hours # None => store.scheduled = OpenByTheClock(store.hours, now)

\* What the screens say of later is so: the next change they announce is the minute the
\* store really changes, for every week's hours (next_change); and every time the
\* Schedule Order sheet offers within the days ahead can be ordered for: the sheet and
\* the checkout, which work it out each in their own way, agree, through midnight and
\* overlapping periods.
TimesShownAreReal ==
    /\ now \notin WrongChange
    /\ store.hours # None => \A slot \in schedule_options(store.hours, now) :
          slot <= now + DaysAhead * DayLength => _validate_schedule(store.hours, now, slot)

\* A toggle made once the worker has caught up holds until the hours next open
\* or close the store, however many passes run in between.
ToggleHolds == word # None => store.status = word

\* A pass that read the store before its owner deleted the account does not
\* open it afterwards, off the schedule as it is.
DeletedNotReopened == [][gone /\ store.hours = None /\ sweep # None /\ sweep' = None =>
    store'.status = store.status]_vars
=============================================================================
