---------------------------- MODULE BackOfficeProofs ------------------------
(***************************************************************************)
(* What holds of the machines on Desk for any number of clerks, rows and   *)
(* scripts, however their requests overlap.                                *)
(***************************************************************************)
EXTENDS BackOfficeInvariants, FiniteSetTheorems, WellFoundedInduction, TLAPS

(***************************************************************************)
(* Requests and commits                                                    *)
(***************************************************************************)

LEMMA MergedRows ==
    ASSUME NEW table, NEW seen, NEW new
    PROVE  IsMerge(Merged(table, seen, new), table, seen, new)
BY DEF Merged, Column, IsMerge

\* The rows a request neither adds nor removes nor changes.
LEMMA UnwrittenRows ==
    ASSUME NEW M, NEW table, NEW seen, NEW new, IsMerge(M, table, seen, new), NEW k \in DOMAIN table,
           table[k] = [c \in DOMAIN table[k] |-> table[k][c]],
           k \in DOMAIN seen <=> k \in DOMAIN new,
           k \in DOMAIN seen => new[k] = seen[k]
    PROVE  k \in DOMAIN M /\ M[k] = table[k]
<1>1. k \in DOMAIN M
  BY DEF IsMerge
<1>2. CASE k \in DOMAIN seen
  <2>1. M[k] = Column(table[k], seen[k], new[k])
    BY <1>2 DEF IsMerge
  <2>2. Column(table[k], seen[k], seen[k]) = table[k]
    BY DEF Column
  <2> QED BY <1>1, <1>2, <2>1, <2>2
<1>3. CASE k \notin DOMAIN seen
  BY <1>1, <1>3 DEF IsMerge
<1> QED BY <1>2, <1>3

\* A row that is as the request read it.
LEMMA HeldRows ==
    ASSUME NEW M, NEW table, NEW seen, NEW new, IsMerge(M, table, seen, new), NEW k \in DOMAIN table,
           k \in DOMAIN seen, k \in DOMAIN new, table[k] = seen[k],
           new[k] = [c \in DOMAIN table[k] |-> new[k][c]]
    PROVE  k \in DOMAIN M /\ M[k] = new[k]
<1>1. k \in DOMAIN M
  BY DEF IsMerge
<1>2. M[k] = Column(table[k], seen[k], new[k])
  BY DEF IsMerge
<1>3. Column(table[k], seen[k], new[k]) = new[k]
  BY DEF Column
<1> QED BY <1>1, <1>2, <1>3

\* What a request writes and nobody else may write meanwhile.
LEMMA NotHeldElsewhere ==
    ASSUME NEW s \in Clerks, NEW u \in Clerks, u # s, txn[u] # None,
           \A row \in Writes(txn[s]) : ~Locked(s, row)
    PROVE  \A t \in DOMAIN db : \A k \in DOMAIN txn[s].seen[t] :
              <<t, k>> \in txn[u].holds => k \in DOMAIN txn[s].new[t] /\ txn[s].new[t][k] = txn[s].seen[t][k]
<1> SUFFICES ASSUME NEW t \in DOMAIN db, NEW k \in DOMAIN txn[s].seen[t], <<t, k>> \in txn[u].holds,
                    ~(k \in DOMAIN txn[s].new[t] /\ txn[s].new[t][k] = txn[s].seen[t][k])
             PROVE  FALSE
  OBVIOUS
<1>1. <<t, k>> \in Writes(txn[s])
  BY DEF Writes
<1> QED BY <1>1 DEF Locked

LEMMA AddedRow ==
    ASSUME NEW table, NEW id, NEW row, id \notin DOMAIN table
    PROVE  IsAdd(Add(table, id, row), table, id, row)
BY DEF Add, Joined, Only, IsAdd

\* The least of some ids is one of them.
LEMMA LeastIn ==
    ASSUME NEW ids \in SUBSET Nat, ids # {}
    PROVE  Least(ids) \in ids
<1>1. PICK n \in ids : \A m \in ids : <<m, n>> \notin OpToRel(<, Nat)
  BY WFMin, NatLessThanWellFounded, Zenon
<1>2. \A m \in ids : ~(m < n)
  BY <1>1, Zenon DEF OpToRel
<1>3. \A m \in ids : n <= m
  BY <1>2
<1> QED BY <1>3 DEF Least

\* A new id is in no table and in no open request.
LEMMA FreshIds ==
    ASSUME NEW t \in DOMAIN db, NEW ids, NEW n \in Fresh(t, ids)
    PROVE  /\ n \in ids /\ n \notin DOMAIN db[t]
           /\ \A u \in Clerks : txn[u] # None =>
                 n \notin DOMAIN txn[u].seen[t] /\ n \notin DOMAIN txn[u].new[t]
<1>1. \A u \in Clerks : txn[u] # None => txn[u] \in Open
  BY DEF Open
<1>2. \A S \in {DOMAIN db[t]} \cup {DOMAIN r.seen[t] \cup DOMAIN r.new[t] : r \in Open} : n \notin S
  BY DEF Fresh
<1>3. n \in ids
  BY DEF Fresh
<1>4. \A u \in Clerks : txn[u] # None => n \notin DOMAIN txn[u].seen[t] \cup DOMAIN txn[u].new[t]
  BY <1>1, <1>2
<1> QED BY <1>2, <1>3, <1>4

\* The machine's copy of Desk is Desk.
LEMMA HelpdeskIsDesk ==
    /\ \A table, id, row : Helpdesk!Add(table, id, row) = Add(table, id, row)
    /\ \A ids : Helpdesk!Least(ids) = Least(ids)
    /\ \A t, ids : Helpdesk!Fresh(t, ids) = Fresh(t, ids)
    /\ \A S : Helpdesk!Cardinality(S) = Cardinality(S)
    /\ \A s, row : Helpdesk!Locked(s, row) = Locked(s, row)
    /\ \A r : Helpdesk!Writes(r) = Writes(r)
    /\ \A table, seen, new : Helpdesk!Merged(table, seen, new) = Merged(table, seen, new)
    /\ Helpdesk!InTurn <=> InTurn
BY DEF Helpdesk!Add, Helpdesk!Joined, Helpdesk!Only, Add, Joined, Only, Helpdesk!Least, Least,
       Helpdesk!Fresh, Helpdesk!Open, Fresh, Open, Helpdesk!Cardinality, Cardinality, Helpdesk!Locked,
       Locked, Helpdesk!Writes, Writes, Helpdesk!Merged, Merged, Helpdesk!InTurn, InTurn

(***************************************************************************)
(* Helpdesk: no unread message is lost, and what is closed is over         *)
(***************************************************************************)

LEMMA DetailShown ==
    ASSUME NEW x, HelpRecord(x), DOMAIN x.openings = {}, NEW t, NEW side
    PROVE  Answers(Helpdesk!_detail(x, t, side), x, t, side)
<1> DEFINE id == 1 + Cardinality(DOMAIN x.openings)
           row == [ticket |-> t, side |-> side]
           O == Add(x.openings, id, row)
           e == Helpdesk!_detail(x, t, side)
<1>1. id \in DOMAIN O /\ O[id] = row
  <2>1. id \notin DOMAIN x.openings
    OBVIOUS
  <2>2. IsAdd(O, x.openings, id, row)
    BY <2>1, AddedRow
  <2> HIDE DEF O, id, row
  <2> QED BY <2>2 DEF IsAdd
<1>2. e = [x EXCEPT !.openings = O]
  BY HelpdeskIsDesk DEF Helpdesk!_detail
<1> HIDE DEF O, e
<1>3. HelpRecord(e) /\ e.tickets = x.tickets /\ e.messages = x.messages
      /\ e.chat = x.chat /\ e.markings = x.markings /\ e.openings = O
  BY <1>2 DEF HelpRecord
<1>4. Answers(e, x, t, side)
  BY <1>1, <1>3 DEF Answers
<1> QED BY <1>4 DEF e

\* One more message.
LEMMA MessageAdded ==
    ASSUME IdsAssumption, HelpRecord(db), NEW x, HelpRecord(x), x.messages = db.messages,
           NEW t, NEW side, NEW y \in Helpdesk!_add_message(x, t, side)
    PROVE  /\ HelpRecord(y) /\ y.tickets = x.tickets /\ y.openings = x.openings
           /\ y.chat = x.chat /\ y.markings = x.markings
           /\ \E m \in Fresh("messages", Messages) :
                 /\ m \notin DOMAIN db.messages
                 /\ IsAdd(y.messages, db.messages, m,
                          [ticket |-> t, side |-> side, shown |-> FALSE])
<1> DEFINE F == Fresh("messages", Messages)
           row == [ticket |-> t, side |-> side, shown |-> FALSE]
<1>1. F # {} /\ y = [x EXCEPT !.messages = Add(x.messages, Least(F), row)]
  BY HelpdeskIsDesk DEF Helpdesk!_add_message
<1>2. F \subseteq Nat
  BY DEF Fresh, IdsAssumption
<1>3. PICK m \in F : m = Least(F)
  BY <1>1, <1>2, LeastIn
<1>4. "messages" \in DOMAIN db /\ DOMAIN db["messages"] = DOMAIN db.messages
  BY DEF HelpRecord
<1>5. m \notin DOMAIN db.messages
  BY <1>4, FreshIds
<1> DEFINE A == Add(x.messages, m, row)
<1>6. IsAdd(A, db.messages, m, row)
  BY <1>5, AddedRow
<1> HIDE DEF A, F
<1>7. y = [x EXCEPT !.messages = A]
  BY <1>1, <1>3 DEF A
<1>8. /\ HelpRecord(y) /\ y.tickets = x.tickets /\ y.openings = x.openings
      /\ y.chat = x.chat /\ y.markings = x.markings /\ y.messages = A
  BY <1>7 DEF HelpRecord
<1> QED BY <1>3, <1>5, <1>6, <1>8 DEF F

LEMMA SilentBegins ==
    ASSUME HelpTables(db), NEW new, NEW holds, HelpRecord(new), NEW t \in DOMAIN db.tickets,
           NEW row \in HelpTicket, new.tickets = [db.tickets EXCEPT ![t] = row],
           new.messages = db.messages, new.chat = db.chat, new.markings = db.markings,
           Lowers(new, t, row), row.status = db.tickets[t].status \/ Handles(db, holds, t)
    PROVE  HelpBegins(new, holds)
<1>1. /\ DOMAIN new.tickets = DOMAIN db.tickets /\ new.tickets[t] = row
      /\ \A k \in DOMAIN db.tickets : k # t => new.tickets[k] = db.tickets[k]
  OBVIOUS
<1>2. HelpShape(new)
  BY <1>1 DEF HelpTables, HelpShape, HelpMessage
<1>3. ChatTables(db) => ChatKept(new)
  BY DEF ChatTables, ChatKept
<1> QED BY <1>1, <1>2, <1>3 DEF HelpBegins, HelpWork, HelpTables, Lowers, Silenced

\* A request that adds a message to a ticket it has locked.
LEMMA SpokenBegins ==
    ASSUME HelpTables(db), NEW new, NEW holds, HelpRecord(new), NEW t \in DOMAIN db.tickets,
           Handles(db, holds, t),
           NEW row \in HelpTicket, new.tickets = [db.tickets EXCEPT ![t] = row],
           new.chat = db.chat, new.markings = db.markings,
           NEW by \in {"user", "staff"}, Flag(row, by), Shows(new, t, Reader(by)),
           NEW m \in Fresh("messages", Messages), m \notin DOMAIN db.messages,
           IsAdd(new.messages, db.messages, m, [ticket |-> t, side |-> by, shown |-> FALSE])
    PROVE  HelpBegins(new, holds)
<1>1. /\ DOMAIN new.tickets = DOMAIN db.tickets /\ new.tickets[t] = row
      /\ \A k \in DOMAIN db.tickets : k # t => new.tickets[k] = db.tickets[k]
  OBVIOUS
<1>2. /\ HelpShape(new) /\ new.messages[m].ticket = t /\ new.messages[m].side = by
      /\ \A k \in DOMAIN new.messages : k \in DOMAIN db.messages \/ k = m
      /\ \A k \in DOMAIN db.messages : k \in DOMAIN new.messages /\ new.messages[k] = db.messages[k]
  <2>1. /\ new.messages[m] = [ticket |-> t, side |-> by, shown |-> FALSE]
        /\ \A k \in DOMAIN new.messages : k \in DOMAIN db.messages \/ k = m
        /\ \A k \in DOMAIN db.messages : k \in DOMAIN new.messages /\ new.messages[k] = db.messages[k]
    BY DEF IsAdd
  <2>2. HelpMessage(new.tickets) = HelpMessage(db.tickets)
    BY <1>1 DEF HelpMessage
  <2>3. new.messages[m] \in HelpMessage(new.tickets)
    BY <1>1, <2>1 DEF HelpMessage
  <2>4. \A k \in DOMAIN new.messages : new.messages[k] \in HelpMessage(new.tickets)
    BY <2>1, <2>2, <2>3 DEF HelpTables, HelpShape
  <2>5. \A k \in DOMAIN new.tickets : new.tickets[k] \in HelpTicket
    BY <1>1 DEF HelpTables, HelpShape
  <2> QED BY <2>1, <2>4, <2>5 DEF HelpShape
<1>3. \A side \in {"user", "staff"} : side = by \/ side = Reader(by)
  BY DEF Reader
<1>4. \A side \in {"user", "staff"} : ~Flag(row, side) => Shows(new, t, side)
  BY <1>3
<1>5. ChatTables(db) => ChatKept(new)
  BY DEF ChatTables, ChatKept
<1> QED BY <1>1, <1>2, <1>4, <1>5 DEF HelpBegins, HelpWork, HelpTables, Silenced

\* A request that leaves the tickets alone.
LEMMA ElsewhereBegins ==
    ASSUME HelpTables(db), NEW new, NEW holds, HelpRecord(new),
           new.tickets = db.tickets, new.messages = db.messages,
           ChatTables(db) => ChatKept(new), Silenced(new)
    PROVE  HelpBegins(new, holds)
<1>1. HelpShape(new)
  BY DEF HelpTables, HelpShape
<1> QED BY <1>1 DEF HelpBegins, HelpWork, HelpTables

LEMMA OpensThread ==
    ASSUME HelpTables(db), NEW t \in DOMAIN db.tickets, NEW holds,
           NEW new \in Helpdesk!get_mine(db, t) \cup Helpdesk!admin_get(db, t)
    PROVE  HelpBegins(new, holds)
<1>1. db.tickets[t] \in HelpTicket /\ HelpRecord(db) /\ DOMAIN db.openings = {}
  BY DEF HelpTables, HelpShape
<1>2. CASE new \in Helpdesk!get_mine(db, t)
  <2> DEFINE row == [db.tickets[t] EXCEPT !.userUnread = FALSE]
             x == [db EXCEPT !.tickets = [db.tickets EXCEPT ![t] = row]]
  <2>1. new = Helpdesk!_detail(x, t, "user")
    BY <1>2 DEF Helpdesk!get_mine
  <2>2. row \in HelpTicket /\ row.staffUnread = db.tickets[t].staffUnread /\ row.status = db.tickets[t].status
    BY <1>1 DEF HelpTicket
  <2> HIDE DEF row
  <2>3. /\ HelpRecord(x) /\ x.tickets = [db.tickets EXCEPT ![t] = row] /\ x.openings = db.openings
        /\ x.messages = db.messages /\ x.chat = db.chat /\ x.markings = db.markings
    BY <1>1 DEF HelpRecord
  <2> HIDE DEF x
  <2>4. /\ HelpRecord(new) /\ new.tickets = x.tickets /\ new.messages = x.messages
        /\ new.chat = x.chat /\ new.markings = x.markings /\ Shows(new, t, "staff")
    <3>1. Answers(new, x, t, "user")
      BY <1>1, <2>1, <2>3, DetailShown
    <3> QED BY <3>1 DEF Answers, Shows, Reader
  <2>5. Lowers(new, t, row)
    BY <2>2, <2>4 DEF Flag, Lowers
  <2> QED BY <2>2, <2>3, <2>4, <2>5, SilentBegins
<1>3. CASE new \in Helpdesk!admin_get(db, t)
  <2> DEFINE row == [db.tickets[t] EXCEPT !.staffUnread = FALSE]
             x == [db EXCEPT !.tickets = [db.tickets EXCEPT ![t] = row]]
  <2>1. new = Helpdesk!_detail(x, t, "staff")
    BY <1>3 DEF Helpdesk!admin_get
  <2>2. row \in HelpTicket /\ row.userUnread = db.tickets[t].userUnread /\ row.status = db.tickets[t].status
    BY <1>1 DEF HelpTicket
  <2> HIDE DEF row
  <2>3. /\ HelpRecord(x) /\ x.tickets = [db.tickets EXCEPT ![t] = row] /\ x.openings = db.openings
        /\ x.messages = db.messages /\ x.chat = db.chat /\ x.markings = db.markings
    BY <1>1 DEF HelpRecord
  <2> HIDE DEF x
  <2>4. /\ HelpRecord(new) /\ new.tickets = x.tickets /\ new.messages = x.messages
        /\ new.chat = x.chat /\ new.markings = x.markings /\ Shows(new, t, "user")
    <3>1. Answers(new, x, t, "staff")
      BY <1>1, <2>1, <2>3, DetailShown
    <3> QED BY <3>1 DEF Answers, Shows, Reader
  <2>5. Lowers(new, t, row)
    BY <2>2, <2>4 DEF Flag, Lowers
  <2> QED BY <2>2, <2>3, <2>4, <2>5, SilentBegins
<1> QED BY <1>2, <1>3

LEMMA Replies ==
    ASSUME IdsAssumption, HelpTables(db), NEW t \in DOMAIN db.tickets,
           NEW new \in Helpdesk!reply_as_user(db, t) \cup Helpdesk!reply_as_staff(db, t)
    PROVE  HelpBegins(new, Helpdesk!Writing(t))
<1>1. db.tickets[t] \in HelpTicket /\ HelpRecord(db) /\ DOMAIN db.openings = {}
  BY DEF HelpTables, HelpShape
<1>2. PICK by \in {"user", "staff"}, row \in HelpTicket :
          /\ Flag(row, by)
          /\ \E x \in Helpdesk!_add_message(db, t, by) :
                new = Helpdesk!_detail([x EXCEPT !.tickets = [x.tickets EXCEPT ![t] = row]], t, by)
  <2>1. \A side : \A x \in Helpdesk!_add_message(db, t, side) : x.tickets = db.tickets /\ HelpRecord(x)
    <3> TAKE side
    <3> TAKE x \in Helpdesk!_add_message(db, t, side)
    <3> QED BY ZenonT(30), <1>1, MessageAdded
  <2>2. CASE new \in Helpdesk!reply_as_user(db, t)
    <3> DEFINE row == [db.tickets[t] EXCEPT !.status = "OPEN",
                          !.resolved = IF db.tickets[t].status = "RESOLVED" THEN FALSE ELSE @,
                          !.staffUnread = TRUE, !.userUnread = FALSE]
    <3>1. PICK x \in Helpdesk!_add_message(db, t, "user") :
              new = Helpdesk!_detail([x EXCEPT !.tickets[t].status = "OPEN",
                            !.tickets[t].resolved = IF db.tickets[t].status = "RESOLVED" THEN FALSE ELSE @,
                            !.tickets[t].staffUnread = TRUE, !.tickets[t].userUnread = FALSE], t, "user")
      BY <2>2, Zenon DEF Helpdesk!reply_as_user
    <3>2. row \in HelpTicket /\ Flag(row, "user")
      BY <1>1 DEF HelpTicket, Flag, Helpdesk!Statuses, Helpdesk!Live
    <3>3. [x EXCEPT !.tickets[t].status = "OPEN",
                    !.tickets[t].resolved = IF db.tickets[t].status = "RESOLVED" THEN FALSE ELSE @,
                    !.tickets[t].staffUnread = TRUE, !.tickets[t].userUnread = FALSE]
          = [x EXCEPT !.tickets = [x.tickets EXCEPT ![t] = row]]
      <4>1. PICK done : done = IF db.tickets[t].status = "RESOLVED" THEN FALSE ELSE db.tickets[t].resolved
        OBVIOUS
      <4>2. x.tickets[t] = db.tickets[t]
        BY <2>1
      <4>3. [x EXCEPT !.tickets[t].status = "OPEN", !.tickets[t].resolved = done,
                      !.tickets[t].staffUnread = TRUE, !.tickets[t].userUnread = FALSE]
            = [x EXCEPT !.tickets = [x.tickets EXCEPT ![t] =
                 [db.tickets[t] EXCEPT !.status = "OPEN", !.resolved = done,
                                       !.staffUnread = TRUE, !.userUnread = FALSE]]]
        BY ZenonT(30), <4>2, <2>1 DEF HelpRecord
      <4> QED BY <4>1, <4>2, <4>3
    <3> HIDE DEF row
    <3> QED BY <3>1, <3>2, <3>3, Zenon
  <2>3. CASE new \in Helpdesk!reply_as_staff(db, t)
    <3> DEFINE row == [db.tickets[t] EXCEPT !.status = IF @ = "OPEN" THEN "PENDING" ELSE @,
                          !.assigned = TRUE, !.staffUnread = FALSE, !.userUnread = TRUE]
    <3>1. PICK x \in Helpdesk!_add_message(db, t, "staff") :
              new = Helpdesk!_detail([x EXCEPT !.tickets[t].status = IF @ = "OPEN" THEN "PENDING" ELSE @,
                            !.tickets[t].assigned = TRUE,
                            !.tickets[t].staffUnread = FALSE, !.tickets[t].userUnread = TRUE], t, "staff")
      BY <2>3, Zenon DEF Helpdesk!reply_as_staff
    <3>2. row \in HelpTicket /\ Flag(row, "staff")
      BY <1>1 DEF HelpTicket, Flag, Helpdesk!Statuses, Helpdesk!Live
    <3>3. [x EXCEPT !.tickets[t].status = IF @ = "OPEN" THEN "PENDING" ELSE @,
                    !.tickets[t].assigned = TRUE,
                    !.tickets[t].staffUnread = FALSE, !.tickets[t].userUnread = TRUE]
          = [x EXCEPT !.tickets = [x.tickets EXCEPT ![t] = row]]
      <4>1. x.tickets[t] = db.tickets[t]
        BY <2>1
      <4>2. PICK st : st = IF db.tickets[t].status = "OPEN" THEN "PENDING" ELSE db.tickets[t].status
        OBVIOUS
      <4>3. [x EXCEPT !.tickets[t].status = st, !.tickets[t].assigned = TRUE,
                      !.tickets[t].staffUnread = FALSE, !.tickets[t].userUnread = TRUE]
            = [x EXCEPT !.tickets = [x.tickets EXCEPT ![t] =
                 [db.tickets[t] EXCEPT !.status = st, !.assigned = TRUE,
                                       !.staffUnread = FALSE, !.userUnread = TRUE]]]
        BY ZenonT(30), <4>1, <2>1 DEF HelpRecord
      <4> QED BY <4>1, <4>2, <4>3
    <3> HIDE DEF row
    <3> QED BY <3>1, <3>2, <3>3, Zenon
  <2> QED BY <2>2, <2>3
<1>8. PICK x \in Helpdesk!_add_message(db, t, by) :
          new = Helpdesk!_detail([x EXCEPT !.tickets = [x.tickets EXCEPT ![t] = row]], t, by)
  BY <1>2
<1>3. /\ HelpRecord(x) /\ x.tickets = db.tickets /\ x.openings = db.openings
      /\ x.chat = db.chat /\ x.markings = db.markings
      /\ \E m \in Fresh("messages", Messages) :
            /\ m \notin DOMAIN db.messages
            /\ IsAdd(x.messages, db.messages, m, [ticket |-> t, side |-> by, shown |-> FALSE])
  BY <1>1, MessageAdded
<1> DEFINE y == [x EXCEPT !.tickets = [x.tickets EXCEPT ![t] = row]]
<1>4. /\ HelpRecord(y) /\ y.tickets = [db.tickets EXCEPT ![t] = row] /\ y.openings = db.openings
      /\ y.messages = x.messages /\ y.chat = db.chat /\ y.markings = db.markings
  BY <1>3 DEF HelpRecord
<1>5. new = Helpdesk!_detail(y, t, by)
  BY <1>8
<1> HIDE DEF y
<1>6. /\ HelpRecord(new) /\ new.tickets = y.tickets /\ new.messages = y.messages
      /\ new.chat = y.chat /\ new.markings = y.markings /\ Shows(new, t, Reader(by))
  <2>1. Reader(Reader(by)) = by
    BY DEF Reader
  <2>2. /\ HelpRecord(new) /\ new.tickets = y.tickets /\ new.messages = y.messages
        /\ new.chat = y.chat /\ new.markings = y.markings
        /\ \E o \in DOMAIN new.openings : new.openings[o] = [ticket |-> t, side |-> by]
    <3>1. Answers(new, y, t, by)
      BY <1>1, <1>4, <1>5, DetailShown
    <3> QED BY <3>1 DEF Answers
  <2> QED BY <2>1, <2>2 DEF Shows
<1>7. Handles(db, Helpdesk!Writing(t), t)
  BY Zenon DEF Handles, Helpdesk!Writing, Helpdesk!reply_as_user, Helpdesk!reply_as_staff
<1> QED BY <1>2, <1>3, <1>4, <1>6, <1>7, SpokenBegins

LEMMA UpdatesTicket ==
    ASSUME HelpTables(db), NEW t \in DOMAIN db.tickets,
           NEW new \in Helpdesk!admin_update(db, t)
    PROVE  HelpBegins(new, Helpdesk!Writing(t))
<1>1. db.tickets[t] \in HelpTicket /\ HelpRecord(db) /\ DOMAIN db.openings = {}
  BY DEF HelpTables, HelpShape
<1>2. PICK row \in HelpTicket :
          /\ row.staffUnread = db.tickets[t].staffUnread
          /\ row.userUnread \/ row.userUnread = db.tickets[t].userUnread
          /\ row.status = db.tickets[t].status \/ db.tickets[t].status # "CLOSED"
          /\ new = [db EXCEPT !.tickets = [db.tickets EXCEPT ![t] = row]]
  <2>1. CASE new = [db EXCEPT !.tickets[t].assigned = ~@]
    <3> DEFINE row == [db.tickets[t] EXCEPT !.assigned = ~db.tickets[t].assigned]
    <3>1. row \in HelpTicket /\ row.staffUnread = db.tickets[t].staffUnread
          /\ row.userUnread = db.tickets[t].userUnread /\ row.status = db.tickets[t].status
      BY <1>1 DEF HelpTicket
    <3>2. new = [db EXCEPT !.tickets = [db.tickets EXCEPT ![t] = row]]
      BY <2>1, <1>1 DEF HelpRecord
    <3> HIDE DEF row
    <3> QED BY <3>1, <3>2
  <2>2. ASSUME NEW status \in Helpdesk!Statuses, db.tickets[t].status # "CLOSED",
               new = [db EXCEPT !.tickets[t].status = status, !.tickets[t].userUnread = TRUE,
               !.tickets[t].resolved = IF status = "RESOLVED" THEN TRUE
                                       ELSE IF status \in Helpdesk!Live THEN FALSE ELSE @,
               !.tickets[t].closed = status = "CLOSED"]
        PROVE  \E row \in HelpTicket :
                  /\ row.staffUnread = db.tickets[t].staffUnread
                  /\ row.userUnread \/ row.userUnread = db.tickets[t].userUnread
                  /\ row.status = db.tickets[t].status \/ db.tickets[t].status # "CLOSED"
                  /\ new = [db EXCEPT !.tickets = [db.tickets EXCEPT ![t] = row]]
    <3>1. PICK done \in BOOLEAN, over \in BOOLEAN :
              /\ done = IF status = "RESOLVED" THEN TRUE
                        ELSE IF status \in Helpdesk!Live THEN FALSE ELSE db.tickets[t].resolved
              /\ over = (status = "CLOSED")
      BY <1>1 DEF HelpTicket
    <3> DEFINE row == [db.tickets[t] EXCEPT !.status = status, !.userUnread = TRUE,
                                            !.resolved = done, !.closed = over]
    <3>2. row \in HelpTicket /\ row.staffUnread = db.tickets[t].staffUnread /\ row.userUnread
      BY <1>1 DEF HelpTicket
    <3>3. new = [db EXCEPT !.tickets[t].status = status, !.tickets[t].userUnread = TRUE,
                           !.tickets[t].resolved = done, !.tickets[t].closed = over]
      BY <2>2, <3>1
    <3>4. new = [db EXCEPT !.tickets = [db.tickets EXCEPT ![t] = row]]
      BY ZenonT(30), <1>1, <3>3 DEF HelpRecord
    <3> HIDE DEF row
    <3> QED BY <2>2, <3>2, <3>4
  <2> QED BY <2>1, <2>2, Zenon DEF Helpdesk!admin_update
<1>3. /\ HelpRecord(new) /\ new.tickets = [db.tickets EXCEPT ![t] = row] /\ new.messages = db.messages
      /\ new.chat = db.chat /\ new.markings = db.markings
  BY <1>1, <1>2 DEF HelpRecord
<1>4. Lowers(new, t, row)
  BY <1>2 DEF Flag, Lowers
<1>5. row.status = db.tickets[t].status \/ Handles(db, Helpdesk!Writing(t), t)
  BY <1>2 DEF Handles, Helpdesk!Writing
<1> QED BY <1>2, <1>3, <1>4, <1>5, SilentBegins

LEMMA CreatesTicket ==
    ASSUME IdsAssumption, HelpTables(db), NEW holds, NEW new \in Helpdesk!create_ticket(db)
    PROVE  HelpBegins(new, holds)
<1> DEFINE F == Fresh("tickets", Tickets)
           row == [status |-> "OPEN", staffUnread |-> TRUE, userUnread |-> FALSE,
                   resolved |-> FALSE, closed |-> FALSE, assigned |-> FALSE]
<1>1. /\ HelpRecord(db) /\ DOMAIN db.openings = {}
      /\ \A k \in DOMAIN db.tickets : db.tickets[k] \in HelpTicket
      /\ \A m \in DOMAIN db.messages : db.messages[m] \in HelpMessage(db.tickets)
  BY DEF HelpTables, HelpShape
<1>2. F # {} /\ \E x \in Helpdesk!_add_message([db EXCEPT !.tickets = Add(db.tickets, Least(F), row)],
                                               Least(F), "user") :
                   new = Helpdesk!_detail(x, Least(F), "user")
  BY HelpdeskIsDesk DEF Helpdesk!create_ticket
<1>3. F \subseteq Nat
  BY DEF Fresh, IdsAssumption
<1>4. PICK t \in F : t = Least(F)
  BY <1>2, <1>3, LeastIn
<1>5. t \notin DOMAIN db.tickets
  <2>1. "tickets" \in DOMAIN db /\ DOMAIN db["tickets"] = DOMAIN db.tickets
    BY <1>1 DEF HelpRecord
  <2> QED BY <1>4, <2>1, FreshIds
<1> DEFINE A == Add(db.tickets, t, row)
           y == [db EXCEPT !.tickets = A]
<1>6. IsAdd(A, db.tickets, t, row)
  BY <1>5, AddedRow
<1>7. PICK x \in Helpdesk!_add_message(y, t, "user") : new = Helpdesk!_detail(x, t, "user")
  BY <1>2, <1>4
<1> HIDE DEF A, F, row
<1>8. /\ HelpRecord(y) /\ y.tickets = A /\ y.messages = db.messages /\ y.openings = db.openings
      /\ y.chat = db.chat /\ y.markings = db.markings
  BY <1>1 DEF HelpRecord
<1> HIDE DEF y
<1>9. /\ HelpRecord(x) /\ x.tickets = A /\ x.openings = db.openings
      /\ x.chat = db.chat /\ x.markings = db.markings
      /\ \E m \in Fresh("messages", Messages) :
            /\ m \notin DOMAIN db.messages
            /\ IsAdd(x.messages, db.messages, m, [ticket |-> t, side |-> "user", shown |-> FALSE])
  BY <1>1, <1>8, MessageAdded
<1>10. /\ HelpRecord(new) /\ new.tickets = A /\ new.messages = x.messages
       /\ new.chat = db.chat /\ new.markings = db.markings
  <2>1. HelpRecord(x) /\ DOMAIN x.openings = {}
    BY <1>1, <1>9
  <2>2. /\ HelpRecord(new) /\ new.tickets = x.tickets /\ new.messages = x.messages
        /\ new.chat = x.chat /\ new.markings = x.markings
    <3>1. Answers(new, x, t, "user")
      BY <1>7, <2>1, DetailShown
    <3> QED BY <3>1 DEF Answers
  <2> QED BY <1>9, <2>2
<1>11. PICK m \in Fresh("messages", Messages) :
            /\ m \notin DOMAIN db.messages
            /\ IsAdd(new.messages, db.messages, m, [ticket |-> t, side |-> "user", shown |-> FALSE])
  BY <1>9, <1>10
<1>12. /\ \A k : k \in DOMAIN A <=> k \in DOMAIN db.tickets \/ k = t
       /\ A[t] = row /\ row \in HelpTicket /\ Flag(row, "user")
       /\ \A k \in DOMAIN db.tickets : A[k] = db.tickets[k]
  BY <1>6 DEF IsAdd, row, HelpTicket, Flag, Helpdesk!Statuses, Helpdesk!Live
<1>13. /\ \A k : k \in DOMAIN new.messages <=> k \in DOMAIN db.messages \/ k = m
       /\ new.messages[m] = [ticket |-> t, side |-> "user", shown |-> FALSE]
       /\ \A k \in DOMAIN db.messages : new.messages[k] = db.messages[k]
  BY <1>11 DEF IsAdd
<1>14. HelpShape(new)
  <2>1. \A k \in DOMAIN A : A[k] \in HelpTicket
    BY <1>1, <1>12
  <2>2. new.messages[m] \in HelpMessage(A)
    BY <1>12, <1>13 DEF HelpMessage
  <2>3. \A k \in DOMAIN db.messages : new.messages[k] \in HelpMessage(A)
    BY <1>1, <1>12, <1>13 DEF HelpMessage
  <2>4. \A k \in DOMAIN new.messages : new.messages[k] \in HelpMessage(A)
    BY <1>13, <2>2, <2>3
  <2> QED BY <1>10, <2>1, <2>4 DEF HelpShape
<1>15. HelpWork(db, new, holds)
  <2>1. new.messages[m].ticket = t /\ new.messages[m].side = "user"
    BY <1>13
  <2>2. \A k \in DOMAIN db.tickets : k \in DOMAIN new.tickets /\ new.tickets[k] = db.tickets[k]
    BY <1>10, <1>12
  <2> QED BY <1>1, <1>5, <1>10, <1>12, <1>13, <1>14, <2>1, <2>2 DEF HelpWork, HelpTables
<1>16. ChatTables(db) => ChatKept(new)
  BY <1>10 DEF ChatTables, ChatKept
<1> QED BY <1>4, <1>10, <1>11, <1>12, <1>13, <1>15, <1>16 DEF HelpBegins, Silenced, F

LEMMA ChatBegins ==
    ASSUME IdsAssumption, HelpTables(db), NEW p \in Helpdesk!_resolve_party(db), NEW holds,
           NEW new \in Helpdesk!get_thread(db, p) \cup Helpdesk!send_message(db, p)
                       \cup Helpdesk!order_moves(db)
    PROVE  HelpBegins(new, holds)
<1>1. HelpRecord(db) /\ p \in Helpdesk!Parties
  BY DEF HelpTables, HelpShape, Helpdesk!_resolve_party
<1>2. CASE new \in Helpdesk!order_moves(db)
  <2>1. HelpRecord(new) /\ new.tickets = db.tickets /\ new.messages = db.messages
        /\ new.chat = db.chat /\ new.markings = db.markings
    BY <1>1, <1>2 DEF Helpdesk!order_moves, HelpRecord
  <2>2. ChatTables(db) => ChatKept(new)
    BY <2>1 DEF ChatTables, ChatKept
  <2> QED BY <2>1, <2>2, ElsewhereBegins DEF Silenced
<1>3. CASE new \in Helpdesk!get_thread(db, p)
  <2> DEFINE T == [m \in DOMAIN db.chat |-> IF m \in {k \in DOMAIN db.chat : db.chat[k].side # p}
                                            THEN [db.chat[m] EXCEPT !.shown = TRUE] ELSE db.chat[m]]
             id == 1 + Cardinality(DOMAIN db.markings)
             M == Add(db.markings, id, [side |-> p])
  <2>1. new = [db EXCEPT !.chat = T, !.markings = M]
    BY <1>3, HelpdeskIsDesk DEF Helpdesk!get_thread, Helpdesk!Change
  <2>2. ASSUME ChatTables(db) PROVE IsAdd(M, db.markings, id, [side |-> p])
    <3>1. id \notin DOMAIN db.markings
      BY <2>2 DEF ChatTables
    <3> QED BY <3>1, AddedRow
  <2>3. ASSUME ChatTables(db), NEW m \in DOMAIN db.chat
        PROVE  /\ T[m] \in ChatRow /\ (T[m].read => T[m].shown)
               /\ T[m].side # p => T[m].shown
    BY <2>3 DEF ChatTables, ChatRow
  <2>4. DOMAIN T = DOMAIN db.chat
    OBVIOUS
  <2> HIDE DEF T, M, id
  <2>5. HelpRecord(new) /\ new.tickets = db.tickets /\ new.messages = db.messages
        /\ new.chat = T /\ new.markings = M
    BY <1>1, <2>1 DEF HelpRecord
  <2>6. ASSUME ChatTables(db) PROVE ChatKept(new)
    <3>1. \A k \in DOMAIN M : M[k].side = p
      BY <2>2, <2>6 DEF IsAdd, ChatTables
    <3> QED BY <2>3, <2>4, <2>5, <2>6, <3>1 DEF ChatKept
  <2> QED BY <2>4, <2>5, <2>6, ElsewhereBegins DEF Silenced
<1>4. CASE new \in Helpdesk!send_message(db, p)
  <2> DEFINE F == Fresh("chat", Messages)
             row == [side |-> p, shown |-> FALSE, read |-> FALSE]
  <2>1. F # {} /\ new = [db EXCEPT !.chat = Add(db.chat, Least(F), row)] /\ db.orders[1].open
    BY <1>4, HelpdeskIsDesk DEF Helpdesk!send_message
  <2>2. F \subseteq Nat
    BY DEF Fresh, IdsAssumption
  <2>3. PICK m \in F : m = Least(F)
    BY <2>1, <2>2, LeastIn
  <2>4. m \notin DOMAIN db.chat
    <3>1. "chat" \in DOMAIN db /\ DOMAIN db["chat"] = DOMAIN db.chat
      BY <1>1 DEF HelpRecord
    <3> QED BY <2>3, <3>1, FreshIds
  <2> DEFINE A == Add(db.chat, m, row)
  <2>5. IsAdd(A, db.chat, m, row)
    BY <2>4, AddedRow
  <2>6. row \in ChatRow /\ ~row.read
    BY <1>1 DEF ChatRow
  <2>7. new = [db EXCEPT !.chat = A]
    BY <2>1, <2>3
  <2> HIDE DEF A, F, row
  <2>8. HelpRecord(new) /\ new.tickets = db.tickets /\ new.messages = db.messages
        /\ new.chat = A /\ new.markings = db.markings
    BY <1>1, <2>7 DEF HelpRecord
  <2>9. ChatTables(db) => ChatKept(new)
    BY <2>5, <2>6, <2>8 DEF ChatTables, ChatKept, IsAdd
  <2> QED BY <2>1, <2>8, <2>9, ElsewhereBegins DEF Silenced
<1> QED BY <1>2, <1>3, <1>4

LEMMA ThreadsShown ==
    ASSUME HelpTables(db), NEW d, HelpKept(d), NEW e \in Helpdesk!Settle(d)
    PROVE  /\ HelpTables(e) /\ e.tickets = d.tickets /\ DOMAIN e.messages = DOMAIN d.messages
           /\ DOMAIN e.chat = DOMAIN d.chat
           /\ HelpLasts(d) => HelpLasts(e)
           /\ ChatKept(d) => ChatTables(e)
<1> DEFINE M == [m \in DOMAIN d.messages |->
                    [d.messages[m] EXCEPT !.shown = d.messages[m].shown \/ Helpdesk!Opened(d, m)]]
           C == [m \in DOMAIN d.chat |-> [d.chat[m] EXCEPT !.read = d.chat[m].read \/
                    \E k \in DOMAIN d.markings : m \in Helpdesk!unread_count(d, d.markings[k].side)]]
<1>1. e = [d EXCEPT !.messages = M, !.chat = C, !.openings = Nothing, !.markings = Nothing]
  <2>1. Helpdesk!Nothing = Nothing
    BY DEF Helpdesk!Nothing, Nothing
  <2>2. e = [d EXCEPT !.messages = M, !.chat = C, !.openings = Helpdesk!Nothing,
                      !.markings = Helpdesk!Nothing]
    BY Zenon DEF Helpdesk!Settle
  <2> HIDE DEF M, C
  <2> QED BY <2>1, <2>2
<1>2. HelpRecord(d) /\ DOMAIN Nothing = {} /\ DOMAIN M = DOMAIN d.messages /\ DOMAIN C = DOMAIN d.chat
  BY DEF HelpKept, HelpShape, Nothing
<1>3. ASSUME NEW m \in DOMAIN d.messages
      PROVE  /\ M[m] \in HelpMessage(d.tickets) /\ M[m].ticket = d.messages[m].ticket
             /\ M[m].side = d.messages[m].side /\ (M[m].shown <=> d.messages[m].shown \/ Helpdesk!Opened(d, m))
  <2>1. d.messages[m] \in HelpMessage(d.tickets)
    BY DEF HelpKept, HelpShape
  <2>2. PICK b \in BOOLEAN : b = (d.messages[m].shown \/ Helpdesk!Opened(d, m))
    OBVIOUS
  <2>3. M[m] = [d.messages[m] EXCEPT !.shown = b]
    BY <2>2
  <2> HIDE DEF M
  <2> QED BY <2>1, <2>2, <2>3 DEF HelpMessage
<1>4. ASSUME NEW m \in DOMAIN d.chat, ChatKept(d)
      PROVE  C[m] \in ChatRow /\ (C[m].read => C[m].shown)
  <2>1. d.chat[m] \in ChatRow /\ (d.chat[m].read => d.chat[m].shown)
        /\ \A k \in DOMAIN d.markings : d.chat[m].side # d.markings[k].side => d.chat[m].shown
    BY <1>4 DEF ChatKept
  <2>2. PICK b \in BOOLEAN : b = (d.chat[m].read \/
                    \E k \in DOMAIN d.markings : m \in Helpdesk!unread_count(d, d.markings[k].side))
    OBVIOUS
  <2>3. C[m] = [d.chat[m] EXCEPT !.read = b]
    BY <2>2
  <2>4. b => d.chat[m].shown
    BY <2>1, <2>2 DEF Helpdesk!unread_count
  <2> HIDE DEF C
  <2> QED BY <2>1, <2>3, <2>4 DEF ChatRow
<1> HIDE DEF M, C
<1>5. /\ HelpRecord(e) /\ e.tickets = d.tickets /\ e.messages = M /\ e.chat = C
      /\ e.openings = Nothing /\ e.markings = Nothing
  BY <1>1, <1>2 DEF HelpRecord
<1>6. HelpShape(e)
  BY <1>2, <1>3, <1>5 DEF HelpShape, HelpKept
<1>7. ASSUME NEW m \in DOMAIN M, ~M[m].shown PROVE Flag(d.tickets[M[m].ticket], M[m].side)
  <2>1. ~d.messages[m].shown /\ ~Helpdesk!Opened(d, m) /\ m \in DOMAIN d.messages
        /\ M[m].ticket = d.messages[m].ticket /\ M[m].side = d.messages[m].side
    BY <1>2, <1>3, <1>7
  <2>2. CASE m \in DOMAIN db.messages /\ d.messages[m] = db.messages[m]
    <3>1. /\ Flag(db.tickets[db.messages[m].ticket], db.messages[m].side)
          /\ db.messages[m].ticket \in DOMAIN db.tickets /\ db.messages[m].side \in {"user", "staff"}
      BY <2>1, <2>2 DEF HelpTables, HelpShape, HelpMessage
    <3>2. ~Shows(d, db.messages[m].ticket, db.messages[m].side)
      BY <2>1, <2>2 DEF Shows, Helpdesk!Opened, Reader
    <3> QED BY <2>1, <2>2, <3>1, <3>2 DEF HelpKept
  <2> QED BY <2>1, <2>2 DEF HelpKept
<1>8. HelpTables(e)
  BY <1>2, <1>5, <1>6, <1>7 DEF HelpTables
<1>9. ChatKept(d) => ChatTables(e)
  BY <1>2, <1>4, <1>5 DEF ChatTables
<1>10. HelpLasts(d) => HelpLasts(e)
  BY <1>2, <1>3, <1>5 DEF HelpLasts
<1> QED BY <1>2, <1>5, <1>8, <1>9, <1>10

LEMMA WorkIsKept ==
    ASSUME HelpTables(db), NEW d, NEW holds, HelpWork(db, d, holds)
    PROVE  HelpKept(d) /\ HelpLasts(d)
BY DEF HelpWork, HelpKept, HelpLasts, Handles

LEMMA FlushedIsMerge ==
    ASSUME HelpRecord(db), NEW r, HelpRecord(r.seen), HelpRecord(r.new)
    PROVE  HelpFlush(Flushed(r), r)
<1> DEFINE d == Flushed(r)
<1>1. /\ d = [tickets |-> d.tickets, messages |-> d.messages, openings |-> d.openings,
              chat |-> d.chat, markings |-> d.markings, orders |-> d.orders]
      /\ d.tickets = Merged(db.tickets, r.seen.tickets, r.new.tickets)
      /\ d.messages = Merged(db.messages, r.seen.messages, r.new.messages)
      /\ d.openings = Merged(db.openings, r.seen.openings, r.new.openings)
  <2>1. DOMAIN db = {"tickets", "messages", "openings", "chat", "markings", "orders"}
    BY DEF HelpRecord
  <2> QED BY <2>1 DEF Flushed
<1> QED BY <1>1, MergedRows DEF HelpFlush, HelpRecord

\* A ticket both have is written column by column.
LEMMA MergedTicket ==
    ASSUME NEW row \in HelpTicket, NEW seen \in HelpTicket, NEW new \in HelpTicket
    PROVE  /\ Column(row, seen, new) \in HelpTicket
           /\ \A side \in {"user", "staff"} :
                 /\ Flag(row, side) /\ ~Flag(Column(row, seen, new), side)
                       => Flag(seen, side) /\ ~Flag(new, side)
                 /\ row = seen => (Flag(Column(row, seen, new), side) <=> Flag(new, side))
           /\ new.status = seen.status => Column(row, seen, new).status = row.status
<1> DEFINE C == Column(row, seen, new)
<1>1. DOMAIN row = {"status", "staffUnread", "userUnread", "resolved", "closed", "assigned"}
  BY DEF HelpTicket
<1>2. C = [status |-> C.status, staffUnread |-> C.staffUnread, userUnread |-> C.userUnread,
           resolved |-> C.resolved, closed |-> C.closed, assigned |-> C.assigned]
  BY <1>1 DEF Column
<1>3. /\ C.status = IF new.status # seen.status THEN new.status ELSE row.status
      /\ C.staffUnread = IF new.staffUnread # seen.staffUnread THEN new.staffUnread ELSE row.staffUnread
      /\ C.userUnread = IF new.userUnread # seen.userUnread THEN new.userUnread ELSE row.userUnread
      /\ C.resolved \in {row.resolved, new.resolved}
      /\ C.closed \in {row.closed, new.closed} /\ C.assigned \in {row.assigned, new.assigned}
  BY <1>1 DEF Column
<1>4. /\ row.staffUnread \in BOOLEAN /\ row.userUnread \in BOOLEAN
      /\ seen.staffUnread \in BOOLEAN /\ seen.userUnread \in BOOLEAN
      /\ new.staffUnread \in BOOLEAN /\ new.userUnread \in BOOLEAN
  BY DEF HelpTicket
<1> HIDE DEF C
<1>5. C \in HelpTicket
  BY <1>2, <1>3, <1>4 DEF HelpTicket
<1>6. \A side \in {"user", "staff"} :
         /\ Flag(row, side) /\ ~Flag(C, side) => Flag(seen, side) /\ ~Flag(new, side)
         /\ row = seen => (Flag(C, side) <=> Flag(new, side))
  BY <1>3, <1>4 DEF Flag
<1>7. new.status = seen.status => C.status = row.status
  BY <1>3
<1> QED BY <1>5, <1>6, <1>7 DEF C

LEMMA CommitKept ==
    ASSUME HelpTables(db), NEW r, HelpWork(r.seen, r.new, r.holds), HelpStands(r, db)
    PROVE  HelpKept(Flushed(r)) /\ HelpLasts(Flushed(r))
<1> DEFINE d == Flushed(r)
           S == r.seen
           N == r.new
<1>1. HelpFlush(d, r)
  BY FlushedIsMerge DEF HelpTables, HelpShape, HelpWork
<1> HIDE DEF d
<1>2. \A t \in DOMAIN S.tickets : /\ S.tickets[t] \in HelpTicket /\ N.tickets[t] \in HelpTicket
                                  /\ t \in DOMAIN N.tickets /\ t \in DOMAIN db.tickets
  BY DEF HelpWork, HelpShape, HelpStands
<1>3. /\ \A t \in DOMAIN db.tickets : db.tickets[t] \in HelpTicket
      /\ \A m \in DOMAIN db.messages : db.messages[m] \in HelpMessage(db.tickets)
      /\ DOMAIN db.openings = {} /\ DOMAIN S.openings = {}
  BY DEF HelpTables, HelpShape, HelpWork
<1>4. \A t : t \in DOMAIN d.tickets <=> t \in DOMAIN db.tickets \/ (t \in DOMAIN N.tickets /\ t \notin DOMAIN S.tickets)
  BY <1>1, <1>2 DEF HelpFlush, IsMerge
<1>5. \A t \in DOMAIN N.tickets : t \in DOMAIN d.tickets
  BY <1>2, <1>4
<1>6. ASSUME NEW t \in DOMAIN db.tickets, t \notin DOMAIN S.tickets
      PROVE  d.tickets[t] = db.tickets[t]
  <2>1. t \notin DOMAIN N.tickets
    BY <1>6 DEF HelpStands
  <2> QED BY <1>1, <1>6, <2>1 DEF HelpFlush, IsMerge
<1>7. ASSUME NEW t \in DOMAIN S.tickets
      PROVE  d.tickets[t] = Column(db.tickets[t], S.tickets[t], N.tickets[t])
  BY <1>1, <1>2 DEF HelpFlush, IsMerge
<1>8. ASSUME NEW t \in DOMAIN N.tickets, t \notin DOMAIN S.tickets
      PROVE  d.tickets[t] = N.tickets[t] /\ N.tickets[t] \in HelpTicket
  BY <1>1, <1>8 DEF HelpFlush, IsMerge, HelpWork, HelpShape
<1>9. \A t \in DOMAIN d.tickets : d.tickets[t] \in HelpTicket
  BY <1>2, <1>3, <1>4, <1>6, <1>7, <1>8, MergedTicket
<1>10. \A m \in DOMAIN db.messages : m \in DOMAIN d.messages /\ d.messages[m] = db.messages[m]
  <2> TAKE m \in DOMAIN db.messages
  <2>1. m \in DOMAIN S.messages <=> m \in DOMAIN N.messages
    BY DEF HelpWork, HelpStands
  <2>2. m \in DOMAIN S.messages => N.messages[m] = S.messages[m]
    BY DEF HelpWork
  <2>3. db.messages[m] = [c \in DOMAIN db.messages[m] |-> db.messages[m][c]]
    BY <1>3 DEF HelpMessage
  <2>4. IsMerge(d.messages, db.messages, S.messages, N.messages)
    BY <1>1 DEF HelpFlush
  <2> QED BY <2>1, <2>2, <2>3, <2>4, UnwrittenRows
<1>11. ASSUME NEW m \in DOMAIN d.messages, m \notin DOMAIN db.messages
       PROVE  m \in DOMAIN N.messages /\ m \notin DOMAIN S.messages /\ d.messages[m] = N.messages[m]
  BY <1>1, <1>11 DEF HelpFlush, IsMerge
<1>12. ASSUME NEW m \in DOMAIN d.messages, m \notin DOMAIN db.messages
       PROVE  /\ d.messages[m] \in HelpMessage(d.tickets)
              /\ Flag(d.tickets[d.messages[m].ticket], d.messages[m].side)
  <2> DEFINE t == N.messages[m].ticket
             side == N.messages[m].side
  <2>1. m \in DOMAIN N.messages /\ m \notin DOMAIN S.messages /\ d.messages[m] = N.messages[m]
    BY <1>11, <1>12
  <2>2. N.messages[m] \in HelpMessage(N.tickets)
    BY <2>1 DEF HelpWork, HelpShape
  <2>3. t \in DOMAIN N.tickets /\ t \in DOMAIN d.tickets /\ side \in {"user", "staff"}
    BY <1>5, <2>2 DEF HelpMessage
  <2>4. N.messages[m] \in HelpMessage(d.tickets)
    BY <2>2, <2>3 DEF HelpMessage
  <2>5. Flag(N.tickets[t], side) /\ (t \notin DOMAIN S.tickets \/ <<"tickets", t>> \in r.holds)
    BY <2>1 DEF HelpWork, Handles
  <2>6. CASE t \notin DOMAIN S.tickets
    BY <1>8, <2>1, <2>3, <2>4, <2>5, <2>6
  <2>7. CASE t \in DOMAIN S.tickets
    <3>1. db.tickets[t] = S.tickets[t]
      BY <2>5, <2>7 DEF HelpStands
    <3>2. Flag(d.tickets[t], side)
      <4>1. t \in DOMAIN db.tickets /\ S.tickets[t] \in HelpTicket /\ N.tickets[t] \in HelpTicket
        BY <1>2, <1>3, <1>7, <2>7
      <4>2. d.tickets[t] = Column(db.tickets[t], S.tickets[t], N.tickets[t])
        BY <1>7, <2>7
      <4>3. Flag(Column(S.tickets[t], S.tickets[t], N.tickets[t]), side) <=> Flag(N.tickets[t], side)
        BY <2>3, <4>1, MergedTicket
      <4> QED BY <2>5, <3>1, <4>2, <4>3, Zenon
    <3> QED BY <2>1, <2>4, <3>2
  <2> QED BY <2>6, <2>7
<1>13. \A m \in DOMAIN db.messages : db.messages[m] \in HelpMessage(d.tickets)
  BY <1>3, <1>4 DEF HelpMessage
<1>14. HelpShape(d)
  <2>1. HelpRecord(d)
    BY <1>1 DEF HelpFlush
  <2> QED BY <1>9, <1>10, <1>12, <1>13, <2>1 DEF HelpShape
<1>15. ASSUME NEW t \in DOMAIN db.tickets, NEW side \in {"user", "staff"},
              Flag(db.tickets[t], side), ~Flag(d.tickets[t], side)
       PROVE  Shows(d, t, side)
  <2>1. t \in DOMAIN S.tickets
    BY <1>6, <1>15
  <2>2. Flag(S.tickets[t], side) /\ ~Flag(N.tickets[t], side)
    BY <1>2, <1>3, <1>7, <1>15, <2>1, MergedTicket
  <2>3. Shows(N, t, side)
    BY <2>1, <2>2 DEF HelpWork
  <2>4. \A o \in DOMAIN N.openings : o \in DOMAIN d.openings /\ d.openings[o] = N.openings[o]
    BY <1>1, <1>3 DEF HelpFlush, IsMerge
  <2> QED BY <2>3, <2>4 DEF Shows
<1>16. \A t \in DOMAIN db.tickets : t \in DOMAIN d.tickets
  BY <1>4
<1>17. HelpKept(d)
  BY <1>10, <1>12, <1>14, <1>15, <1>16 DEF HelpKept
<1>18. ASSUME NEW t \in DOMAIN db.tickets, db.tickets[t].status = "CLOSED"
       PROVE  /\ d.tickets[t].status = "CLOSED"
              /\ \A m \in DOMAIN d.messages : m \notin DOMAIN db.messages => d.messages[m].ticket # t
  <2>1. t \in DOMAIN S.tickets => ~Handles(S, r.holds, t)
    <3>1. t \in DOMAIN S.tickets /\ <<"tickets", t>> \in r.holds => S.tickets[t] = db.tickets[t]
      BY DEF HelpStands
    <3> QED BY <1>18, <3>1 DEF Handles
  <2>2. t \in DOMAIN N.tickets => t \in DOMAIN S.tickets
    BY DEF HelpStands
  <2>3. CASE t \notin DOMAIN S.tickets
    <3>1. d.tickets[t] = db.tickets[t]
      BY <1>6, <2>3
    <3>2. \A m \in DOMAIN N.messages : N.messages[m].ticket # t
      BY <2>2, <2>3 DEF HelpWork, HelpShape, HelpMessage
    <3> QED BY <1>11, <1>18, <3>1, <3>2
  <2>4. CASE t \in DOMAIN S.tickets
    <3>1. N.tickets[t].status = S.tickets[t].status
      BY <2>1, <2>4 DEF HelpWork
    <3>2. d.tickets[t].status = db.tickets[t].status
      BY <1>2, <1>3, <1>7, <2>4, <3>1, MergedTicket
    <3>3. \A m \in DOMAIN N.messages : m \notin DOMAIN S.messages => N.messages[m].ticket # t
      BY <2>1, <2>4 DEF HelpWork
    <3> QED BY <1>11, <1>18, <3>2, <3>3
  <2> QED BY <2>3, <2>4
<1>19. HelpLasts(d)
  BY <1>18 DEF HelpLasts
<1> QED BY <1>17, <1>19 DEF d

\* Nobody else's request is disturbed by a commit.
LEMMA OthersStand ==
    ASSUME HelpTables(db), NEW r, HelpWork(r.seen, r.new, r.holds), HelpStands(r, db),
           NEW q, HelpStands(q, db), HelpApart(q, r),
           \A t \in DOMAIN r.seen.tickets : <<"tickets", t>> \in q.holds =>
               t \in DOMAIN r.new.tickets /\ r.new.tickets[t] = r.seen.tickets[t],
           NEW e, e.tickets = Flushed(r).tickets, DOMAIN e.messages = DOMAIN Flushed(r).messages
    PROVE  HelpStands(q, e)
<1> DEFINE d == Flushed(r)
           S == r.seen
           N == r.new
<1>1. HelpFlush(d, r) /\ HelpKept(d)
  BY FlushedIsMerge, CommitKept DEF HelpTables, HelpShape, HelpWork
<1>2. e.tickets = d.tickets /\ DOMAIN e.messages = DOMAIN d.messages
  OBVIOUS
<1> HIDE DEF d
<1>3. DOMAIN db.tickets \subseteq DOMAIN d.tickets /\ DOMAIN db.messages \subseteq DOMAIN d.messages
  BY <1>1 DEF HelpKept
<1>4. /\ \A t \in DOMAIN d.tickets : t \in DOMAIN db.tickets \/ (t \in DOMAIN N.tickets /\ t \notin DOMAIN S.tickets)
      /\ \A m \in DOMAIN d.messages : m \in DOMAIN db.messages \/ (m \in DOMAIN N.messages /\ m \notin DOMAIN S.messages)
  BY <1>1 DEF HelpFlush, IsMerge
<1>5. \A t \in DOMAIN q.new.tickets : t \notin DOMAIN q.seen.tickets => t \notin DOMAIN d.tickets
  BY <1>4 DEF HelpStands, HelpApart
<1>6. \A m \in DOMAIN q.new.messages : m \notin DOMAIN q.seen.messages => m \notin DOMAIN d.messages
  BY <1>4 DEF HelpStands, HelpApart
<1>7. ASSUME NEW t \in DOMAIN q.seen.tickets, <<"tickets", t>> \in q.holds
      PROVE  d.tickets[t] = q.seen.tickets[t]
  <2>1. t \in DOMAIN db.tickets /\ db.tickets[t] = q.seen.tickets[t]
    BY <1>7 DEF HelpStands
  <2>2. t \in DOMAIN S.tickets <=> t \in DOMAIN N.tickets
    BY <1>7, <2>1 DEF HelpStands
  <2>3. t \in DOMAIN S.tickets => N.tickets[t] = S.tickets[t]
    BY <1>7
  <2>4. db.tickets[t] = [c \in DOMAIN db.tickets[t] |-> db.tickets[t][c]]
    BY <2>1 DEF HelpTables, HelpShape, HelpTicket
  <2>5. IsMerge(d.tickets, db.tickets, S.tickets, N.tickets)
    BY <1>1 DEF HelpFlush
  <2>6. d.tickets[t] = db.tickets[t]
    BY <2>1, <2>2, <2>3, <2>4, <2>5, UnwrittenRows
  <2> QED BY <2>1, <2>6
<1>8. /\ DOMAIN q.seen.tickets \subseteq DOMAIN d.tickets
      /\ DOMAIN q.seen.messages \subseteq DOMAIN d.messages
  BY <1>3 DEF HelpStands
<1> QED BY <1>2, <1>5, <1>6, <1>7, <1>8 DEF HelpStands

\* ---- The steps ----
\* What is closed stays closed and silent (the second part of OverIsOver).
LEMMA HelpMeans ==
    ASSUME HelpLasts(db'), InTurn => Silenced(db')
    PROVE  Helpdesk!ClosedIsOver
BY HelpdeskIsDesk DEF HelpLasts, Silenced, Helpdesk!ClosedIsOver

LEMMA HelpServed ==
    ASSUME HelpInv, NEW s \in Clerks, NEW call, NEW holds, NEW results,
           \A new \in results : HelpBegins(new, holds),
           Helpdesk!ServeHolding(s, call, holds, results, Helpdesk!Settle)
    PROVE  HelpStep
<1>1. /\ txn = [u \in Clerks |-> txn[u]] /\ HelpTables(db) /\ HelpOpen
      /\ InTurn => NoneOpen /\ ChatTables(db)
  BY DEF HelpInv
<1>2. /\ script' = script
      /\ \A row \in holds : ~Locked(s, row)
      /\ \/ /\ ~InTurn /\ db' = db
            /\ \E new \in results : txn' = [txn EXCEPT ![s] = [seen |-> db, new |-> new, holds |-> holds]]
         \/ /\ InTurn /\ txn' = txn
            /\ \E new \in results : db' \in Helpdesk!Settle(new)
  BY HelpdeskIsDesk DEF Helpdesk!ServeHolding, InTurn
<1>3. InTurn' <=> InTurn
  BY <1>2 DEF InTurn
<1>4. CASE InTurn
  <2>1. PICK new \in results : db' \in Helpdesk!Settle(new)
    BY <1>2, <1>4
  <2>2. HelpBegins(new, holds)
    OBVIOUS
  <2>3. HelpKept(new) /\ HelpLasts(new) /\ ChatKept(new) /\ Silenced(new)
    BY <1>1, <1>4, <2>2, WorkIsKept DEF HelpBegins
  <2>4. HelpTables(db') /\ ChatTables(db') /\ HelpLasts(db') /\ DOMAIN db'.chat = DOMAIN new.chat
    BY <1>1, <2>1, <2>3, ThreadsShown
  <2>5. txn' = txn /\ NoneOpen
    BY <1>1, <1>2, <1>4
  <2>6. (txn = [u \in Clerks |-> txn[u]])' /\ HelpOpen' /\ NoneOpen'
    BY <1>1, <2>5 DEF HelpOpen, NoneOpen
  <2> QED BY <2>3, <2>4, <2>6, HelpMeans DEF HelpStep, HelpInv, Silenced
<1>5. CASE ~InTurn
  <2>1. PICK new \in results : txn' = [txn EXCEPT ![s] = [seen |-> db, new |-> new, holds |-> holds]]
    BY <1>2, <1>5
  <2>2. HelpBegins(new, holds) /\ db' = db
    BY <1>2, <1>5
  <2> DEFINE r == [seen |-> db, new |-> new, holds |-> holds]
  <2>3. /\ txn' = [u \in Clerks |-> txn'[u]] /\ txn'[s] = r
        /\ \A u \in Clerks : u # s => txn'[u] = txn[u]
    BY <1>1, <2>1
  <2>4. r.seen = db /\ r.new = new /\ r.holds = holds
    OBVIOUS
  <2> HIDE DEF r
  <2>5. HelpWork(r.seen, r.new, r.holds) /\ HelpStands(r, db)
    <3>1. HelpWork(db, new, holds)
      BY <2>2 DEF HelpBegins
    <3> QED BY <2>4, <3>1 DEF HelpStands
  <2>6. ASSUME NEW u \in Clerks, u # s, txn[u] # None
        PROVE  HelpApart(txn[u], r) /\ HelpApart(r, txn[u])
    <3>1. "tickets" \in DOMAIN db /\ "messages" \in DOMAIN db
      BY <1>1 DEF HelpTables, HelpShape, HelpRecord
    <3>2. \A t \in DOMAIN new.tickets : t \notin DOMAIN db.tickets => t \notin DOMAIN txn[u].new["tickets"]
      BY <2>2, <2>6, <3>1, FreshIds DEF HelpBegins
    <3>3. \A m \in DOMAIN new.messages : m \notin DOMAIN db.messages => m \notin DOMAIN txn[u].new["messages"]
      BY <2>2, <2>6, <3>1, FreshIds DEF HelpBegins
    <3>4. holds \cap txn[u].holds = {}
      BY <1>2, <2>6 DEF Locked
    <3> QED BY <2>4, <3>2, <3>3, <3>4 DEF HelpApart
  <2>7. HelpOpen'
    BY <1>1, <2>2, <2>3, <2>5, <2>6 DEF HelpOpen
  <2>8. HelpLasts(db')
    BY <2>2 DEF HelpLasts
  <2> QED BY <1>1, <1>3, <1>5, <2>2, <2>3, <2>7, <2>8, HelpMeans DEF HelpStep, HelpInv
<1> QED BY <1>4, <1>5

LEMMA HelpCommitted ==
    ASSUME HelpInv, NEW s \in Clerks, Helpdesk!Commit(s, Helpdesk!Settle)
    PROVE  HelpStep
<1> DEFINE r == txn[s]
<1>1. /\ txn = [u \in Clerks |-> txn[u]] /\ HelpTables(db) /\ HelpOpen /\ r # None
      /\ InTurn => NoneOpen /\ ChatTables(db)
  BY DEF HelpInv, Helpdesk!Commit
<1>2. /\ script' = script /\ txn' = [txn EXCEPT ![s] = None]
      /\ \A row \in Writes(r) : ~Locked(s, row)
      /\ db' \in Helpdesk!Settle(Flushed(r))
  BY HelpdeskIsDesk DEF Helpdesk!Commit, Flushed
<1>3. ~InTurn /\ ~InTurn'
  BY <1>1, <1>2 DEF NoneOpen, InTurn
<1>4. HelpWork(r.seen, r.new, r.holds) /\ HelpStands(r, db)
  BY <1>1 DEF HelpOpen
<1>5. HelpKept(Flushed(r)) /\ HelpLasts(Flushed(r))
  BY <1>1, <1>4, CommitKept
<1>6. HelpTables(db') /\ HelpLasts(db') /\ db'.tickets = Flushed(r).tickets
      /\ DOMAIN db'.messages = DOMAIN Flushed(r).messages
  BY <1>1, <1>2, <1>5, ThreadsShown
<1>7. ASSUME NEW u \in Clerks, u # s, txn[u] # None PROVE HelpStands(txn[u], db')
  <2>1. HelpStands(txn[u], db) /\ HelpApart(txn[u], r)
    BY <1>1, <1>7 DEF HelpOpen
  <2>2. "tickets" \in DOMAIN db
    BY <1>1 DEF HelpTables, HelpShape, HelpRecord
  <2>3. \A t \in DOMAIN r.seen["tickets"] : <<"tickets", t>> \in txn[u].holds =>
            t \in DOMAIN r.new["tickets"] /\ r.new["tickets"][t] = r.seen["tickets"][t]
    BY <1>2, <1>7, <2>2, NotHeldElsewhere
  <2> QED BY <1>1, <1>4, <1>6, <2>1, <2>3, OthersStand
<1>8. /\ txn' = [u \in Clerks |-> txn'[u]] /\ txn'[s] = None
      /\ \A u \in Clerks : u # s => txn'[u] = txn[u]
  BY <1>1, <1>2
<1>9. HelpOpen'
  BY <1>1, <1>7, <1>8 DEF HelpOpen
<1> QED BY <1>3, <1>6, <1>8, <1>9, HelpMeans DEF HelpStep, HelpInv

LEMMA HelpAborted ==
    ASSUME HelpInv, NEW s \in Clerks, Helpdesk!Abort(s)
    PROVE  HelpStep
<1>1. /\ txn = [u \in Clerks |-> txn[u]] /\ HelpTables(db) /\ HelpOpen
      /\ InTurn => NoneOpen /\ ChatTables(db)
      /\ txn' = [txn EXCEPT ![s] = None] /\ db' = db /\ script' = script
  BY DEF HelpInv, Helpdesk!Abort
<1>2. /\ txn' = [u \in Clerks |-> txn'[u]] /\ txn'[s] = None
      /\ \A u \in Clerks : u # s => txn'[u] = txn[u]
  BY <1>1
<1>3. HelpOpen' /\ (NoneOpen => NoneOpen')
  BY <1>1, <1>2 DEF HelpOpen, NoneOpen
<1>4. HelpLasts(db') /\ Silenced(db')
  BY <1>1 DEF HelpLasts, Silenced
<1> QED BY <1>1, <1>2, <1>3, <1>4, HelpMeans DEF HelpStep, HelpInv, InTurn

LEMMA HelpInit ==
    ASSUME Helpdesk!Init
    PROVE  HelpInv
<1>1. /\ db = [tickets |-> Nothing, messages |-> Nothing, openings |-> Nothing, chat |-> Nothing,
               markings |-> Nothing, orders |-> db.orders]
      /\ txn = [s \in Clerks |-> None]
  BY DEF Helpdesk!Init, Helpdesk!Opens, Helpdesk!Nothing, Nothing
<1>2. DOMAIN Nothing = {}
  BY DEF Nothing
<1>3. HelpTables(db) /\ ChatTables(db)
  BY <1>1, <1>2 DEF HelpTables, HelpShape, HelpRecord, ChatTables
<1> QED BY <1>1, <1>3 DEF HelpInv, HelpOpen, NoneOpen

LEMMA HelpNext ==
    ASSUME IdsAssumption, HelpInv, Helpdesk!Next
    PROVE  HelpStep
<1>1. HelpTables(db)
  BY DEF HelpInv
<1>2. PICK s \in Clerks : Helpdesk!Asking(s) \/ Helpdesk!Answering(s) \/ Helpdesk!Chatting(s)
          \/ Helpdesk!Commit(s, Helpdesk!Settle) \/ Helpdesk!Abort(s)
  BY DEF Helpdesk!Next
<1>3. ASSUME NEW call, NEW results, \A new \in results : HelpBegins(new, {}),
             Helpdesk!Do(s, call, results)
      PROVE  HelpStep
  BY <1>3, HelpServed DEF Helpdesk!Do, Helpdesk!Serve
<1>4. ASSUME NEW call, NEW t, NEW results, \A new \in results : HelpBegins(new, Helpdesk!Writing(t)),
             Helpdesk!DoLocked(s, call, t, results)
      PROVE  HelpStep
  BY <1>4, HelpServed DEF Helpdesk!DoLocked
<1>5. CASE Helpdesk!Asking(s)
  <2>1. CASE Helpdesk!Do(s, "ticket", Helpdesk!create_ticket(db))
    BY <1>1, <1>3, <2>1, CreatesTicket
  <2>2. ASSUME NEW t \in DOMAIN db.tickets, Helpdesk!Do(s, "ticket", Helpdesk!get_mine(db, t)) PROVE HelpStep
    BY <1>1, <1>3, <2>2, OpensThread
  <2>3. ASSUME NEW t \in DOMAIN db.tickets,
               Helpdesk!DoLocked(s, "ticket", t, Helpdesk!reply_as_user(db, t))
        PROVE  HelpStep
    BY <1>1, <1>4, <2>3, Replies
  <2> QED BY <1>5, <2>1, <2>2, <2>3 DEF Helpdesk!Asking
<1>6. CASE Helpdesk!Answering(s)
  <2>1. PICK t \in DOMAIN db.tickets :
            \/ Helpdesk!Do(s, "ticket", Helpdesk!admin_get(db, t))
            \/ Helpdesk!DoLocked(s, "ticket", t, Helpdesk!reply_as_staff(db, t))
            \/ Helpdesk!DoLocked(s, "ticket", t, Helpdesk!admin_update(db, t))
    BY <1>6 DEF Helpdesk!Answering
  <2>2. CASE Helpdesk!Do(s, "ticket", Helpdesk!admin_get(db, t))
    BY <1>1, <1>3, <2>2, OpensThread
  <2>3. CASE Helpdesk!DoLocked(s, "ticket", t, Helpdesk!reply_as_staff(db, t))
    BY <1>1, <1>4, <2>3, Replies
  <2>4. CASE Helpdesk!DoLocked(s, "ticket", t, Helpdesk!admin_update(db, t))
    BY <1>1, <1>4, <2>4, UpdatesTicket
  <2> QED BY <2>1, <2>2, <2>3, <2>4
<1>7. CASE Helpdesk!Chatting(s)
  <2>1. CASE Helpdesk!Do(s, "chat", Helpdesk!order_moves(db))
    <3>1. PICK p \in Helpdesk!_resolve_party(db) : TRUE
      BY DEF Helpdesk!_resolve_party, Helpdesk!Parties
    <3>2. \A new \in Helpdesk!order_moves(db) : HelpBegins(new, {})
      BY <1>1, ChatBegins
    <3> QED BY <1>3, <2>1, <3>2
  <2>2. ASSUME NEW p \in Helpdesk!_resolve_party(db),
               Helpdesk!Do(s, "chat", Helpdesk!get_thread(db, p))
        PROVE  HelpStep
    BY <1>1, <1>3, <2>2, ChatBegins
  <2>3. ASSUME NEW p \in Helpdesk!_resolve_party(db),
               Helpdesk!Do(s, "chat", Helpdesk!send_message(db, p))
        PROVE  HelpStep
    BY <1>1, <1>3, <2>3, ChatBegins
  <2> QED BY <1>7, <2>1, <2>2, <2>3 DEF Helpdesk!Chatting
<1> QED BY <1>2, <1>5, <1>6, <1>7, HelpCommitted, HelpAborted

(***************************************************************************)
(* Accounts: who has left leaves nothing open                              *)
(***************************************************************************)
LEMMA AccountsIsDesk ==
    /\ \A table, id, row : Accounts!Add(table, id, row) = Add(table, id, row)
    /\ \A ids : Accounts!Least(ids) = Least(ids)
    /\ \A t, ids : Accounts!Fresh(t, ids) = Fresh(t, ids)
    /\ Accounts!Nothing = Nothing
    /\ Accounts!InTurn <=> InTurn
BY DEF Accounts!Add, Accounts!Joined, Accounts!Only, Add, Joined, Only, Accounts!Least, Least,
       Accounts!Fresh, Accounts!Open, Fresh, Open, Accounts!Nothing, Nothing, Accounts!InTurn, InTurn

LEMMA PeopleKnown ==
    /\ Accounts!People = {Customer, Rider, Vendor}
    /\ Customer # Rider /\ Customer # Vendor /\ Rider # Vendor /\ None # Rider
BY PeopleAssumption DEF Accounts!People, PeopleAssumption

LEMMA NoAddresses == AddressBook(Nothing)
<1>1. DOMAIN Nothing = {} /\ Nothing = [a \in DOMAIN Nothing |-> Nothing[a]]
  BY DEF Nothing
<1> QED BY <1>1 DEF AddressBook

\* ---- What each handler makes of the accounts ----
\* The address book, of a customer who is there.
LEMMA AddressesKept ==
    ASSUME NEW d, AccountsKept(d), ~d.users[Customer].deleted, NEW book, AddressBook(book),
           NEW new, new = [d EXCEPT !.addresses = book]
    PROVE  AccountsKept(new)
<1>1. /\ AccountRecord(new)
      /\ new.users = d.users /\ new.owed = d.owed /\ new.orders = d.orders
      /\ new.profile = d.profile /\ new.store = d.store /\ new.addresses = book
  BY DEF AccountsKept, AccountShape, AccountRecord
<1> QED BY <1>1 DEF AccountsKept, AccountShape, AccountRecord, RiderLeft, VendorLeft

\* The first address is the default, whatever was asked; a later one is the newest.
LEMMA CreatedKept ==
    ASSUME IdsAssumption, NEW d, AccountsKept(d), ~d.users[Customer].deleted, NEW default \in BOOLEAN,
           NEW new \in Accounts!create_address(d, default)
    PROVE  AccountsKept(new)
<1> DEFINE later == {a \in Addresses : a \in Fresh("addresses", Addresses) /\ \A b \in DOMAIN d.addresses : b < a}
<1>1. AddressBook(d.addresses)
  BY DEF AccountsKept, AccountShape, AccountRecord
<1>2. PICK wanted \in BOOLEAN : wanted = (default \/ d.addresses = Nothing)
  OBVIOUS
<1>3. /\ later # {}
      /\ new = [d EXCEPT !.addresses = Add(d.addresses, Least(later), [default |-> wanted])]
  BY <1>2, AccountsIsDesk DEF Accounts!create_address
<1>4. PICK k \in later : k = Least(later)
  BY <1>3, LeastIn DEF IdsAssumption
<1>5. k \in Nat /\ \A b \in DOMAIN d.addresses : b < k
  BY <1>4 DEF IdsAssumption
<1> DEFINE row == [default |-> wanted]
           book == Add(d.addresses, k, row)
<1>6. IsAdd(book, d.addresses, k, row) /\ book = [a \in DOMAIN book |-> book[a]]
  <2>1. k \notin DOMAIN d.addresses
    BY <1>5
  <2>2. book = [a \in DOMAIN book |-> book[a]]
    BY DEF Add, Joined, Only
  <2> QED BY <2>1, <2>2, AddedRow
<1>7. row \in [default : BOOLEAN] /\ (DOMAIN d.addresses = {} => row.default)
  <2>1. DOMAIN d.addresses = {} => d.addresses = Nothing
    BY <1>1 DEF AddressBook, Nothing
  <2> QED BY <1>2, <2>1
<1>8. new = [d EXCEPT !.addresses = book]
  BY <1>3, <1>4
<1> HIDE DEF row, book, later
<1>9. AddressBook(book)
  <2>1. \A a \in DOMAIN book : a \in Nat /\ a <= k
    BY <1>1, <1>5, <1>6 DEF IsAdd, AddressBook
  <2> QED BY <1>1, <1>5, <1>6, <1>7, <2>1 DEF IsAdd, AddressBook
<1> QED BY <1>8, <1>9, AddressesKept

\* Who becomes the default takes it from all others.
LEMMA EditedKept ==
    ASSUME NEW d, AccountsKept(d), ~d.users[Customer].deleted, NEW default \in BOOLEAN, NEW a \in DOMAIN d.addresses,
           NEW new \in Accounts!replace_address(d, a, default)
    PROVE  AccountsKept(new)
<1> DEFINE book == Accounts!_demote_others([d.addresses EXCEPT ![a].default = TRUE], a)
<1>1. new = d \/ new = [d EXCEPT !.addresses = book]
  BY DEF Accounts!replace_address
<1>2. AddressBook(d.addresses)
  BY DEF AccountsKept, AccountShape, AccountRecord
<1>3. [d.addresses[a] EXCEPT !.default = TRUE] = [default |-> TRUE]
  BY <1>2 DEF AddressBook
<1>4. /\ book = [b \in DOMAIN d.addresses |-> IF b = a THEN [default |-> TRUE] ELSE [default |-> FALSE]]
  BY <1>2, <1>3 DEF Accounts!_demote_others, AddressBook
<1> HIDE DEF book
<1>5. AddressBook(book)
  <2>1. DOMAIN book = DOMAIN d.addresses /\ book[a] = [default |-> TRUE]
        /\ \A b \in DOMAIN book : book[b] \in [default : BOOLEAN]
    BY <1>4
  <2> QED BY <1>2, <1>4, <2>1 DEF AddressBook
<1> QED BY <1>1, <1>5, AddressesKept

\* Of numbers no more than some number one is the greatest.
LEMMA GreatestIn ==
    ASSUME NEW S, S # {}, NEW n \in Nat, \A a \in S : a \in Nat /\ a <= n
    PROVE  \E m \in S : \A a \in S : a <= m
<1> DEFINE bounds == {b \in Nat : \A a \in S : a <= b}
<1>1. bounds \in SUBSET Nat /\ bounds # {}
  OBVIOUS
<1>2. PICK m \in bounds : \A b \in bounds : <<b, m>> \notin OpToRel(<, Nat)
  BY <1>1, WFMin, NatLessThanWellFounded, Zenon
<1>3. \A b \in bounds : ~(b < m)
  BY <1>2, Zenon DEF OpToRel
<1>4. CASE m \notin S
  <2>1. \A a \in S : a < m
    BY <1>4
  <2>2. m # 0 /\ m - 1 \in bounds
    BY <2>1
  <2> QED BY <1>3, <2>2
<1> QED BY <1>4

\* The newest of the others takes the default's place.
LEMMA ForgottenKept ==
    ASSUME NEW d, AccountsKept(d), ~d.users[Customer].deleted, NEW a \in DOMAIN d.addresses,
           NEW new \in Accounts!delete_address(d, a)
    PROVE  AccountsKept(new)
<1> DEFINE others == [k \in DOMAIN d.addresses \ {a} |-> d.addresses[k]]
           newest == Accounts!Newest(others)
<1>1. \/ /\ new = [d EXCEPT !.addresses = others]
         /\ ~d.addresses[a].default \/ others = Nothing
      \/ new = [d EXCEPT !.addresses = [others EXCEPT ![newest].default = TRUE]] /\ others # Nothing
  BY AccountsIsDesk DEF Accounts!delete_address, Accounts!Drop
<1>2. AddressBook(d.addresses)
  BY DEF AccountsKept, AccountShape, AccountRecord
<1>3. PICK n \in Nat : \A k \in DOMAIN others : k \in Nat /\ k <= n
  BY <1>2 DEF AddressBook
<1>4. DOMAIN others # {} => \E m \in DOMAIN others : \A k \in DOMAIN others : k <= m
  BY <1>3, GreatestIn
<1>5. CASE new = [d EXCEPT !.addresses = others] /\ (~d.addresses[a].default \/ others = Nothing)
  <2>1. DOMAIN others # {} => ~d.addresses[a].default
    BY <1>5 DEF Nothing
  <2>2. AddressBook(others)
    BY <1>2, <1>4, <2>1 DEF AddressBook
  <2> QED BY <1>5, <2>2, AddressesKept
<1>6. CASE new = [d EXCEPT !.addresses = [others EXCEPT ![newest].default = TRUE]] /\ others # Nothing
  <2>1. DOMAIN others # {}
    BY <1>6 DEF Nothing
  <2>2. \E m \in DOMAIN others : \A k \in DOMAIN others : k <= m
    BY <1>4, <2>1
  <2>3. newest \in DOMAIN others
    BY <2>2 DEF Accounts!Newest
  <2> DEFINE book == [others EXCEPT ![newest].default = TRUE]
  <2>4. /\ DOMAIN book = DOMAIN others /\ book[newest].default = TRUE
        /\ \A k \in DOMAIN book : book[k] \in [default : BOOLEAN]
        /\ book = [k \in DOMAIN book |-> book[k]]
    <3>1. [others[newest] EXCEPT !.default = TRUE] = [default |-> TRUE]
      BY <1>2, <2>3 DEF AddressBook
    <3>2. \A k \in DOMAIN others : others[k] \in [default : BOOLEAN]
      BY <1>2 DEF AddressBook
    <3> HIDE DEF newest, others
    <3>3. book = [k \in DOMAIN others |-> IF k = newest THEN [default |-> TRUE] ELSE others[k]]
      BY <2>3, <3>1
    <3> QED BY <2>3, <3>2, <3>3
  <2>5. AddressBook(book)
    BY <1>2, <2>2, <2>3, <2>4 DEF AddressBook
  <2> QED BY <1>6, <2>5, AddressesKept
<1> QED BY <1>1, <1>5, <1>6

LEMMA FavoritesKept ==
    ASSUME NEW d, AccountsKept(d), ~d.users[Customer].deleted, NEW new \in Accounts!toggle_favorite(d)
    PROVE  AccountsKept(new)
<1>1. PICK f : new = [d EXCEPT !.favorites = f]
  BY DEF Accounts!toggle_favorite
<1>2. /\ AccountRecord(new)
      /\ new.users = d.users /\ new.owed = d.owed /\ new.orders = d.orders
      /\ new.profile = d.profile /\ new.store = d.store /\ new.addresses = d.addresses
  BY <1>1 DEF AccountsKept, AccountShape, AccountRecord
<1> QED BY <1>2 DEF AccountsKept, AccountShape, AccountRecord, RiderLeft, VendorLeft

\* An order that comes after its vendor has left waits, and is nobody's yet.
LEMMA PlacedKept ==
    ASSUME IdsAssumption, AccountsKept(db), ~db.users[Customer].deleted, NEW scheduled \in BOOLEAN,
           NEW new \in Accounts!place_order(db, scheduled)
    PROVE  AccountsKept(new)
<1> DEFINE F == Fresh("orders", Orders)
           row == [status |-> "PENDING", rider |-> None, contact |-> TRUE]
<1>1. F # {} /\ new = [db EXCEPT !.orders = Add(db.orders, Least(F), row)]
  BY AccountsIsDesk DEF Accounts!place_order
<1>2. PICK o \in F : o = Least(F)
  <2>1. F \subseteq Nat
    BY DEF Fresh, IdsAssumption
  <2> QED BY <1>1, <2>1, LeastIn
<1>3. o \notin DOMAIN db.orders
  <2>1. "orders" \in DOMAIN db /\ DOMAIN db["orders"] = DOMAIN db.orders
    BY DEF AccountsKept, AccountShape, AccountRecord
  <2> QED BY <1>2, <2>1, FreshIds
<1> DEFINE A == Add(db.orders, o, row)
<1>4. IsAdd(A, db.orders, o, row)
  BY <1>3, AddedRow
<1>5. row \in AccountOrder /\ row.rider = None /\ row.status = "PENDING"
  BY DEF AccountOrder
<1>6. new = [db EXCEPT !.orders = A]
  BY <1>1, <1>2
<1> HIDE DEF A, F, row
<1>7. /\ AccountRecord(new)
      /\ new.users = db.users /\ new.owed = db.owed /\ new.orders = A
      /\ new.profile = db.profile /\ new.store = db.store /\ new.addresses = db.addresses
  BY <1>6 DEF AccountsKept, AccountShape, AccountRecord
<1>8. /\ \A k \in DOMAIN A : k \in DOMAIN db.orders \/ k = o
      /\ A[o] = row /\ \A k \in DOMAIN db.orders : A[k] = db.orders[k]
  BY <1>4 DEF IsAdd
<1>9. AccountShape(new)
  BY <1>5, <1>7, <1>8 DEF AccountsKept, AccountShape, AccountRecord
<1>10. new.users[Rider].deleted => RiderLeft(new)
  BY <1>5, <1>7, <1>8, PeopleKnown DEF AccountsKept, RiderLeft
<1>11. new.users[Vendor].deleted => VendorLeft(new)
  BY <1>5, <1>7, <1>8 DEF AccountsKept, VendorLeft
<1> QED BY <1>7, <1>9, <1>10, <1>11 DEF AccountsKept

\* An order that was under way moves, in a kitchen that is there or to its cancellation,
\* or gets a rider who is there.
LEMMA OrdersKept ==
    ASSUME NEW d, AccountsKept(d), NEW o \in DOMAIN d.orders, NEW m \in Accounts!Moves, NEW new,
           \/ new \in Accounts!move(d, o, m) /\ (m \in Accounts!Cancels \/ ~d.users[Vendor].deleted)
           \/ new \in Accounts!accept(d, o) /\ ~d.users[Rider].deleted
           \/ new \in Accounts!assign_rider(d, o)
    PROVE  AccountsKept(new)
<1>1. PICK row \in AccountOrder :
          /\ new = [d EXCEPT !.orders = [d.orders EXCEPT ![o] = row]]
          /\ d.orders[o].status \in Accounts!IN_FLIGHT
          /\ row.rider = d.orders[o].rider \/ ~d.users[Rider].deleted
          /\ row.status \in {d.orders[o].status, "CANCELLED"} \/ ~d.users[Vendor].deleted
  <2>1. d.orders[o] \in AccountOrder
    BY DEF AccountsKept, AccountShape, AccountRecord
  <2>2. CASE new \in Accounts!move(d, o, m) /\ (m \in Accounts!Cancels \/ ~d.users[Vendor].deleted)
    <3>1. /\ d.orders[o].status = m[1] /\ new = [d EXCEPT !.orders[o].status = m[2]]
      BY <2>2 DEF Accounts!move
    <3>2. /\ m[1] \in {"PENDING", "PREPARING", "READY"}
          /\ m[2] \in {"PREPARING", "READY", "PICKED_UP", "CANCELLED"}
          /\ m[2] = "CANCELLED" \/ ~d.users[Vendor].deleted
      BY <2>2 DEF Accounts!Moves, Accounts!Kitchen, Accounts!Cancels
    <3> DEFINE row == [d.orders[o] EXCEPT !.status = m[2]]
    <3>3. row \in AccountOrder /\ row.rider = d.orders[o].rider /\ row.status = m[2]
      BY <2>1, <3>2 DEF AccountOrder
    <3>4. new = [d EXCEPT !.orders = [d.orders EXCEPT ![o] = row]]
      BY <3>1 DEF AccountsKept, AccountShape, AccountRecord
    <3> HIDE DEF row
    <3> QED BY <3>1, <3>2, <3>3, <3>4 DEF Accounts!IN_FLIGHT
  <2>3. CASE (new \in Accounts!accept(d, o) /\ ~d.users[Rider].deleted) \/ new \in Accounts!assign_rider(d, o)
    <3>1. /\ d.orders[o].status \in {"PENDING", "PREPARING", "READY"}
          /\ new = [d EXCEPT !.orders[o].rider = Rider] /\ ~d.users[Rider].deleted
      BY <2>3 DEF Accounts!accept, Accounts!assign_rider, Accounts!SignedIn
    <3> DEFINE row == [d.orders[o] EXCEPT !.rider = Rider]
    <3>3. row \in AccountOrder /\ row.status = d.orders[o].status
      BY <2>1 DEF AccountOrder
    <3>4. new = [d EXCEPT !.orders = [d.orders EXCEPT ![o] = row]]
      BY <3>1 DEF AccountsKept, AccountShape, AccountRecord
    <3> HIDE DEF row
    <3> QED BY <3>1, <3>3, <3>4 DEF Accounts!IN_FLIGHT
  <2> QED BY <2>2, <2>3
<1>2. /\ AccountRecord(new)
      /\ new.users = d.users /\ new.owed = d.owed /\ new.orders = [d.orders EXCEPT ![o] = row]
      /\ new.profile = d.profile /\ new.store = d.store /\ new.addresses = d.addresses
  BY <1>1 DEF AccountsKept, AccountShape, AccountRecord
<1>3. /\ DOMAIN new.orders = DOMAIN d.orders /\ new.orders[o] = row
      /\ \A k \in DOMAIN d.orders : k # o => new.orders[k] = d.orders[k]
  BY <1>2
<1>4. AccountShape(new)
  BY <1>2, <1>3 DEF AccountsKept, AccountShape, AccountRecord
<1>5. ~d.users[Customer].deleted
  BY <1>1 DEF AccountsKept, CustomerLeft
<1>6. d.users[Rider].deleted => RiderLeft(new)
  BY <1>1, <1>2, <1>3 DEF AccountsKept, RiderLeft
<1>7. d.users[Vendor].deleted => VendorLeft(new)
  BY <1>1, <1>2, <1>3 DEF AccountsKept, VendorLeft, Accounts!IN_FLIGHT
<1> QED BY <1>2, <1>4, <1>5, <1>6, <1>7 DEF AccountsKept

\* A delivery earns its rider and its vendor, who are there.
LEMMA DeliveredKept ==
    ASSUME NEW d, AccountsKept(d), NEW o \in DOMAIN d.orders, NEW new \in Accounts!_complete(d, o)
    PROVE  AccountsKept(new)
<1>1. /\ d.orders[o].status = "PICKED_UP" /\ d.orders[o].rider = Rider
      /\ new = [d EXCEPT !.orders[o].status = "DELIVERED", !.owed[Rider].balance = @ + 1,
                         !.owed[Vendor].balance = @ + 1]
  BY DEF Accounts!_complete
<1> DEFINE row == [d.orders[o] EXCEPT !.status = "DELIVERED"]
           owed == [u \in {Rider, Vendor} |-> [d.owed[u] EXCEPT !.balance = d.owed[u].balance + 1]]
<1>2. row \in AccountOrder
  BY DEF AccountOrder, AccountsKept, AccountShape, AccountRecord
<1>3. owed \in [{Rider, Vendor} -> Books]
  BY DEF AccountsKept, AccountShape, AccountRecord, Books
<1>4. /\ AccountRecord(new)
      /\ new.users = d.users /\ new.profile = d.profile /\ new.store = d.store /\ new.addresses = d.addresses
  BY <1>1 DEF AccountsKept, AccountShape, AccountRecord
<1>5. /\ DOMAIN new.orders = DOMAIN d.orders /\ new.orders[o] = row
      /\ \A k \in DOMAIN d.orders : k # o => new.orders[k] = d.orders[k]
  BY <1>1 DEF AccountsKept, AccountShape, AccountRecord
<1>6. new.owed = owed
  <2>1. d.owed = [u \in {Rider, Vendor} |-> d.owed[u]] /\ Rider # Vendor
    BY PeopleKnown DEF AccountsKept, AccountShape, AccountRecord
  <2>2. new.owed = [[d.owed EXCEPT ![Rider].balance = @ + 1] EXCEPT ![Vendor].balance = @ + 1]
    BY <1>1 DEF AccountsKept, AccountShape, AccountRecord
  <2> QED BY <2>1, <2>2
<1> HIDE DEF row, owed
<1>7. AccountShape(new)
  BY <1>2, <1>3, <1>4, <1>5, <1>6 DEF AccountsKept, AccountShape, AccountRecord
<1>8. \A u \in Accounts!People : ~d.users[u].deleted
  BY <1>1, PeopleKnown DEF AccountsKept, CustomerLeft, RiderLeft, VendorLeft, Accounts!IN_FLIGHT
<1> QED BY <1>4, <1>7, <1>8, PeopleKnown DEF AccountsKept

\* One row of the books, of the shifts or of the stores, as long as it says nothing of who
\* has left that an operator did not write.
LEMMA BooksKept ==
    ASSUME NEW d, AccountsKept(d), NEW u \in {Rider, Vendor}, NEW b \in Books,
           d.users[u].deleted => NothingOwed(b),
           NEW new, new = [d EXCEPT !.owed = [d.owed EXCEPT ![u] = b]]
    PROVE  AccountsKept(new)
<1>1. /\ AccountRecord(new)
      /\ new.users = d.users /\ new.profile = d.profile /\ new.store = d.store
      /\ new.addresses = d.addresses /\ new.favorites = d.favorites
      /\ new.orders = d.orders /\ new.owed = [d.owed EXCEPT ![u] = b]
  BY DEF AccountsKept, AccountShape, AccountRecord
<1>2. AccountShape(new) /\ new.owed[u] = b /\ \A v \in {Rider, Vendor} : v # u => new.owed[v] = d.owed[v]
  BY <1>1 DEF AccountsKept, AccountShape, AccountRecord
<1> QED BY <1>1, <1>2, PeopleKnown DEF AccountsKept, CustomerLeft, RiderLeft, VendorLeft

LEMMA ShiftKept ==
    ASSUME NEW d, AccountsKept(d), NEW p \in Shift, d.users[Rider].deleted => OffShift(p),
           NEW new, new = [d EXCEPT !.profile = [d.profile EXCEPT ![Rider] = p]]
    PROVE  AccountsKept(new)
<1>1. /\ AccountRecord(new)
      /\ new.users = d.users /\ new.owed = d.owed /\ new.store = d.store
      /\ new.addresses = d.addresses /\ new.favorites = d.favorites
      /\ new.orders = d.orders /\ new.profile = [d.profile EXCEPT ![Rider] = p]
  BY DEF AccountsKept, AccountShape, AccountRecord
<1>2. AccountShape(new) /\ new.profile[Rider] = p
  BY <1>1 DEF AccountsKept, AccountShape, AccountRecord
<1> QED BY <1>1, <1>2, PeopleKnown DEF AccountsKept, CustomerLeft, RiderLeft, VendorLeft

LEMMA StoreKept ==
    ASSUME NEW d, AccountsKept(d), NEW r \in Storeroom, d.users[Vendor].deleted => ShutDown(r),
           NEW new, new = [d EXCEPT !.store = [d.store EXCEPT ![Vendor] = r]]
    PROVE  AccountsKept(new)
<1>1. /\ AccountRecord(new)
      /\ new.users = d.users /\ new.owed = d.owed /\ new.profile = d.profile
      /\ new.addresses = d.addresses /\ new.favorites = d.favorites
      /\ new.orders = d.orders /\ new.store = [d.store EXCEPT ![Vendor] = r]
  BY DEF AccountsKept, AccountShape, AccountRecord
<1>2. AccountShape(new) /\ new.store[Vendor] = r
  BY <1>1 DEF AccountsKept, AccountShape, AccountRecord
<1> QED BY <1>1, <1>2, PeopleKnown DEF AccountsKept, CustomerLeft, RiderLeft, VendorLeft

\* Money on its way or back from it is of someone who is there, or an operator's doing;
\* what an operator takes back or grants is noted.
LEMMA MoneyKept ==
    ASSUME NEW d, AccountsKept(d), NEW u \in {Rider, Vendor}, NEW paid \in BOOLEAN, NEW new,
           \/ new \in Accounts!request_payout(d, u) /\ ~d.users[u].deleted
           \/ new \in Accounts!settle_payout(d, u, paid)
           \/ new \in Accounts!admin_reopen(d, u)
           \/ new \in Accounts!grant_incentive(d) /\ u = Rider
    PROVE  AccountsKept(new)
<1> DEFINE b == d.owed[u]
<1>1. b \in Books /\ (d.users[u].deleted => NothingOwed(b)) /\ d.users[u].deleted \in BOOLEAN
  BY PeopleKnown DEF AccountsKept, AccountShape, AccountRecord, RiderLeft, VendorLeft
<1>2. ASSUME NEW c \in Books, d.users[u].deleted => NothingOwed(c), new = [d EXCEPT !.owed[u] = c]
      PROVE  AccountsKept(new)
  <2>1. new = [d EXCEPT !.owed = [d.owed EXCEPT ![u] = c]]
    BY <1>2 DEF AccountsKept, AccountShape, AccountRecord
  <2> QED BY <1>2, <2>1, BooksKept
<1>3. /\ b.balance \in Nat /\ b.processing \in Nat /\ b.paid \in Nat /\ b.operated \in BOOLEAN
      /\ d.users[u].deleted => b.operated \/ (b.balance = 0 /\ b.processing = 0)
  BY <1>1 DEF Books, NothingOwed
<1>4. PICK was \in BOOLEAN : was = (b.operated \/ d.users[u].deleted)
  BY <1>1, <1>3
<1>5. CASE new \in Accounts!request_payout(d, u) /\ ~d.users[u].deleted
  <2>1. PICK c : c = Accounts!Purse(0, b.processing + b.balance, b.paid, b.operated)
    OBVIOUS
  <2>2. new = [d EXCEPT !.owed[u] = c]
    BY <1>5, <2>1 DEF Accounts!request_payout
  <2>3. c \in Books
    BY <1>3, <2>1 DEF Accounts!Purse, Books
  <2> QED BY <1>2, <1>5, <2>2, <2>3
<1>6. CASE new \in Accounts!settle_payout(d, u, paid)
  <2>1. PICK c : c = IF paid THEN Accounts!Purse(b.balance, 0, b.paid + b.processing, b.operated)
                     ELSE Accounts!Purse(b.balance + b.processing, 0, b.paid, b.operated)
    OBVIOUS
  <2>2. b.processing # 0 /\ new = [d EXCEPT !.owed[u] = c]
    BY <1>6, <2>1 DEF Accounts!settle_payout
  <2>3. c \in Books /\ c.operated = b.operated
    BY <1>3, <2>1 DEF Accounts!Purse, Books
  <2> QED BY <1>2, <1>3, <2>2, <2>3 DEF NothingOwed
<1>7. CASE new \in Accounts!admin_reopen(d, u)
  <2>1. PICK c : c = Accounts!Purse(b.balance, b.processing + b.paid, 0, was)
    OBVIOUS
  <2>2. new = [d EXCEPT !.owed[u] = c]
    BY <1>4, <1>7, <2>1 DEF Accounts!admin_reopen
  <2>3. c \in Books /\ c.operated = was
    BY <1>3, <2>1 DEF Accounts!Purse, Books
  <2> QED BY <1>2, <1>4, <2>2, <2>3 DEF NothingOwed
<1>8. CASE new \in Accounts!grant_incentive(d) /\ u = Rider
  <2>1. PICK c : c = Accounts!Purse(b.balance + 1, b.processing, b.paid, was)
    OBVIOUS
  <2>2. new = [d EXCEPT !.owed[u] = c]
    BY <1>4, <1>8, <2>1 DEF Accounts!grant_incentive
  <2>3. c \in Books /\ c.operated = was
    BY <1>3, <2>1 DEF Accounts!Purse, Books
  <2> QED BY <1>2, <1>4, <2>2, <2>3 DEF NothingOwed
<1> QED BY <1>5, <1>6, <1>7, <1>8

\* The switches of who is there, the worker's of a store on the schedule, and the operator's.
LEMMA SwitchedKept ==
    ASSUME NEW d, AccountsKept(d), NEW on \in BOOLEAN, NEW new,
           \/ new \in Accounts!set_shift(d) /\ ~d.users[Rider].deleted
           \/ new \in Accounts!set_flags(d, on)
    PROVE  AccountsKept(new)
<1> DEFINE p == d.profile[Rider]
<1>1. p \in Shift /\ d.users[Rider].deleted \in BOOLEAN
  BY PeopleKnown DEF AccountsKept, AccountShape, AccountRecord
<1>2. CASE new \in Accounts!set_shift(d) /\ ~d.users[Rider].deleted
  <2> DEFINE q == [p EXCEPT !.online = ~p.online]
  <2>1. q \in Shift
    BY <1>1, Zenon DEF Shift
  <2>2. new = [d EXCEPT !.profile = [d.profile EXCEPT ![Rider] = q]]
    BY <1>2 DEF Accounts!set_shift, AccountsKept, AccountShape, AccountRecord
  <2> HIDE DEF q
  <2> QED BY <1>2, <2>1, <2>2, ShiftKept
<1>3. CASE new \in Accounts!set_flags(d, on)
  <2> DEFINE q == [p EXCEPT !.online = on, !.operated = p.operated \/ d.users[Rider].deleted]
  <2>1. q \in Shift /\ (d.users[Rider].deleted => q.operated)
    BY <1>1 DEF Shift
  <2>2. new = [d EXCEPT !.profile = [d.profile EXCEPT ![Rider] = q]]
    BY <1>3 DEF Accounts!set_flags, AccountsKept, AccountShape, AccountRecord
  <2> HIDE DEF q
  <2> QED BY <2>1, <2>2, ShiftKept DEF OffShift
<1> QED BY <1>2, <1>3

LEMMA StoreSwitched ==
    ASSUME NEW d, AccountsKept(d), NEW active \in BOOLEAN, NEW open \in BOOLEAN, NEW hours \in BOOLEAN, NEW new,
           \/ new \in Accounts!switch(d) /\ ~d.users[Vendor].deleted
           \/ new \in Accounts!sync(d)
           \/ new \in Accounts!update_vendor(d, active, open, hours)
    PROVE  AccountsKept(new)
<1> DEFINE r == d.store[Vendor]
<1>1. r \in Storeroom /\ (d.users[Vendor].deleted => ShutDown(r)) /\ d.users[Vendor].deleted \in BOOLEAN
  BY PeopleKnown DEF AccountsKept, AccountShape, AccountRecord, VendorLeft
<1>2. CASE (new \in Accounts!switch(d) /\ ~d.users[Vendor].deleted) \/ new \in Accounts!sync(d)
  <2> DEFINE q == [r EXCEPT !.open = ~r.open]
  <2>1. q \in Storeroom
    BY <1>1, Zenon DEF Storeroom
  <2>2. /\ new = [d EXCEPT !.store = [d.store EXCEPT ![Vendor] = q]]
        /\ r.hours \/ ~d.users[Vendor].deleted
    BY <1>2 DEF Accounts!sync, Accounts!switch, AccountsKept, AccountShape, AccountRecord
  <2>3. d.users[Vendor].deleted => ShutDown(q)
    <3>1. q.operated = r.operated
      BY <1>1 DEF Storeroom
    <3> QED BY <1>1, <2>2, <3>1 DEF ShutDown
  <2> HIDE DEF q
  <2> QED BY <2>1, <2>2, <2>3, StoreKept
<1>3. CASE new \in Accounts!update_vendor(d, active, open, hours)
  <2> DEFINE q == [active |-> active, open |-> open, hours |-> hours,
                   operated |-> r.operated \/ d.users[Vendor].deleted]
  <2>1. q \in Storeroom /\ (d.users[Vendor].deleted => q.operated)
    BY <1>1 DEF Storeroom
  <2>2. new = [d EXCEPT !.store = [d.store EXCEPT ![Vendor] = q]]
    BY <1>3 DEF Accounts!update_vendor, AccountsKept, AccountShape, AccountRecord
  <2> HIDE DEF q
  <2> QED BY <2>1, <2>2, StoreKept DEF ShutDown
<1> QED BY <1>2, <1>3

\* The operator's block, of a customer or a rider who has not left.
LEMMA BlockedKept ==
    ASSUME NEW d, AccountsKept(d), NEW u \in Accounts!People, ~d.users[u].deleted,
           NEW on \in BOOLEAN, on => d.profile[Rider].online, NEW active \in BOOLEAN,
           NEW new, new = [d EXCEPT !.users[u].active = active, !.profile[Rider].online = on]
    PROVE  AccountsKept(new)
<1> DEFINE users == [d.users EXCEPT ![u].active = active]
           e == [d EXCEPT !.users = users]
           p == [d.profile[Rider] EXCEPT !.online = on]
<1>1. /\ users \in [Accounts!People -> [deleted : BOOLEAN, active : BOOLEAN]]
      /\ \A v \in Accounts!People : users[v].deleted = d.users[v].deleted
  <2>1. [d.users[u] EXCEPT !.active = active] = [deleted |-> d.users[u].deleted, active |-> active]
    BY DEF AccountsKept, AccountShape, AccountRecord
  <2> QED BY <2>1 DEF AccountsKept, AccountShape, AccountRecord
<1>3. new = [e EXCEPT !.profile = [e.profile EXCEPT ![Rider] = p]]
  BY DEF AccountsKept, AccountShape, AccountRecord
<1> HIDE DEF users
<1>2. /\ AccountRecord(e) /\ e.users = users
      /\ e.owed = d.owed /\ e.store = d.store /\ e.profile = d.profile
      /\ e.addresses = d.addresses /\ e.favorites = d.favorites /\ e.orders = d.orders
  BY DEF AccountsKept, AccountShape, AccountRecord
<1>4. p \in Shift /\ (d.users[Rider].deleted => OffShift(p))
  <2>1. d.profile[Rider] \in Shift /\ (d.users[Rider].deleted => OffShift(d.profile[Rider]))
    BY DEF AccountsKept, AccountShape, AccountRecord, RiderLeft
  <2>2. p \in Shift /\ p.online = on /\ p.operated = d.profile[Rider].operated
    BY <2>1 DEF Shift
  <2> HIDE DEF p
  <2> QED BY <2>1, <2>2 DEF OffShift
<1> HIDE DEF e, p
<1>5. AccountsKept(e)
  BY <1>1, <1>2, PeopleKnown DEF AccountsKept, AccountShape, CustomerLeft, RiderLeft, VendorLeft
<1> QED BY <1>1, <1>2, <1>3, <1>4, <1>5, PeopleKnown, ShiftKept

\* Who leaves was let go, and is wiped as their role asks.
LEMMA LeftKept ==
    ASSUME NEW d, AccountsKept(d), NEW u \in Accounts!People, NEW new \in Accounts!delete_account(d, u)
    PROVE  AccountsKept(new)
<1>1. /\ Accounts!_refuse_if_orders_under_way(d, u) /\ Accounts!_refuse_if_money_owed(d, u)
      /\ new = [(CASE u = Customer -> Accounts!_delete_personal_rows(d)
                   [] u = Rider -> Accounts!_wipe_rider(d)
                   [] OTHER -> Accounts!_close_store(d)) EXCEPT !.users[u] = [deleted |-> TRUE, active |-> FALSE]]
  BY DEF Accounts!delete_account
<1>2. \A o \in DOMAIN d.orders : (u = Rider => d.orders[o].rider = Rider) =>
          d.orders[o].status \notin Accounts!IN_FLIGHT
  BY <1>1 DEF Accounts!_refuse_if_orders_under_way, Accounts!Whose
<1> DEFINE users == [d.users EXCEPT ![u] = [deleted |-> TRUE, active |-> FALSE]]
<1>3. /\ users \in [Accounts!People -> [deleted : BOOLEAN, active : BOOLEAN]]
      /\ \A v \in Accounts!People : v # u => users[v] = d.users[v]
  BY DEF AccountsKept, AccountShape, AccountRecord
<1>4. CASE u = Customer
  <2> DEFINE orders == [k \in DOMAIN d.orders |-> IF k \in DOMAIN d.orders
                            THEN [d.orders[k] EXCEPT !.contact = FALSE] ELSE d.orders[k]]
  <2>1. new = [[d EXCEPT !.addresses = Nothing, !.favorites = Nothing, !.orders = orders]
               EXCEPT !.users[u] = [deleted |-> TRUE, active |-> FALSE]]
    <3>1. Accounts!_delete_personal_rows(d)
          = [d EXCEPT !.addresses = Nothing, !.favorites = Nothing, !.orders = orders]
      BY AccountsIsDesk DEF Accounts!_delete_personal_rows, Accounts!Change
    <3> HIDE DEF orders
    <3> QED BY <1>1, <1>4, <3>1, PeopleKnown
  <2>2. /\ DOMAIN orders = DOMAIN d.orders
        /\ \A k \in DOMAIN d.orders : /\ orders[k] \in AccountOrder
              /\ orders[k].status = d.orders[k].status /\ orders[k].rider = d.orders[k].rider
    BY DEF AccountsKept, AccountShape, AccountRecord, AccountOrder
  <2> HIDE DEF orders
  <2>3. /\ AccountRecord(new)
        /\ new.owed = d.owed /\ new.store = d.store /\ new.profile = d.profile
        /\ new.addresses = Nothing /\ new.favorites = Nothing /\ new.orders = orders /\ new.users = users
    BY <2>1 DEF AccountsKept, AccountShape, AccountRecord
  <2> HIDE DEF users
  <2>4. AccountShape(new)
    BY <1>3, <2>2, <2>3, NoAddresses DEF AccountsKept, AccountShape, AccountRecord
  <2>5. CustomerLeft(new)
    BY <1>2, <1>4, <2>2, <2>3, PeopleKnown DEF CustomerLeft
  <2>6. (d.users[Rider].deleted => RiderLeft(new)) /\ (d.users[Vendor].deleted => VendorLeft(new))
    BY <2>2, <2>3 DEF AccountsKept, RiderLeft, VendorLeft
  <2> QED BY <1>3, <1>4, <2>3, <2>4, <2>5, <2>6, PeopleKnown DEF AccountsKept
<1>5. CASE u = Rider
  <2> DEFINE p == [d.profile[Rider] EXCEPT !.online = FALSE, !.papers = FALSE]
  <2>1. new = [[d EXCEPT !.profile[Rider].online = FALSE, !.profile[Rider].papers = FALSE]
               EXCEPT !.users[u] = [deleted |-> TRUE, active |-> FALSE]]
    BY <1>1, <1>5, PeopleKnown DEF Accounts!_wipe_rider
  <2>2. /\ AccountRecord(new)
        /\ new.owed = d.owed /\ new.store = d.store /\ new.orders = d.orders
        /\ new.addresses = d.addresses /\ new.favorites = d.favorites /\ new.users = users
        /\ new.profile = [d.profile EXCEPT ![Rider] = p]
    BY <2>1 DEF AccountsKept, AccountShape, AccountRecord
  <2>3. p \in Shift /\ ~p.online
    BY DEF AccountsKept, AccountShape, AccountRecord, Shift
  <2> HIDE DEF users, p
  <2>4. AccountShape(new) /\ new.profile[Rider] = p
    BY <1>3, <2>2, <2>3 DEF AccountsKept, AccountShape, AccountRecord
  <2>5. RiderLeft(new)
    BY <1>1, <1>2, <1>5, <2>2, <2>3, <2>4, PeopleKnown
       DEF RiderLeft, OffShift, NothingOwed, Accounts!_refuse_if_money_owed
  <2>6. (d.users[Customer].deleted => CustomerLeft(new)) /\ (d.users[Vendor].deleted => VendorLeft(new))
    BY <2>2 DEF AccountsKept, CustomerLeft, VendorLeft
  <2> QED BY <1>3, <1>5, <2>2, <2>4, <2>5, <2>6, PeopleKnown DEF AccountsKept
<1>6. CASE u = Vendor
  <2> DEFINE r == [d.store[Vendor] EXCEPT !.active = FALSE, !.open = FALSE, !.hours = FALSE]
  <2>1. new = [[d EXCEPT !.store[Vendor].active = FALSE, !.store[Vendor].open = FALSE,
                         !.store[Vendor].hours = FALSE]
               EXCEPT !.users[u] = [deleted |-> TRUE, active |-> FALSE]]
    BY <1>1, <1>6, PeopleKnown DEF Accounts!_close_store
  <2>2. /\ AccountRecord(new)
        /\ new.owed = d.owed /\ new.profile = d.profile /\ new.orders = d.orders
        /\ new.addresses = d.addresses /\ new.favorites = d.favorites /\ new.users = users
        /\ new.store = [d.store EXCEPT ![Vendor] = r]
    BY <2>1 DEF AccountsKept, AccountShape, AccountRecord
  <2>3. r \in Storeroom /\ ~r.active /\ ~r.open /\ ~r.hours
    BY DEF AccountsKept, AccountShape, AccountRecord, Storeroom
  <2> HIDE DEF users, r
  <2>4. AccountShape(new) /\ new.store[Vendor] = r
    BY <1>3, <2>2, <2>3 DEF AccountsKept, AccountShape, AccountRecord
  <2>5. VendorLeft(new)
    BY <1>1, <1>2, <1>6, <2>2, <2>3, <2>4, PeopleKnown
       DEF VendorLeft, ShutDown, NothingOwed, Accounts!_refuse_if_money_owed
  <2>6. (d.users[Customer].deleted => CustomerLeft(new)) /\ (d.users[Rider].deleted => RiderLeft(new))
    BY <2>2 DEF AccountsKept, CustomerLeft, RiderLeft
  <2> QED BY <1>3, <1>6, <2>2, <2>4, <2>5, <2>6, PeopleKnown DEF AccountsKept
<1> QED BY <1>4, <1>5, <1>6, PeopleKnown

LEMMA AccountsServed ==
    ASSUME AccountsInv, NEW s \in Clerks, NEW call, NEW holds, NEW results,
           InTurn => \A new \in results : AccountsKept(new),
           Accounts!ServeHolding(s, call, holds, results, Accounts!Settle)
    PROVE  AccountsInv'
<1>1. script' = script /\ (InTurn => txn' = txn /\ \E new \in results : db' \in Accounts!Settle(new))
  BY DEF Accounts!ServeHolding, InTurn
<1>2. \A d : \A e \in Accounts!Settle(d) : e = d
  BY Zenon DEF Accounts!Settle
<1> QED BY <1>1, <1>2 DEF AccountsInv, InTurn, NoneOpen

LEMMA AccountsStated ==
    ASSUME AccountsInv, NEW call, NEW results,
           InTurn => \A new \in results : AccountsKept(new),
           Accounts!At(call, results)
    PROVE  AccountsInv'
<1>1. script' = script /\ txn' = txn /\ \E new \in results : db' \in Accounts!Settle(new)
  BY DEF Accounts!At, Accounts!Statement
<1>2. \A d : \A e \in Accounts!Settle(d) : e = d
  BY DEF Accounts!Settle
<1> QED BY <1>1, <1>2 DEF AccountsInv, InTurn, NoneOpen

LEMMA AccountsInit ==
    ASSUME Accounts!Init
    PROVE  AccountsInv
<1>1. /\ db = [users |-> [u \in Accounts!People |-> [deleted |-> FALSE, active |-> TRUE]],
               owed |-> [u \in {Rider, Vendor} |-> [balance |-> 0, processing |-> 0, paid |-> 0, operated |-> FALSE]],
               addresses |-> Nothing, favorites |-> Nothing, orders |-> Nothing,
               profile |-> [k \in {Rider} |-> [online |-> FALSE, papers |-> TRUE, operated |-> FALSE]],
               store |-> [k \in {Vendor} |-> [active |-> TRUE, open |-> FALSE, hours |-> TRUE, operated |-> FALSE]]]
      /\ txn = [s \in Clerks |-> None]
  BY AccountsIsDesk DEF Accounts!Init, Accounts!Opens, Accounts!Only, Accounts!Purse
<1>2. DOMAIN Nothing = {}
  BY DEF Nothing
<1>3. AccountShape(db) /\ \A u \in Accounts!People : ~db.users[u].deleted
  BY <1>1, <1>2, NoAddresses DEF AccountShape, AccountRecord, Books, Shift, Storeroom
<1> QED BY <1>1, <1>3, PeopleKnown DEF AccountsInv, AccountsKept, NoneOpen

LEMMA AccountsNext ==
    ASSUME IdsAssumption, AccountsInv, Accounts!Next
    PROVE  AccountsInv'
<1>1. InTurn => AccountsKept(db)
  BY DEF AccountsInv
<1>2. ASSUME NEW s \in Clerks, NEW u \in Accounts!People, NEW call, NEW results,
             InTurn /\ ~db.users[u].deleted => \A new \in results : AccountsKept(new),
             Accounts!As(s, u, call, results)
      PROVE  AccountsInv'
  <2> DEFINE heard == IF Accounts!SignedIn(db, u) THEN results ELSE {}
  <2>1. InTurn => \A new \in heard : AccountsKept(new)
    BY <1>2 DEF Accounts!SignedIn
  <2>2. Accounts!ServeHolding(s, call, {}, heard, Accounts!Settle)
    BY <1>2 DEF Accounts!As, Accounts!Serve
  <2> QED BY <2>1, <2>2, AccountsServed
<1>3. ASSUME NEW s \in Clerks, Accounts!AddressBook(s) PROVE AccountsInv'
  <2>1. ASSUME NEW default \in BOOLEAN,
               Accounts!As(s, Customer, "address", Accounts!create_address(db, default))
        PROVE  AccountsInv'
    BY <1>1, <1>2, <2>1, CreatedKept, PeopleKnown
  <2>2. ASSUME NEW default \in BOOLEAN, NEW a \in DOMAIN db.addresses,
               Accounts!As(s, Customer, "address", Accounts!replace_address(db, a, default))
        PROVE  AccountsInv'
    BY <1>1, <1>2, <2>2, EditedKept, PeopleKnown
  <2>3. ASSUME NEW a \in DOMAIN db.addresses,
               Accounts!As(s, Customer, "address", Accounts!set_default(db, a))
        PROVE  AccountsInv'
    BY <1>1, <1>2, <2>3, EditedKept, PeopleKnown DEF Accounts!set_default
  <2>4. ASSUME NEW a \in DOMAIN db.addresses,
               Accounts!As(s, Customer, "address", Accounts!delete_address(db, a))
        PROVE  AccountsInv'
    BY <1>1, <1>2, <2>4, ForgottenKept, PeopleKnown
  <2> QED BY <1>3, <2>1, <2>2, <2>3, <2>4 DEF Accounts!AddressBook
<1>4. ASSUME NEW s \in Clerks, Accounts!Trading(s) PROVE AccountsInv'
  <2>1. CASE Accounts!As(s, Customer, "favorite", Accounts!toggle_favorite(db))
    BY <1>1, <1>2, <2>1, FavoritesKept, PeopleKnown
  <2>2. ASSUME NEW scheduled \in BOOLEAN, Accounts!As(s, Customer, "order", Accounts!place_order(db, scheduled))
        PROVE  AccountsInv'
    BY <1>1, <1>2, <2>2, PlacedKept, PeopleKnown
  <2>3. ASSUME NEW o \in DOMAIN db.orders, NEW m \in Accounts!Kitchen,
               Accounts!As(s, Vendor, "order", Accounts!move(db, o, m))
        PROVE  AccountsInv'
    <3>1. InTurn /\ ~db.users[Vendor].deleted => \A new \in Accounts!move(db, o, m) : AccountsKept(new)
      BY <1>1, OrdersKept DEF Accounts!Moves
    <3> QED BY <1>2, <2>3, <3>1, PeopleKnown
  <2>4. ASSUME NEW o \in DOMAIN db.orders, NEW m \in Accounts!Cancels,
               Accounts!Serve(s, "order", Accounts!move(db, o, m), Accounts!Settle)
        PROVE  AccountsInv'
    <3>1. InTurn => \A new \in Accounts!move(db, o, m) : AccountsKept(new)
      BY <1>1, OrdersKept DEF Accounts!Moves
    <3> QED BY <2>4, <3>1, AccountsServed DEF Accounts!Serve
  <2>5. ASSUME NEW o \in DOMAIN db.orders, Accounts!As(s, Rider, "order", Accounts!accept(db, o))
        PROVE  AccountsInv'
    <3>1. PICK m \in Accounts!Moves : TRUE
      BY DEF Accounts!Moves, Accounts!Kitchen
    <3>2. InTurn /\ ~db.users[Rider].deleted => \A new \in Accounts!accept(db, o) : AccountsKept(new)
      BY <1>1, OrdersKept
    <3> QED BY <1>2, <2>5, <3>2, PeopleKnown
  <2>6. ASSUME NEW o \in DOMAIN db.orders, Accounts!As(s, Rider, "order", Accounts!_complete(db, o))
        PROVE  AccountsInv'
    BY <1>1, <1>2, <2>6, DeliveredKept, PeopleKnown
  <2>7. ASSUME NEW u \in {Rider, Vendor}, Accounts!As(s, u, "payout", Accounts!request_payout(db, u))
        PROVE  AccountsInv'
    <3>1. InTurn /\ ~db.users[u].deleted => \A new \in Accounts!request_payout(db, u) : AccountsKept(new)
      BY <1>1, MoneyKept
    <3> QED BY <1>2, <2>7, <3>1, PeopleKnown
  <2>8. CASE Accounts!As(s, Rider, "order", Accounts!set_shift(db))
    BY <1>1, <1>2, <2>8, SwitchedKept, PeopleKnown
  <2>9. CASE Accounts!As(s, Vendor, "order", Accounts!switch(db))
    BY <1>1, <1>2, <2>9, StoreSwitched, PeopleKnown
  <2> QED BY <1>4, <2>1, <2>2, <2>3, <2>4, <2>5, <2>6, <2>7, <2>8, <2>9 DEF Accounts!Trading
<1>10. ASSUME NEW s \in Clerks, NEW call, NEW results, Accounts!Serve(s, call, results, Accounts!Settle),
              InTurn => \A new \in results : AccountsKept(new)
       PROVE  AccountsInv'
  BY <1>10, AccountsServed DEF Accounts!Serve
<1>11. ASSUME NEW s \in Clerks, Accounts!Operator(s) PROVE AccountsInv'
  <2>1. ASSUME NEW o \in DOMAIN db.orders, Accounts!Serve(s, "assign", Accounts!assign_rider(db, o), Accounts!Settle)
        PROVE  AccountsInv'
    <3>1. PICK m \in Accounts!Moves : TRUE
      BY DEF Accounts!Moves, Accounts!Kitchen
    <3>2. InTurn => \A new \in Accounts!assign_rider(db, o) : AccountsKept(new)
      BY <1>1, OrdersKept
    <3> QED BY <1>10, <2>1, <3>2
  <2>2. ASSUME NEW o \in DOMAIN db.orders, Accounts!Serve(s, "assign", Accounts!_complete(db, o), Accounts!Settle)
        PROVE  AccountsInv'
    BY <1>1, <1>10, <2>2, DeliveredKept
  <2>3. ASSUME NEW u \in {Rider, Vendor}, Accounts!Serve(s, "reopen", Accounts!admin_reopen(db, u), Accounts!Settle)
        PROVE  AccountsInv'
    BY <1>1, <1>10, <2>3, MoneyKept
  <2>4. CASE Accounts!Serve(s, "reopen", Accounts!grant_incentive(db), Accounts!Settle)
    BY <1>1, <1>10, <2>4, MoneyKept
  <2>5. ASSUME NEW on \in BOOLEAN, Accounts!Serve(s, "flags", Accounts!set_flags(db, on), Accounts!Settle)
        PROVE  AccountsInv'
    BY <1>1, <1>10, <2>5, SwitchedKept
  <2>6. ASSUME NEW active \in BOOLEAN, NEW open \in BOOLEAN, NEW hours \in BOOLEAN,
               Accounts!Serve(s, "flags", Accounts!update_vendor(db, active, open, hours), Accounts!Settle)
        PROVE  AccountsInv'
    BY <1>1, <1>10, <2>6, StoreSwitched
  <2> QED BY <1>11, <2>1, <2>2, <2>3, <2>4, <2>5, <2>6 DEF Accounts!Operator
<1>5. ASSUME NEW s \in Clerks, NEW u \in Accounts!People, Accounts!Leave(s, u) PROVE AccountsInv'
  <2> DEFINE results == IF Accounts!SignedIn(db, u) THEN Accounts!delete_account(db, u) ELSE {}
  <2>1. InTurn => \A new \in results : AccountsKept(new)
    BY <1>1, LeftKept
  <2>2. Accounts!ServeHolding(s, "delete", {<<"users", u>>}, results, Accounts!Settle)
    BY <1>5 DEF Accounts!Leave
  <2> QED BY <2>1, <2>2, AccountsServed
<1>6. ASSUME NEW s \in Clerks, NEW u \in Accounts!People, Accounts!set_status(s, u) PROVE AccountsInv'
  <2> DEFINE results == IF db.users[u].deleted \/ u = Vendor THEN {}
                 ELSE {[db EXCEPT !.users[u].active = ~@,
                                  !.profile[Rider].online = IF u = Rider /\ db.users[u].active THEN FALSE ELSE @]}
  <2>1. ASSUME InTurn, NEW new \in results PROVE AccountsKept(new)
    <3>1. AccountsKept(db)
      BY <1>1, <2>1
    <3>2. PICK on \in BOOLEAN, active \in BOOLEAN :
              /\ on = IF u = Rider /\ db.users[u].active THEN FALSE ELSE db.profile[Rider].online
              /\ active = ~db.users[u].active
      BY <3>1 DEF AccountsKept, AccountShape, AccountRecord, Shift
    <3>3. /\ ~db.users[u].deleted /\ u # Vendor
          /\ new = [db EXCEPT !.users[u].active = active, !.profile[Rider].online = on]
      BY <2>1, <3>2
    <3>4. on => db.profile[Rider].online
      BY <3>2
    <3> HIDE DEF results
    <3> QED BY <3>1, <3>3, <3>4, BlockedKept, Zenon
  <2>2. Accounts!ServeHolding(s, "block", {<<"users", u>>}, results, Accounts!Settle)
    BY <1>6 DEF Accounts!set_status
  <2> HIDE DEF results
  <2> QED BY <2>1, <2>2, AccountsServed
<1>7. ASSUME NEW s \in Clerks, Accounts!Commit(s, Accounts!Settle) \/ Accounts!Abort(s)
      PROVE  AccountsInv'
  BY <1>7 DEF AccountsInv, InTurn, NoneOpen, Accounts!Commit, Accounts!Abort
<1>8. ASSUME NEW u \in {Rider, Vendor}, NEW paid \in BOOLEAN,
             Accounts!At("payout", Accounts!settle_payout(db, u, paid))
      PROVE  AccountsInv'
  <2>1. InTurn => \A new \in Accounts!settle_payout(db, u, paid) : AccountsKept(new)
    BY <1>1, MoneyKept
  <2> QED BY <1>8, <2>1, AccountsStated
<1>9. CASE Accounts!At("hours", Accounts!sync(db))
  <2>1. InTurn => \A new \in Accounts!sync(db) : AccountsKept(new)
    BY <1>1, StoreSwitched
  <2> QED BY <1>9, <2>1, AccountsStated
<1> QED BY <1>3, <1>4, <1>5, <1>6, <1>7, <1>8, <1>9, <1>11 DEF Accounts!Next

(***************************************************************************)
(* Campaigns: sent once, to as many as they say                            *)
(***************************************************************************)
LEMMA CampaignsIsDesk ==
    /\ \A table, id, row : Campaigns!Add(table, id, row) = Add(table, id, row)
    /\ \A table, rows : Campaigns!Joined(table, rows) = Joined(table, rows)
    /\ \A ids : Campaigns!Least(ids) = Least(ids)
    /\ \A t, ids : Campaigns!Fresh(t, ids) = Fresh(t, ids)
    /\ \A S : Campaigns!Cardinality(S) = Cardinality(S)
    /\ \A s, row : Campaigns!Locked(s, row) = Locked(s, row)
    /\ \A r : Campaigns!Writes(r) = Writes(r)
    /\ \A table, seen, new : Campaigns!Merged(table, seen, new) = Merged(table, seen, new)
    /\ Campaigns!InTurn <=> InTurn
BY DEF Campaigns!Add, Campaigns!Joined, Campaigns!Only, Add, Joined, Only, Campaigns!Least, Least,
       Campaigns!Fresh, Campaigns!Open, Fresh, Open, Campaigns!Cardinality, Cardinality, Campaigns!Locked,
       Locked, Campaigns!Writes, Writes, Campaigns!Merged, Merged, Campaigns!InTurn, InTurn

\* ---- What each request makes of the campaigns ----
\* A campaign stays true of an inbox that only deleted accounts have lost rows of.
LEMMA StaysTrue ==
    ASSUME NEW d, NEW e, NEW c, CampaignTrue(d, c), StillDeleted(d, e),
           e.campaigns[c] \in CampaignRow, e.campaigns[c].count = d.campaigns[c].count,
           e.campaigns[c].status # "SENT" => d.campaigns[c].status # "SENT",
           Received(e, c) \subseteq Received(d, c),
           \A r \in Received(d, c) : r \in Received(e, c) \/ e.users[r[2]].deleted
    PROVE  CampaignTrue(e, c)
<1>1. PICK all \in SUBSET Users : Reached(d, c, all)
  BY DEF CampaignTrue
<1>2. \A u \in all : <<c, u, 0>> \in Received(e, c) \/ e.users[u].deleted
  <2>1. \A u : <<c, u, 0>>[2] = u
    OBVIOUS
  <2> QED BY <1>1, <2>1 DEF Reached, StillDeleted
<1>3. Reached(e, c, all)
  BY <1>1, <1>2 DEF Reached
<1> QED BY <1>1, <1>3 DEF CampaignTrue

\* The same campaigns, and the inboxes of those who have not left.
LEMMA SameCampaigns ==
    ASSUME NEW d, CampaignsTrue(d), NEW e, CampaignRecord(e), e.campaigns = d.campaigns, InboxKept(d, e)
    PROVE  CampaignsTrue(e)
<1>1. ASSUME NEW c \in DOMAIN e.campaigns PROVE CampaignTrue(e, c)
  <2>1. CampaignTrue(d, c) /\ e.campaigns[c] = d.campaigns[c] /\ e.campaigns[c] \in CampaignRow
    BY DEF CampaignsTrue, CampaignTrue
  <2>2. /\ StillDeleted(d, e) /\ Received(e, c) \subseteq Received(d, c)
        /\ \A r \in Received(d, c) : r \in Received(e, c) \/ e.users[r[2]].deleted
    BY DEF InboxKept, Received
  <2> QED BY <2>1, <2>2, StaysTrue
<1> QED BY <1>1 DEF CampaignsTrue, InboxKept

LEMMA FansOut ==
    ASSUME NEW d, CampaignsTrue(d), NEW cs, cs \subseteq DOMAIN d.campaigns,
           \A c \in cs : d.campaigns[c].status = "SCHEDULED", NEW sent \in SUBSET cs,
           NEW buzzing \in SUBSET Campaigns!Live(d, sent), NEW dead \in SUBSET Campaigns!Dead(d, sent)
    PROVE  Fanned(Campaigns!fan_out(Campaigns!send(d, buzzing, dead), cs, sent), d, cs, sent)
<1> DEFINE x == Campaigns!send(d, buzzing, dead)
           pushes == [y \in DOMAIN d.pushes \cup buzzing |->
                [times |-> (IF y \in DOMAIN d.pushes THEN d.pushes[y].times ELSE 0)
                           + (IF y \in buzzing THEN 1 ELSE 0)]]
           devices == [k \in DOMAIN d.devices |->
                          IF k \in dead THEN [d.devices[k] EXCEPT !.active = FALSE] ELSE d.devices[k]]
           rows == {<<c, u, Campaigns!Cardinality({r \in DOMAIN x.inbox : r[1] = c /\ r[2] = u})>> :
                       c \in sent, u \in Users}
           mine == {r \in rows : r[2] \in Campaigns!Audience(x, r[1])}
           box == Campaigns!Joined(x.inbox, [r \in mine |-> [read |-> FALSE]])
           T == [c \in DOMAIN x.campaigns |-> IF c \notin cs THEN x.campaigns[c]
                      ELSE IF c \in sent
                      THEN [x.campaigns[c] EXCEPT !.status = "SENT",
                                                  !.count = Campaigns!Cardinality(Campaigns!Audience(x, c))]
                      ELSE [x.campaigns[c] EXCEPT !.status = "FAILED"]]
           new == Campaigns!fan_out(x, cs, sent)
<1>1. /\ x = [users |-> d.users, campaigns |-> d.campaigns, inbox |-> d.inbox, devices |-> devices,
              pushes |-> pushes, phones |-> d.phones]
  <2>1. x = [d EXCEPT !.pushes = pushes, !.devices = devices]
    BY DEF Campaigns!send, Campaigns!Change
  <2> HIDE DEF x, pushes, devices
  <2> QED BY <2>1 DEF CampaignsTrue, CampaignRecord
<1>2. /\ DOMAIN devices = DOMAIN d.devices
      /\ \A p \in DOMAIN d.devices :
            \/ devices[p] = d.devices[p]
            \/ d.phones[p].gone /\ devices[p] = [d.devices[p] EXCEPT !.active = FALSE]
  BY DEF Campaigns!Dead
<1>3. \A y \in DOMAIN pushes :
          \/ y \in DOMAIN d.pushes /\ (d.pushes[y].times = 1 /\ y[1] \notin sent => pushes[y].times = 1)
          \/ y[1] \in sent /\ y[2] \in Campaigns!Tokens(d, y[1]) /\ ~d.phones[y[2]].gone
             /\ (y \notin DOMAIN d.pushes => pushes[y].times = 1)
  <2> TAKE y \in DOMAIN pushes
  <2>1. pushes[y].times = (IF y \in DOMAIN d.pushes THEN d.pushes[y].times ELSE 0)
                          + (IF y \in buzzing THEN 1 ELSE 0)
    OBVIOUS
  <2>2. y \in buzzing => y[1] \in sent /\ y[2] \in Campaigns!Tokens(d, y[1]) /\ ~d.phones[y[2]].gone
    BY DEF Campaigns!Live
  <2>3. y \in DOMAIN d.pushes \/ y \in buzzing
    OBVIOUS
  <2> HIDE DEF pushes
  <2> QED BY <2>1, <2>2, <2>3
<1> HIDE DEF x, pushes, devices
<1>4. /\ x.campaigns = d.campaigns /\ x.inbox = d.inbox /\ x.users = d.users
      /\ \A c : Campaigns!Audience(x, c) = Campaigns!Audience(d, c)
      /\ \A c : Campaigns!Audience(d, c) \subseteq Users
  BY <1>1 DEF Campaigns!Audience
<1>5. new = [x EXCEPT !.inbox = box, !.campaigns = T]
  BY DEF Campaigns!fan_out
<1>6. \A r : r \in mine <=> \E c \in sent : \E u \in Campaigns!Audience(d, c) : r = <<c, u, 0>>
  <2>1. ASSUME NEW c \in sent, NEW u
        PROVE  Campaigns!Cardinality({r \in DOMAIN x.inbox : r[1] = c /\ r[2] = u}) = 0
    <3>1. Received(d, c) = {}
      BY DEF CampaignsTrue, CampaignTrue
    <3>2. {r \in DOMAIN x.inbox : r[1] = c /\ r[2] = u} = {}
      BY <1>4, <3>1 DEF Received
    <3> QED BY <3>2, FS_EmptySet, CampaignsIsDesk
  <2> DEFINE N(c, u) == Campaigns!Cardinality({r \in DOMAIN x.inbox : r[1] = c /\ r[2] = u})
  <2>2. \A r : r \in rows <=> \E c \in sent : \E u \in Users : r = <<c, u, 0>>
    <3>1. rows = {<<c, u, N(c, u)>> : c \in sent, u \in Users}
      OBVIOUS
    <3>2. \A c \in sent : \A u \in Users : N(c, u) = 0
      BY <2>1
    <3> HIDE DEF rows, N
    <3> QED BY <3>1, <3>2
  <2> HIDE DEF rows
  <2> QED BY <1>4, <2>2
<1> HIDE DEF mine
<1>7. \A r : r \in DOMAIN box <=> r \in DOMAIN d.inbox \/ r \in mine
  BY <1>4, CampaignsIsDesk DEF Joined
<1>8. /\ DOMAIN T = DOMAIN d.campaigns
      /\ \A c \in DOMAIN d.campaigns : c \notin cs => T[c] = d.campaigns[c]
      /\ \A c \in cs : T[c] = IF c \in sent
            THEN [d.campaigns[c] EXCEPT !.status = "SENT", !.count = Cardinality(Campaigns!Audience(d, c))]
            ELSE [d.campaigns[c] EXCEPT !.status = "FAILED"]
  BY <1>4, CampaignsIsDesk, Zenon
<1> HIDE DEF box, T, new
<1>9. /\ CampaignRecord(new) /\ new.inbox = box /\ new.campaigns = T /\ new.users = d.users
      /\ new.phones = d.phones /\ new.devices = devices /\ new.pushes = pushes
  BY <1>1, <1>5 DEF CampaignRecord
<1>10. \A r : r \in DOMAIN new.inbox <=>
           r \in DOMAIN d.inbox \/ \E c \in sent : \E u \in Campaigns!Audience(d, c) : r = <<c, u, 0>>
  BY <1>6, <1>7, <1>9
<1>11. Fanned(new, d, cs, sent)
  BY <1>2, <1>3, <1>8, <1>9, <1>10, Zenon DEF Fanned
<1> QED BY <1>11 DEF new, x

LEMMA FannedTrue ==
    ASSUME UsersAssumption, NEW d, CampaignsTrue(d), NEW cs, cs \subseteq DOMAIN d.campaigns,
           \A c \in cs : d.campaigns[c].status = "SCHEDULED", NEW sent \in SUBSET cs,
           NEW new, Fanned(new, d, cs, sent)
    PROVE  Dispatched(new, d, cs)
<1>1. /\ CampaignRecord(new) /\ DOMAIN new.campaigns = DOMAIN d.campaigns /\ new.users = d.users
      /\ \A c \in DOMAIN d.campaigns : c \notin cs => new.campaigns[c] = d.campaigns[c]
      /\ DOMAIN d.inbox \subseteq DOMAIN new.inbox
  BY Zenon DEF Fanned
<1>2. \A c, u : <<c, u, 0>>[1] = c /\ <<c, u, 0>>[2] = u /\ <<c, u, 0>>[3] = 0
  OBVIOUS
<1>3. \A r : r \in DOMAIN new.inbox <=>
          r \in DOMAIN d.inbox \/ \E c \in sent : \E u \in Campaigns!Audience(d, c) : r = <<c, u, 0>>
  BY Zenon DEF Fanned
<1>4. \A r \in DOMAIN new.inbox : r \in DOMAIN d.inbox \/ (r[1] \in sent /\ r[3] = 0)
  BY <1>2, <1>3
<1>5. ASSUME NEW c \in cs
      PROVE  d.campaigns[c] \in CampaignRow /\ Received(d, c) = {} /\ c \in DOMAIN d.campaigns
  BY DEF CampaignsTrue, CampaignTrue
<1>6. ASSUME NEW c \in sent PROVE CampaignTrue(new, c)
  <2> DEFINE U == Campaigns!Audience(d, c)
  <2>1. U \in SUBSET Users
    BY DEF Campaigns!Audience
  <2>2. PICK n \in Nat : n = Cardinality(U)
    BY <2>1, FS_Subset, FS_CardinalityType DEF UsersAssumption
  <2>3. new.campaigns[c] = [d.campaigns[c] EXCEPT !.status = "SENT", !.count = n]
    BY <2>2, Zenon DEF Fanned
  <2> HIDE DEF U
  <2>4. new.campaigns[c] \in CampaignRow /\ new.campaigns[c].status = "SENT" /\ new.campaigns[c].count = n
    BY <1>5, <2>3 DEF CampaignRow
  <2>5. \A r : r \in Received(new, c) <=> \E u \in U : r = <<c, u, 0>>
    BY <1>2, <1>3, <1>5 DEF Received, U
  <2>6. Reached(new, c, U)
    BY <1>2, <2>2, <2>4, <2>5 DEF Reached
  <2> QED BY <2>1, <2>4, <2>6 DEF CampaignTrue
<1>7. ASSUME NEW c \in DOMAIN d.campaigns, c \notin sent PROVE CampaignTrue(new, c)
  <2>1. /\ CampaignTrue(d, c) /\ d.campaigns[c] \in CampaignRow
        /\ c \in cs => new.campaigns[c] = [d.campaigns[c] EXCEPT !.status = "FAILED"]
    BY <1>7, Zenon DEF CampaignsTrue, CampaignTrue, Fanned
  <2>2. /\ new.campaigns[c] \in CampaignRow /\ new.campaigns[c].count = d.campaigns[c].count
        /\ new.campaigns[c].status # "SENT" => d.campaigns[c].status # "SENT"
    BY <1>1, <2>1 DEF CampaignRow
  <2>3. Received(new, c) = Received(d, c) /\ StillDeleted(d, new)
    BY <1>1, <1>4, <1>7 DEF Received, StillDeleted
  <2> QED BY <2>1, <2>2, <2>3, StaysTrue
<1>8. CampaignsTrue(new)
  BY <1>1, <1>4, <1>6, <1>7 DEF CampaignsTrue
<1> QED BY <1>1, <1>4, <1>8 DEF Dispatched

LEMMA DispatchFans ==
    ASSUME NEW d, CampaignsTrue(d), NEW cs, cs \subseteq DOMAIN d.campaigns,
           \A c \in cs : d.campaigns[c].status = "SCHEDULED", NEW new \in Campaigns!dispatch(d, cs)
    PROVE  \E sent \in SUBSET cs : Fanned(new, d, cs, sent)
<1>1. PICK sent \in SUBSET cs : \E buzzing \in SUBSET Campaigns!Live(d, sent) :
          \E dead \in SUBSET Campaigns!Dead(d, sent) :
              new = Campaigns!fan_out(Campaigns!send(d, buzzing, dead), cs, sent)
  BY DEF Campaigns!dispatch
<1> QED BY <1>1, FansOut

LEMMA DispatchTrue ==
    ASSUME UsersAssumption, NEW d, CampaignsTrue(d), NEW cs, cs \subseteq DOMAIN d.campaigns,
           \A c \in cs : d.campaigns[c].status = "SCHEDULED", NEW new \in Campaigns!dispatch(d, cs)
    PROVE  Dispatched(new, d, cs)
BY DispatchFans, FannedTrue

\* ---- In turn: whose phone a token rings ----
\* What sends nothing, and keeps what was sent, is true of every campaign.
LEMMA SendsNothing ==
    ASSUME NEW d, BuzzesOnce(d), NEW e, TokensTrue(e), e.pushes = d.pushes,
           \A c : IsSent(e, c) <=> IsSent(d, c)
    PROVE  Buzzes(d, e)
BY DEF Buzzes, BuzzKept, BuzzesOnce, Reaches

\* The same phones and devices, or such as have been looked at.
LEMMA TokensFrom ==
    ASSUME NEW d, TokensTrue(d), NEW e, CampaignRecord(e), DOMAIN e.phones = Phones,
           DOMAIN e.devices \subseteq Phones,
           \A p \in Phones :
              \/ TokenTrue(e.phones, e.devices, p)
              \/ /\ e.phones[p] = d.phones[p] /\ (p \in DOMAIN e.devices <=> p \in DOMAIN d.devices)
                 /\ p \in DOMAIN d.devices => e.devices[p] = d.devices[p]
    PROVE  TokensTrue(e)
BY DEF TokensTrue, TokenTrue

\* A token switched off on a phone that is gone leaves the others true.
LEMMA SweptTokens ==
    ASSUME NEW d, TokensTrue(d), NEW cs, NEW sent, NEW e, Fanned(e, d, cs, sent)
    PROVE  TokensTrue(e)
<1>1. /\ CampaignRecord(e) /\ DOMAIN e.phones = Phones /\ DOMAIN e.devices = DOMAIN d.devices
      /\ e.phones = d.phones /\ DOMAIN d.devices \subseteq Phones
      /\ \A p \in DOMAIN d.devices :
            \/ e.devices[p] = d.devices[p]
            \/ d.phones[p].gone /\ e.devices[p] = [d.devices[p] EXCEPT !.active = FALSE]
  BY Zenon DEF TokensTrue, Fanned
<1>2. ASSUME NEW p \in DOMAIN d.devices, e.devices[p] # d.devices[p] PROVE TokenTrue(e.phones, e.devices, p)
  <2>1. TokenTrue(d.phones, d.devices, p)
    BY <1>1 DEF TokensTrue
  <2> QED BY <1>1, <1>2, <2>1, Zenon DEF TokenTrue, DeviceRow
<1> QED BY <1>1, <1>2, TokensFrom

\* A campaign that goes out buzzes its audience only, each at most once.
LEMMA DispatchBuzzes ==
    ASSUME UsersAssumption, NEW d, CampaignsTrue(d), BuzzKept(d), NEW cs, cs \subseteq DOMAIN d.campaigns,
           \A c \in cs : d.campaigns[c].status = "SCHEDULED", NEW new \in Campaigns!dispatch(d, cs)
    PROVE  Buzzes(d, new)
<1>1. PICK sent \in SUBSET cs : Fanned(new, d, cs, sent)
  BY DispatchFans
<1>2. TokensTrue(new) /\ TokensTrue(d) /\ BuzzesOnce(d)
  BY <1>1, SweptTokens, Zenon DEF BuzzKept
<1>3. /\ DOMAIN new.campaigns = DOMAIN d.campaigns /\ new.users = d.users /\ new.phones = d.phones
      /\ \A c \in DOMAIN d.campaigns : c \notin cs => new.campaigns[c] = d.campaigns[c]
      /\ \A x \in DOMAIN new.pushes :
            \/ x \in DOMAIN d.pushes /\ (d.pushes[x].times = 1 /\ x[1] \notin sent => new.pushes[x].times = 1)
            \/ x[1] \in sent /\ x[2] \in Campaigns!Tokens(d, x[1]) /\ ~d.phones[x[2]].gone
               /\ (x \notin DOMAIN d.pushes => new.pushes[x].times = 1)
  BY <1>1, Zenon DEF Fanned
<1>4. ASSUME NEW c \in cs
      PROVE  /\ new.campaigns[c].status = (IF c \in sent THEN "SENT" ELSE "FAILED")
             /\ new.campaigns[c].audience = d.campaigns[c].audience
  <2>1. d.campaigns[c] \in CampaignRow
    BY DEF CampaignsTrue, CampaignTrue
  <2>2. new.campaigns[c] = IF c \in sent
          THEN [d.campaigns[c] EXCEPT !.status = "SENT", !.count = Cardinality(Campaigns!Audience(d, c))]
          ELSE [d.campaigns[c] EXCEPT !.status = "FAILED"]
    BY <1>1, Zenon DEF Fanned
  <2> QED BY <2>1, <2>2 DEF CampaignRow
<1>5. \A c : IsSent(new, c) <=> IsSent(d, c) \/ c \in sent
  BY <1>3, <1>4 DEF IsSent
<1>6. \A x \in DOMAIN d.pushes : x[1] \notin sent /\ IsSent(d, x[1]) /\ d.pushes[x].times = 1
  BY <1>2 DEF BuzzesOnce, IsSent
<1>7. BuzzesOnce(new)
  BY <1>3, <1>5, <1>6 DEF BuzzesOnce
<1>8. ASSUME NEW c \in sent
      PROVE  /\ \A x \in DOMAIN new.pushes : x[1] = c =>
                   x[2] \in Phones /\ new.phones[x[2]].owner \in Campaigns!Audience(new, c)
             /\ \A p \in Phones : new.phones[p].owner \in Campaigns!Audience(new, c)
                   => p \in Campaigns!Tokens(new, c)
  <2>1. Campaigns!Audience(new, c) = Campaigns!Audience(d, c)
    BY <1>3, <1>4 DEF Campaigns!Audience
  <2>2. ASSUME NEW x \in DOMAIN new.pushes, x[1] = c
        PROVE  x[2] \in Phones /\ new.phones[x[2]].owner \in Campaigns!Audience(new, c)
    <3>1. x[2] \in Campaigns!Tokens(d, c) /\ ~d.phones[x[2]].gone
      BY <1>3, <1>6, <2>2
    <3> QED BY <1>2, <1>3, <2>1, <3>1 DEF Campaigns!Tokens, TokensTrue, TokenTrue
  <2>3. ASSUME NEW p \in Phones, new.phones[p].owner \in Campaigns!Audience(new, c)
        PROVE  p \in Campaigns!Tokens(new, c)
    <3>1. new.phones[p].owner \in Users
      BY <2>3 DEF Campaigns!Audience
    <3> QED BY <1>2, <2>3, <3>1 DEF Campaigns!Tokens, TokensTrue, TokenTrue
  <2> QED BY <2>2, <2>3
<1>9. Reaches(d, new)
  BY <1>5, <1>8 DEF Reaches
<1> QED BY <1>2, <1>7, <1>9 DEF Buzzes, BuzzKept

LEMMA NobodyLeft ==
    ASSUME NEW d, CampaignsTrue(d), NEW e, e.users = d.users, DOMAIN e.inbox = DOMAIN d.inbox
    PROVE  InboxKept(d, e)
BY DEF InboxKept, StillDeleted, CampaignsTrue

\* A request that does not touch a campaign.
LEMMA NoCampaign ==
    ASSUME CampaignsTrue(db), NEW new, CampaignRecord(new), new.campaigns = db.campaigns,
           new.users = db.users, DOMAIN new.inbox = DOMAIN db.inbox, NEW holds,
           BuzzKept(db) => Buzzes(db, new)
    PROVE  CampaignBegins(new, holds)
<1>1. CampaignsTrue(new)
  BY NobodyLeft, SameCampaigns
<1> QED BY <1>1 DEF CampaignBegins, CampaignWork

LEMMA CampaignMade ==
    ASSUME IdsAssumption, CampaignsTrue(db), script \in CampaignsScripts,
           Fresh("campaigns", script.ids) # {}, NEW c, c = Least(Fresh("campaigns", script.ids)),
           NEW audience \in {"CUSTOMER", "ALL"}, NEW made,
           Making(made, c, audience)
    PROVE  /\ CampaignsTrue(made) /\ made.inbox = db.inbox /\ made.users = db.users
           /\ c \in Fresh("campaigns", script.ids)
           /\ c \notin DOMAIN db.campaigns /\ made.campaigns[c].status = "SCHEDULED"
           /\ \A k : k \in DOMAIN made.campaigns <=> k \in DOMAIN db.campaigns \/ k = c
           /\ \A k \in DOMAIN db.campaigns : made.campaigns[k] = db.campaigns[k]
<1> DEFINE F == Fresh("campaigns", script.ids)
           row == [audience |-> audience, status |-> "SCHEDULED", due |-> FALSE, count |-> 0]
           A == Add(db.campaigns, c, row)
<1>1. c \in F
  <2>1. F \subseteq Nat
    BY DEF Fresh, IdsAssumption
  <2> QED BY <2>1, LeastIn
<1>2. c \notin DOMAIN db.campaigns
  <2>1. "campaigns" \in DOMAIN db /\ DOMAIN db["campaigns"] = DOMAIN db.campaigns
    BY DEF CampaignsTrue, CampaignRecord
  <2> QED BY <1>1, <2>1, FreshIds
<1>3. IsAdd(A, db.campaigns, c, row)
  BY <1>2, AddedRow
<1>4. row \in CampaignRow /\ row.count = 0 /\ row.status = "SCHEDULED"
  BY DEF CampaignRow
<1> HIDE DEF A, row, F
<1>5. made = [db EXCEPT !.campaigns = A]
  BY DEF A, row, Making
<1>6. CampaignRecord(made) /\ made.campaigns = A /\ made.inbox = db.inbox /\ made.users = db.users
  BY <1>5 DEF CampaignsTrue, CampaignRecord
<1>7. /\ \A k : k \in DOMAIN A <=> k \in DOMAIN db.campaigns \/ k = c
      /\ A[c] = row
      /\ \A k \in DOMAIN db.campaigns : A[k] = db.campaigns[k]
  BY <1>3 DEF IsAdd
<1>8. CampaignTrue(made, c)
  <2>1. Received(made, c) = {}
    BY <1>2, <1>6 DEF CampaignsTrue, Received
  <2>2. Cardinality({}) = 0 /\ {} \in SUBSET Users
    BY FS_EmptySet
  <2>3. Reached(made, c, {})
    BY <1>4, <1>6, <1>7, <2>1, <2>2 DEF Reached
  <2> QED BY <1>4, <1>6, <1>7, <2>1, <2>2, <2>3 DEF CampaignTrue
<1>9. ASSUME NEW k \in DOMAIN db.campaigns PROVE CampaignTrue(made, k)
  <2>1. CampaignTrue(db, k) /\ made.campaigns[k] = db.campaigns[k] /\ made.campaigns[k] \in CampaignRow
    BY <1>6, <1>7 DEF CampaignsTrue, CampaignTrue
  <2>2. Received(made, k) = Received(db, k) /\ StillDeleted(db, made)
    BY <1>6 DEF Received, StillDeleted
  <2> QED BY <2>1, <2>2, StaysTrue
<1>10. CampaignsTrue(made)
  BY <1>6, <1>7, <1>8, <1>9 DEF CampaignsTrue
<1> QED BY <1>1, <1>2, <1>4, <1>6, <1>7, <1>10 DEF F

\* A campaign the request has made, sent or left for later.
LEMMA CreatedBegins ==
    ASSUME IdsAssumption, UsersAssumption, CampaignsTrue(db), script \in CampaignsScripts,
           Fresh("campaigns", script.ids) # {}, NEW c, c = Least(Fresh("campaigns", script.ids)),
           NEW audience \in {"CUSTOMER", "ALL"}, NEW made,
           Making(made, c, audience),
           NEW holds, NEW new, new = made \/ new \in Campaigns!dispatch(made, {c})
    PROVE  CampaignBegins(new, holds)
<1>1. /\ CampaignsTrue(made) /\ made.inbox = db.inbox /\ made.users = db.users
      /\ c \in Fresh("campaigns", script.ids) /\ c \notin DOMAIN db.campaigns /\ made.campaigns[c].status = "SCHEDULED"
      /\ \A k : k \in DOMAIN made.campaigns <=> k \in DOMAIN db.campaigns \/ k = c
      /\ \A k \in DOMAIN db.campaigns : made.campaigns[k] = db.campaigns[k]
  BY CampaignMade
<1>2. Dispatched(new, made, {c})
  <2>1. CASE new = made
    BY <1>1, <2>1 DEF Dispatched
  <2>2. CASE new \in Campaigns!dispatch(made, {c})
    BY <1>1, <2>2, DispatchTrue
  <2> QED BY <2>1, <2>2
<1>3. ASSUME BuzzKept(db) PROVE Buzzes(db, new)
  <2>1. CampaignRecord(made) /\ made.pushes = db.pushes /\ made.phones = db.phones /\ made.devices = db.devices
    BY DEF Making, CampaignsTrue, CampaignRecord
  <2>2. \A k : IsSent(made, k) <=> IsSent(db, k)
    BY <1>1 DEF IsSent
  <2>3. Buzzes(db, made)
    BY <1>3, <2>1, <2>2, TokensFrom, SendsNothing DEF BuzzKept, TokensTrue
  <2>4. CASE new \in Campaigns!dispatch(made, {c})
    <3>1. Buzzes(made, new)
      BY <1>1, <2>3, <2>4, DispatchBuzzes DEF Buzzes
    <3> QED BY <2>2, <3>1 DEF Buzzes, Reaches
  <2> QED BY <2>3, <2>4
<1> QED BY <1>1, <1>2, <1>3 DEF Dispatched, CampaignBegins, CampaignWork, InHand

\* Those that were due, each held.
LEMMA SweptBegins ==
    ASSUME UsersAssumption, CampaignsTrue(db), NEW cs, cs \subseteq DOMAIN db.campaigns,
           \A c \in cs : db.campaigns[c].status = "SCHEDULED",
           NEW holds, \A c \in cs : <<"campaigns", c>> \in holds,
           NEW new \in Campaigns!dispatch(db, cs)
    PROVE  CampaignBegins(new, holds)
<1>1. Dispatched(new, db, cs) /\ (BuzzKept(db) => Buzzes(db, new))
  BY DispatchTrue, DispatchBuzzes
<1> QED BY <1>1 DEF Dispatched, CampaignBegins, CampaignWork, InHand

\* A campaign edited by hand.
LEMMA CampaignEdited ==
    ASSUME CampaignsTrue(db), NEW c \in DOMAIN db.campaigns, NEW row \in CampaignRow,
           row.count = db.campaigns[c].count, (row.status = "SENT") <=> (db.campaigns[c].status = "SENT"),
           NEW new, new = [db EXCEPT !.campaigns = [@ EXCEPT ![c] = row]]
    PROVE  /\ CampaignsTrue(new) /\ DOMAIN new.campaigns = DOMAIN db.campaigns
           /\ new.inbox = db.inbox /\ new.users = db.users /\ new.campaigns[c] = row
           /\ \A k \in DOMAIN db.campaigns : k # c => new.campaigns[k] = db.campaigns[k]
           /\ BuzzKept(db) => Buzzes(db, new)
<1>1. /\ CampaignRecord(new) /\ DOMAIN new.campaigns = DOMAIN db.campaigns /\ new.inbox = db.inbox
      /\ new.users = db.users /\ new.pushes = db.pushes /\ new.phones = db.phones /\ new.devices = db.devices
      /\ new.campaigns[c] = row /\ \A k \in DOMAIN db.campaigns : k # c => new.campaigns[k] = db.campaigns[k]
  BY DEF CampaignsTrue, CampaignRecord
<1>2. StillDeleted(db, new) /\ \A k : Received(new, k) = Received(db, k)
  BY <1>1 DEF Received, StillDeleted
<1>3. ASSUME NEW k \in DOMAIN db.campaigns PROVE CampaignTrue(new, k)
  <2>1. /\ CampaignTrue(db, k) /\ new.campaigns[k] \in CampaignRow
        /\ new.campaigns[k].count = db.campaigns[k].count
        /\ (new.campaigns[k].status = "SENT") <=> (db.campaigns[k].status = "SENT")
    BY <1>1 DEF CampaignsTrue, CampaignTrue
  <2> QED BY <1>2, <2>1, StaysTrue
<1>4. CampaignsTrue(new)
  BY <1>1, <1>3 DEF CampaignsTrue
<1>5. \A k : IsSent(new, k) <=> IsSent(db, k)
  BY <1>1 DEF IsSent
<1>6. BuzzKept(db) => TokensTrue(new)
  BY <1>1 DEF BuzzKept, TokensTrue
<1>7. BuzzKept(db) => Buzzes(db, new)
  BY <1>1, <1>5, <1>6, SendsNothing DEF BuzzKept
<1> QED BY <1>1, <1>4, <1>7

LEMMA CancelledBegins ==
    ASSUME CampaignsTrue(db), NEW c \in DOMAIN db.campaigns, db.campaigns[c].status = "SCHEDULED",
           NEW holds, <<"campaigns", c>> \in holds,
           NEW new, new = [db EXCEPT !.campaigns[c].status = "CANCELLED"]
    PROVE  CampaignBegins(new, holds)
<1>1. db.campaigns[c] \in CampaignRow
  BY DEF CampaignsTrue, CampaignTrue
<1>2. PICK row \in CampaignRow : row = [db.campaigns[c] EXCEPT !.status = "CANCELLED"]
  BY <1>1 DEF CampaignRow
<1>3. row.count = db.campaigns[c].count /\ row.status = "CANCELLED"
  BY <1>1, <1>2 DEF CampaignRow
<1>4. new = [db EXCEPT !.campaigns = [@ EXCEPT ![c] = row]]
  BY <1>2
<1> QED BY <1>3, <1>4, CampaignEdited DEF CampaignBegins, CampaignWork, InHand

LEMMA CampaignsMerged ==
    ASSUME CampaignRecord(db), NEW r, CampaignRecord(r.seen), CampaignRecord(r.new)
    PROVE  CampaignFlush(Flushed(r), r)
<1> DEFINE d == Flushed(r)
<1>1. /\ d = [users |-> d.users, campaigns |-> d.campaigns, inbox |-> d.inbox, devices |-> d.devices,
              pushes |-> d.pushes, phones |-> d.phones]
      /\ d.users = Merged(db.users, r.seen.users, r.new.users)
      /\ d.campaigns = Merged(db.campaigns, r.seen.campaigns, r.new.campaigns)
      /\ d.inbox = Merged(db.inbox, r.seen.inbox, r.new.inbox)
  <2>1. DOMAIN db = {"users", "campaigns", "inbox", "devices", "pushes", "phones"}
    BY DEF CampaignRecord
  <2> QED BY <2>1 DEF Flushed
<1> QED BY <1>1, MergedRows DEF CampaignFlush, CampaignRecord

\* Each campaign is as it was, with its inbox, or as the request left it, with its own.
LEMMA CampaignsFlushed ==
    ASSUME CampaignsTrue(db), NEW r, CampaignWork(r.seen, r.new, r.holds), CampaignStands(r, db)
    PROVE  /\ CampaignsTrue(Flushed(r))
           /\ \A c \in DOMAIN db.campaigns : c \in DOMAIN Flushed(r).campaigns
           /\ \A c \in DOMAIN Flushed(r).campaigns : c \in DOMAIN db.campaigns
                 \/ (c \in DOMAIN r.new.campaigns /\ c \notin DOMAIN r.seen.campaigns)
           /\ \A c \in DOMAIN db.campaigns :
                 (c \in DOMAIN r.seen.campaigns =>
                     c \in DOMAIN r.new.campaigns /\ r.new.campaigns[c] = r.seen.campaigns[c])
                 => Flushed(r).campaigns[c] = db.campaigns[c]
           /\ StillDeleted(db, Flushed(r))
<1> DEFINE d == Flushed(r)
           S == r.seen
           N == r.new
<1>1. CampaignFlush(d, r)
  BY CampaignsMerged DEF CampaignsTrue, CampaignWork
<1> HIDE DEF d
<1>2. /\ IsMerge(d.campaigns, db.campaigns, S.campaigns, N.campaigns)
      /\ IsMerge(d.inbox, db.inbox, S.inbox, N.inbox)
      /\ DOMAIN S.campaigns \subseteq DOMAIN N.campaigns /\ DOMAIN S.inbox \subseteq DOMAIN N.inbox
      /\ \A c \in DOMAIN S.campaigns : c \in DOMAIN db.campaigns
  BY <1>1 DEF CampaignFlush, CampaignWork, CampaignStands
<1>0. UsersTrue(d.users) /\ StillDeleted(db, d) /\ StillDeleted(N, d)
  <2>1. /\ IsMerge(d.users, db.users, S.users, N.users) /\ N.users = S.users
        /\ DOMAIN db.users = Users /\ DOMAIN S.users = Users
        /\ UsersTrue(db.users) /\ StillDeleted(S, db)
    BY <1>1 DEF CampaignFlush, CampaignWork, CampaignStands, CampaignsTrue, UsersTrue, AccountRow
  <2>2. DOMAIN d.users = Users
    BY <2>1 DEF IsMerge
  <2>3. ASSUME NEW u \in Users PROVE d.users[u] = db.users[u]
    <3>1. db.users[u] = [k \in DOMAIN db.users[u] |-> db.users[u][k]]
      BY <2>1 DEF UsersTrue, AccountRow
    <3> QED BY <2>1, <3>1, UnwrittenRows
  <2> QED BY <2>1, <2>2, <2>3 DEF StillDeleted, UsersTrue
<1>3. \A c : c \in DOMAIN d.campaigns <=>
          c \in DOMAIN db.campaigns \/ (c \in DOMAIN N.campaigns /\ c \notin DOMAIN S.campaigns)
  BY <1>2 DEF IsMerge
<1>4. \A x : x \in DOMAIN d.inbox <=>
          x \in DOMAIN db.inbox \/ (x \in DOMAIN N.inbox /\ x \notin DOMAIN S.inbox)
  BY <1>2 DEF IsMerge
<1>5. ASSUME NEW c \in DOMAIN N.campaigns, InHand(S, c, r.holds)
      PROVE  /\ d.campaigns[c] = N.campaigns[c] /\ Received(d, c) = Received(N, c)
  <2>1. CASE c \notin DOMAIN S.campaigns
    <3>1. c \notin DOMAIN db.campaigns
      BY <2>1 DEF CampaignStands
    <3>2. d.campaigns[c] = N.campaigns[c]
      BY <1>2, <2>1 DEF IsMerge
    <3>3. Received(db, c) = {} /\ Received(S, c) = {}
      BY <2>1, <3>1 DEF CampaignsTrue, CampaignWork, Received
    <3> QED BY <1>4, <3>2, <3>3 DEF Received
  <2>2. CASE c \in DOMAIN S.campaigns
    <3>1. db.campaigns[c] = S.campaigns[c] /\ S.campaigns[c].status = "SCHEDULED" /\ c \in DOMAIN db.campaigns
      BY <1>2, <1>5, <2>2 DEF InHand, CampaignStands
    <3>2. Received(db, c) = {} /\ Received(S, c) = {}
      BY <2>2, <3>1 DEF CampaignsTrue, CampaignTrue, CampaignWork
    <3>3. N.campaigns[c] \in CampaignRow /\ db.campaigns[c] \in CampaignRow
      BY <3>1 DEF CampaignsTrue, CampaignTrue, CampaignWork
    <3>4. N.campaigns[c] = [k \in DOMAIN db.campaigns[c] |-> N.campaigns[c][k]]
      BY <3>3 DEF CampaignRow
    <3>5. d.campaigns[c] = N.campaigns[c]
      BY <1>2, <2>2, <3>1, <3>4, HeldRows
    <3> QED BY <1>4, <3>2, <3>5 DEF Received
  <2> QED BY <2>1, <2>2
<1>6. ASSUME NEW c \in DOMAIN db.campaigns,
             c \in DOMAIN S.campaigns => c \in DOMAIN N.campaigns /\ N.campaigns[c] = S.campaigns[c]
      PROVE  d.campaigns[c] = db.campaigns[c]
  <2>1. c \in DOMAIN S.campaigns <=> c \in DOMAIN N.campaigns
    BY <1>6 DEF CampaignStands
  <2>2. db.campaigns[c] = [k \in DOMAIN db.campaigns[c] |-> db.campaigns[c][k]]
    BY DEF CampaignsTrue, CampaignTrue, CampaignRow
  <2> QED BY <1>2, <1>6, <2>1, <2>2, UnwrittenRows
<1>7. ASSUME NEW c \in DOMAIN db.campaigns, ~(c \in DOMAIN N.campaigns /\ InHand(S, c, r.holds))
      PROVE  d.campaigns[c] = db.campaigns[c] /\ Received(d, c) = Received(db, c)
  <2>1. d.campaigns[c] = db.campaigns[c]
    BY <1>2, <1>6, <1>7 DEF CampaignWork
  <2>2. \A x \in DOMAIN N.inbox : x \notin DOMAIN S.inbox => x[1] # c
    BY <1>7 DEF CampaignWork, CampaignsTrue
  <2>3. Received(d, c) = Received(db, c)
    BY <1>4, <2>2 DEF Received
  <2> QED BY <2>1, <2>3
<1>8. ASSUME NEW c \in DOMAIN d.campaigns
      PROVE  CampaignTrue(d, c)
  <2>1. CASE c \in DOMAIN N.campaigns /\ InHand(S, c, r.holds)
    <3>1. CampaignTrue(N, c) /\ d.campaigns[c] = N.campaigns[c] /\ d.campaigns[c] \in CampaignRow
      BY <1>5, <2>1 DEF CampaignWork, CampaignsTrue, CampaignTrue
    <3> QED BY <1>0, <1>5, <2>1, <3>1, StaysTrue
  <2>2. CASE ~(c \in DOMAIN N.campaigns /\ InHand(S, c, r.holds))
    <3>1. c \in DOMAIN db.campaigns
      BY <1>3, <2>2 DEF InHand
    <3>2. CampaignTrue(db, c) /\ d.campaigns[c] = db.campaigns[c] /\ d.campaigns[c] \in CampaignRow
      BY <1>7, <2>2, <3>1 DEF CampaignsTrue, CampaignTrue
    <3> QED BY <1>0, <1>7, <2>2, <3>1, <3>2, StaysTrue
  <2> QED BY <2>1, <2>2
<1>9. \A x \in DOMAIN d.inbox : x[1] \in DOMAIN d.campaigns /\ x[3] = 0
  <2>1. \A c \in DOMAIN N.campaigns : c \in DOMAIN d.campaigns
    BY <1>2, <1>3
  <2> QED BY <1>3, <1>4, <2>1 DEF CampaignWork, CampaignsTrue
<1>10. CampaignsTrue(d)
  <2>1. CampaignRecord(d)
    BY <1>1 DEF CampaignFlush
  <2> QED BY <1>0, <1>8, <1>9, <2>1 DEF CampaignsTrue
<1> QED BY <1>0, <1>3, <1>6, <1>10 DEF d

\* ---- The steps ----
\* A new request beside the open ones; the tables it read are the tables, but for its
\* pushes.
LEMMA CampaignOpened ==
    ASSUME CampaignsInv, ~InTurn, NEW s \in Clerks, NEW new, NEW holds, CampaignBegins(new, holds),
           \A row \in holds : ~Locked(s, row),
           CampaignRecord(db'), db'.users = db.users, db'.campaigns = db.campaigns, db'.inbox = db.inbox,
           script' = script,
           txn' = [txn EXCEPT ![s] = [seen |-> db', new |-> new, holds |-> holds]]
    PROVE  CampaignsInv'
<1>1. /\ txn = [u \in Clerks |-> txn[u]] /\ script \in CampaignsScripts
      /\ CampaignsTrue(db) /\ CampaignsOpen
  BY DEF CampaignsInv
<1> DEFINE r == [seen |-> db', new |-> new, holds |-> holds]
<1>2. /\ txn' = [u \in Clerks |-> txn'[u]] /\ txn'[s] = r
      /\ \A u \in Clerks : u # s => txn'[u] = txn[u]
  BY <1>1
<1>3. r.seen = db' /\ r.new = new /\ r.holds = holds
  OBVIOUS
<1> HIDE DEF r
<1>4. CampaignsTrue(db')
  BY <1>1, NobodyLeft, SameCampaigns
<1>5. CampaignWork(r.seen, r.new, r.holds)
  <2>1. \A c : InHand(db, c, holds) <=> InHand(db', c, holds)
    BY DEF InHand
  <2>2. CampaignWork(db, new, holds)
    BY DEF CampaignBegins
  <2> QED BY <1>3, <1>4, <2>1, <2>2 DEF CampaignWork
<1>6. CampaignStands(r, db')
  BY <1>3 DEF CampaignStands, StillDeleted
<1>7. ASSUME NEW u \in Clerks, u # s, txn[u] # None
      PROVE  CampaignStands(txn[u], db') /\ CampaignsApart(txn[u], r) /\ CampaignsApart(r, txn[u])
  <2>1. CampaignStands(txn[u], db')
    BY <1>1, <1>7 DEF CampaignsOpen, CampaignStands, StillDeleted
  <2>2. "campaigns" \in DOMAIN db
    BY <1>1 DEF CampaignsTrue, CampaignRecord
  <2>3. \A c \in DOMAIN new.campaigns : c \notin DOMAIN db.campaigns => c \notin DOMAIN txn[u].new["campaigns"]
    BY <1>7, <2>2, FreshIds DEF CampaignBegins
  <2>4. holds \cap txn[u].holds = {}
    BY <1>7 DEF Locked
  <2> QED BY <1>3, <2>1, <2>3, <2>4 DEF CampaignsApart
<1>8. CampaignsOpen'
  BY <1>1, <1>2, <1>5, <1>6, <1>7 DEF CampaignsOpen
<1> QED BY <1>1, <1>2, <1>4, <1>8 DEF CampaignsInv, InTurn

\* One at a time.
LEMMA CampaignInTurn ==
    ASSUME CampaignsInv, InTurn, NEW holds, CampaignBegins(db', holds), script' = script, txn' = txn
    PROVE  CampaignStep
BY DEF CampaignStep, CampaignsInv, CampaignBegins, CampaignWork, CampaignsOpen, NoneOpen, InTurn

LEMMA CampaignServed ==
    ASSUME CampaignsInv, NEW s \in Clerks, NEW call, NEW holds, NEW results,
           \A new \in results : CampaignBegins(new, holds),
           Campaigns!ServeHolding(s, call, holds, results, Campaigns!Settle)
    PROVE  CampaignStep
<1>1. /\ script' = script
      /\ \A row \in holds : ~Locked(s, row)
      /\ \/ /\ ~InTurn /\ db' = db
            /\ \E new \in results : txn' = [txn EXCEPT ![s] = [seen |-> db, new |-> new, holds |-> holds]]
         \/ /\ InTurn /\ txn' = txn
            /\ \E new \in results : db' = new
  BY CampaignsIsDesk DEF Campaigns!ServeHolding, InTurn, Campaigns!Settle
<1>2. CampaignRecord(db)
  BY DEF CampaignsInv, CampaignsTrue
<1>3. CASE ~InTurn
  BY <1>1, <1>2, <1>3, CampaignOpened DEF CampaignStep
<1>4. CASE InTurn
  BY <1>1, <1>4, CampaignInTurn
<1> QED BY <1>3, <1>4

LEMMA CampaignSending ==
    ASSUME CampaignsInv, NEW s \in Clerks, NEW call, NEW d, NEW cs, NEW holds,
           \A new \in Campaigns!dispatch(d, cs) : CampaignBegins(new, holds),
           \A row \in holds : ~Locked(s, row),
           Campaigns!Sending(s, call, d, cs, holds)
    PROVE  CampaignStep
<1>1. CASE InTurn
  <2>1. Campaigns!ServeHolding(s, call, holds, Campaigns!dispatch(d, cs), Campaigns!Settle)
    BY <1>1, CampaignsIsDesk DEF Campaigns!Sending
  <2> QED BY <2>1, CampaignServed
<1>2. CASE ~InTurn
  <2>1. PICK new \in Campaigns!dispatch(d, cs) :
            /\ db' = [db EXCEPT !.pushes = new.pushes]
            /\ txn' = [txn EXCEPT ![s] = [seen |-> db', new |-> new, holds |-> holds]]
            /\ script' = script
    BY <1>2, CampaignsIsDesk DEF Campaigns!Sending
  <2>2. /\ CampaignRecord(db') /\ db'.users = db.users
        /\ db'.campaigns = db.campaigns /\ db'.inbox = db.inbox
    BY <2>1 DEF CampaignsInv, CampaignsTrue, CampaignRecord
  <2> QED BY <1>2, <2>1, <2>2, CampaignOpened DEF CampaignStep
<1> QED BY <1>1, <1>2

\* A statement that leaves every campaign that is held as it was.
LEMMA CampaignStated ==
    ASSUME CampaignsInv, script' = script, txn' = txn,
           CampaignsTrue(db'), DOMAIN db'.campaigns = DOMAIN db.campaigns, StillDeleted(db, db'),
           \A c \in DOMAIN db.campaigns : db'.campaigns[c] # db.campaigns[c] =>
               \A s \in Clerks : txn[s] # None => <<"campaigns", c>> \notin txn[s].holds,
           BuzzKept(db) => Buzzes(db, db')
    PROVE  CampaignStep
<1>1. ASSUME NEW s \in Clerks, txn[s] # None PROVE CampaignStands(txn[s], db')
  <2>1. CampaignStands(txn[s], db)
    BY <1>1 DEF CampaignsInv, CampaignsOpen
  <2> QED BY <1>1, <2>1 DEF CampaignStands, StillDeleted
<1>2. CampaignsOpen'
  BY <1>1 DEF CampaignsInv, CampaignsOpen
<1> QED BY <1>2 DEF CampaignStep, CampaignsInv, NoneOpen, InTurn

LEMMA CampaignCommitted ==
    ASSUME CampaignsInv, NEW s \in Clerks, Campaigns!Commit(s, Campaigns!Settle)
    PROVE  CampaignStep
<1> DEFINE r == txn[s]
<1>1. /\ txn = [u \in Clerks |-> txn[u]] /\ CampaignsTrue(db) /\ CampaignsOpen /\ r # None
      /\ script \in CampaignsScripts /\ (InTurn => NoneOpen)
  BY DEF CampaignsInv, Campaigns!Commit
<1>2. /\ script' = script /\ txn' = [txn EXCEPT ![s] = None]
      /\ \A row \in Writes(r) : ~Locked(s, row)
      /\ db' = Flushed(r)
  BY CampaignsIsDesk DEF Campaigns!Commit, Campaigns!Settle, Flushed
<1>3. ~InTurn /\ ~InTurn'
  BY <1>1, <1>2 DEF NoneOpen, InTurn
<1>4. CampaignWork(r.seen, r.new, r.holds) /\ CampaignStands(r, db)
  BY <1>1 DEF CampaignsOpen
<1>5. /\ CampaignsTrue(db')
      /\ \A c \in DOMAIN db.campaigns : c \in DOMAIN db'.campaigns
      /\ \A c \in DOMAIN db'.campaigns : c \in DOMAIN db.campaigns
             \/ (c \in DOMAIN r.new.campaigns /\ c \notin DOMAIN r.seen.campaigns)
      /\ \A c \in DOMAIN db.campaigns :
             (c \in DOMAIN r.seen.campaigns =>
                 c \in DOMAIN r.new.campaigns /\ r.new.campaigns[c] = r.seen.campaigns[c])
             => db'.campaigns[c] = db.campaigns[c]
      /\ StillDeleted(db, db')
  BY <1>1, <1>2, <1>4, CampaignsFlushed
<1>6. ASSUME NEW u \in Clerks, u # s, txn[u] # None PROVE CampaignStands(txn[u], db')
  <2>1. CampaignStands(txn[u], db) /\ CampaignsApart(txn[u], r)
    BY <1>1, <1>6 DEF CampaignsOpen
  <2>2. "campaigns" \in DOMAIN db
    BY <1>1 DEF CampaignsTrue, CampaignRecord
  <2>3. \A c \in DOMAIN r.seen["campaigns"] : <<"campaigns", c>> \in txn[u].holds =>
            c \in DOMAIN r.new["campaigns"] /\ r.new["campaigns"][c] = r.seen["campaigns"][c]
    BY <1>2, <1>6, <2>2, NotHeldElsewhere
  <2> QED BY <1>5, <2>1, <2>3 DEF CampaignStands, CampaignsApart, StillDeleted
<1>7. /\ txn' = [u \in Clerks |-> txn'[u]] /\ txn'[s] = None
      /\ \A u \in Clerks : u # s => txn'[u] = txn[u]
  BY <1>1, <1>2
<1>8. CampaignsOpen'
  BY <1>1, <1>6, <1>7 DEF CampaignsOpen
<1> QED BY <1>1, <1>2, <1>3, <1>5, <1>7, <1>8 DEF CampaignsInv, CampaignStep

LEMMA CampaignAborted ==
    ASSUME CampaignsInv, NEW s \in Clerks, Campaigns!Abort(s)
    PROVE  CampaignStep
<1>1. /\ txn = [u \in Clerks |-> txn[u]] /\ CampaignsTrue(db) /\ CampaignsOpen
      /\ InTurn => NoneOpen
      /\ txn' = [txn EXCEPT ![s] = None] /\ db' = db /\ script' = script
  BY DEF CampaignsInv, Campaigns!Abort
<1>2. /\ txn' = [u \in Clerks |-> txn'[u]] /\ txn'[s] = None
      /\ \A u \in Clerks : u # s => txn'[u] = txn[u]
  BY <1>1
<1>3. CampaignsOpen' /\ (NoneOpen => NoneOpen')
  BY <1>1, <1>2 DEF CampaignsOpen, NoneOpen
<1>4. ~InTurn
  BY <1>1 DEF NoneOpen, Campaigns!Abort
<1> QED BY <1>1, <1>2, <1>3, <1>4 DEF CampaignStep, CampaignsInv, InTurn

LEMMA CampaignsInit ==
    ASSUME Campaigns!Init
    PROVE  CampaignsInv
<1>1. /\ db = [users |-> db.users, campaigns |-> Nothing, inbox |-> Nothing, devices |-> Nothing,
               pushes |-> Nothing, phones |-> db.phones]
      /\ txn = [s \in Clerks |-> None] /\ script \in CampaignsScripts
      /\ db.users = [u \in Users |-> [active |-> TRUE, deleted |-> FALSE]]
  BY DEF Campaigns!Init, Campaigns!Opens, Campaigns!Nothing, Nothing
<1>2. DOMAIN Nothing = {}
  BY DEF Nothing
<1>3. CampaignsTrue(db)
  BY <1>1, <1>2 DEF CampaignsTrue, CampaignRecord, UsersTrue, AccountRow
<1> QED BY <1>1, <1>3 DEF CampaignsInv, CampaignsOpen, NoneOpen

\* A statement that is about no campaign.
LEMMA CampaignElsewhere ==
    ASSUME CampaignsInv, txn' = txn, script' = script, CampaignRecord(db'), db'.campaigns = db.campaigns,
           db'.pushes = db.pushes, InboxKept(db, db'), BuzzKept(db) => TokensTrue(db')
    PROVE  CampaignStep
<1>1. CampaignsTrue(db')
  BY SameCampaigns DEF CampaignsInv
<1>2. \A c : IsSent(db', c) <=> IsSent(db, c)
  BY DEF IsSent
<1>3. BuzzKept(db) => Buzzes(db, db')
  BY <1>2, SendsNothing DEF BuzzKept
<1> QED BY <1>1, <1>3, CampaignStated DEF InboxKept

\* A campaign's hour comes, if no request holds it.
LEMMA CampaignDue ==
    ASSUME CampaignsInv, NEW c \in DOMAIN db.campaigns, Campaigns!come_due(c)
    PROVE  CampaignStep
<1> DEFINE r == [seen |-> db, new |-> db']
<1>1. /\ ~db.campaigns[c].due
      /\ db' = [db EXCEPT !.campaigns[c].due = TRUE]
      /\ txn' = txn /\ script' = script
      /\ \A w \in Writes(r) : \A s \in Clerks : txn[s] # None => w \notin txn[s].holds
  BY CampaignsIsDesk DEF Campaigns!come_due, Campaigns!Statement, Campaigns!Settle
<1>2. CampaignsTrue(db) /\ db.campaigns[c] \in CampaignRow
  BY DEF CampaignsInv, CampaignsTrue, CampaignTrue
<1>3. PICK row \in CampaignRow : row = [db.campaigns[c] EXCEPT !.due = TRUE]
  BY <1>2 DEF CampaignRow
<1>4. /\ row.count = db.campaigns[c].count /\ row.status = db.campaigns[c].status
      /\ row # db.campaigns[c]
  BY <1>1, <1>2, <1>3 DEF CampaignRow
<1>5. db' = [db EXCEPT !.campaigns = [@ EXCEPT ![c] = row]]
  BY <1>1, <1>3
<1>6. /\ CampaignsTrue(db') /\ DOMAIN db'.campaigns = DOMAIN db.campaigns /\ db'.users = db.users
      /\ db'.campaigns[c] = row /\ \A k \in DOMAIN db.campaigns : k # c => db'.campaigns[k] = db.campaigns[k]
      /\ BuzzKept(db) => Buzzes(db, db')
  BY <1>2, <1>4, <1>5, CampaignEdited
<1>7. <<"campaigns", c>> \in Writes(r)
  <2>1. "campaigns" \in DOMAIN db
    BY <1>2 DEF CampaignsTrue, CampaignRecord
  <2>2. c \in DOMAIN db["campaigns"] /\ db'["campaigns"][c] # db["campaigns"][c]
    BY <1>4, <1>6
  <2> QED BY <2>1, <2>2 DEF Writes
<1> QED BY <1>1, <1>6, <1>7, CampaignStated DEF StillDeleted

\* An account goes, with its inbox, its devices and its phones.
LEMMA AccountGone ==
    ASSUME CampaignRecord(db), NEW u \in Users, Campaigns!delete_account(u)
    PROVE  /\ txn' = txn /\ script' = script /\ CampaignRecord(db')
           /\ db'.campaigns = db.campaigns /\ db'.pushes = db.pushes
           /\ db'.users = [db.users EXCEPT ![u] = [active |-> FALSE, deleted |-> TRUE]]
           /\ DOMAIN db'.inbox = DOMAIN db.inbox \ {r \in DOMAIN db.inbox : r[2] = u}
           /\ db'.devices = Campaigns!Drop(db.devices, {p \in DOMAIN db.devices : db.devices[p].user = u})
           /\ db'.phones = [p \in DOMAIN db.phones |-> IF p \in Phones /\ db.phones[p].owner = u
                               THEN [db.phones[p] EXCEPT !.owner = None] ELSE db.phones[p]]
<1> DEFINE users == [db.users EXCEPT ![u] = [active |-> FALSE, deleted |-> TRUE]]
           gone == {r \in DOMAIN db.inbox : r[2] = u}
           inbox == [r \in DOMAIN db.inbox \ gone |-> db.inbox[r]]
           devices == Campaigns!Drop(db.devices, {p \in DOMAIN db.devices : db.devices[p].user = u})
           theirs == {p \in Phones : db.phones[p].owner = u}
           phones == [p \in DOMAIN db.phones |-> IF p \in theirs
                         THEN [db.phones[p] EXCEPT !.owner = None] ELSE db.phones[p]]
<1>1. /\ txn' = txn /\ script' = script
      /\ db' = [db EXCEPT !.users = users, !.inbox = inbox, !.devices = devices, !.phones = phones]
  BY DEF Campaigns!delete_account, Campaigns!Statement, Campaigns!Settle, Campaigns!Drop, Campaigns!Change
<1>2. DOMAIN inbox = DOMAIN db.inbox \ gone
  OBVIOUS
<1> HIDE DEF users, inbox, devices, phones
<1>3. /\ CampaignRecord(db') /\ db'.campaigns = db.campaigns /\ db'.pushes = db.pushes
      /\ db'.users = users /\ db'.inbox = inbox /\ db'.devices = devices /\ db'.phones = phones
  BY <1>1 DEF CampaignRecord
<1> QED BY <1>1, <1>2, <1>3 DEF users, devices, phones

LEMMA CampaignLeft ==
    ASSUME UsersAssumption, CampaignsInv, NEW u \in Users, Campaigns!delete_account(u)
    PROVE  CampaignStep
<1>1. CampaignsTrue(db) /\ CampaignRecord(db) /\ UsersTrue(db.users)
  BY DEF CampaignsInv, CampaignsTrue
<1>2. /\ txn' = txn /\ script' = script /\ CampaignRecord(db') /\ db'.campaigns = db.campaigns
      /\ db'.pushes = db.pushes
      /\ db'.users = [db.users EXCEPT ![u] = [active |-> FALSE, deleted |-> TRUE]]
      /\ DOMAIN db'.inbox = DOMAIN db.inbox \ {r \in DOMAIN db.inbox : r[2] = u}
      /\ db'.devices = Campaigns!Drop(db.devices, {p \in DOMAIN db.devices : db.devices[p].user = u})
      /\ db'.phones = [p \in DOMAIN db.phones |-> IF p \in Phones /\ db.phones[p].owner = u
                         THEN [db.phones[p] EXCEPT !.owner = None] ELSE db.phones[p]]
  BY <1>1, AccountGone
<1>3. /\ UsersTrue(db'.users) /\ db'.users[u].deleted
      /\ \A v \in Users : db.users[v].deleted => db'.users[v].deleted
  BY <1>1, <1>2 DEF UsersTrue, AccountRow
<1>4. InboxKept(db, db')
  BY <1>2, <1>3 DEF InboxKept, StillDeleted
<1>5. ASSUME BuzzKept(db) PROVE TokensTrue(db')
  <2>1. /\ TokensTrue(db) /\ DOMAIN db'.phones = Phones /\ DOMAIN db'.devices \subseteq Phones
        /\ \A p : p \in DOMAIN db'.devices <=> p \in DOMAIN db.devices /\ db.devices[p].user # u
        /\ \A p \in DOMAIN db'.devices : db'.devices[p] = db.devices[p]
    BY <1>2, <1>5 DEF BuzzKept, TokensTrue, Campaigns!Drop
  <2>2. ASSUME NEW p \in Phones PROVE TokenTrue(db'.phones, db'.devices, p)
    <3>1. TokenTrue(db.phones, db.devices, p) /\ db.phones[p] \in PhoneRow
      BY <2>1 DEF TokensTrue, TokenTrue
    <3>2. /\ db'.phones[p] \in PhoneRow /\ db'.phones[p].gone = db.phones[p].gone
          /\ db'.phones[p].owner = IF db.phones[p].owner = u THEN None ELSE db.phones[p].owner
      BY <1>2, <2>1, <3>1 DEF PhoneRow, TokensTrue
    <3> QED BY <2>1, <3>1, <3>2 DEF TokenTrue, UsersAssumption
  <2> QED BY <1>2, <2>1, <2>2 DEF TokensTrue
<1> QED BY <1>2, <1>4, <1>5, CampaignElsewhere

\* An operator blocks an account, or lets it back in; a message is read.
LEMMA CampaignMarked ==
    ASSUME CampaignsInv, NEW u \in Users, NEW rows, Campaigns!set_active(u) \/ Campaigns!mark_read(u, rows)
    PROVE  CampaignStep
<1>1. CampaignsTrue(db) /\ CampaignRecord(db) /\ UsersTrue(db.users)
  BY DEF CampaignsInv, CampaignsTrue
<1> DEFINE Box(x) == Campaigns!Change(db.inbox, x, LAMBDA n : [n EXCEPT !.read = TRUE])
<1>a. \A x : DOMAIN Box(x) = DOMAIN db.inbox
  BY DEF Campaigns!Change
<1>b. /\ txn' = txn /\ script' = script
      /\ \/ db' = [db EXCEPT !.users[u].active = ~@]
         \/ \E x : db' = [db EXCEPT !.inbox = Box(x)]
  BY DEF Campaigns!set_active, Campaigns!mark_read, Campaigns!Statement, Campaigns!Settle
<1> HIDE DEF Box
<1>2. /\ txn' = txn /\ script' = script
      /\ \/ db' = [db EXCEPT !.users[u].active = ~@]
         \/ \E box : db' = [db EXCEPT !.inbox = box] /\ DOMAIN box = DOMAIN db.inbox
  BY <1>a, <1>b
<1>3. /\ CampaignRecord(db') /\ db'.campaigns = db.campaigns /\ DOMAIN db'.inbox = DOMAIN db.inbox
      /\ db'.pushes = db.pushes /\ db'.phones = db.phones /\ db'.devices = db.devices
      /\ db'.users = db.users \/ db'.users = [db.users EXCEPT ![u].active = ~@]
  BY <1>1, <1>2 DEF CampaignRecord
<1>4. UsersTrue(db'.users) /\ \A v \in Users : db'.users[v].deleted = db.users[v].deleted
  BY <1>1, <1>3 DEF UsersTrue, AccountRow
<1>5. InboxKept(db, db')
  BY <1>3, <1>4 DEF InboxKept, StillDeleted
<1>6. BuzzKept(db) => TokensTrue(db')
  BY <1>3, TokensFrom DEF BuzzKept, TokensTrue
<1> QED BY <1>2, <1>3, <1>5, <1>6, CampaignElsewhere

\* A phone's token is given up, by its app or for good.
LEMMA PhoneLeaves ==
    ASSUME UsersAssumption, CampaignsInv, NEW u, NEW p \in Phones,
           Campaigns!unregister_device(u, p) \/ Campaigns!uninstall(p)
    PROVE  CampaignStep
<1>1. CampaignsTrue(db) /\ CampaignRecord(db)
  BY DEF CampaignsInv, CampaignsTrue
<1>2. /\ txn' = txn /\ script' = script
      /\ \/ /\ p \in DOMAIN db.devices /\ db.devices[p].user = u
            /\ db' = [db EXCEPT !.devices[p].active = FALSE,
                                !.phones[p].owner = IF @ = u THEN None ELSE @]
         \/ db' = [db EXCEPT !.phones[p] = [owner |-> None, gone |-> TRUE]]
  BY DEF Campaigns!unregister_device, Campaigns!uninstall, Campaigns!Statement, Campaigns!Settle
<1>3. /\ CampaignRecord(db') /\ db'.campaigns = db.campaigns /\ db'.inbox = db.inbox
      /\ db'.pushes = db.pushes /\ db'.users = db.users
      /\ \/ /\ p \in DOMAIN db.devices /\ db.devices[p].user = u
            /\ db'.devices = [db.devices EXCEPT ![p].active = FALSE]
            /\ db'.phones = [db.phones EXCEPT ![p].owner = IF @ = u THEN None ELSE @]
         \/ /\ db'.devices = db.devices
            /\ db'.phones = [db.phones EXCEPT ![p] = [owner |-> None, gone |-> TRUE]]
  BY <1>1, <1>2 DEF CampaignRecord
<1>4. ASSUME BuzzKept(db) PROVE TokensTrue(db')
  <2>1. /\ TokensTrue(db) /\ TokenTrue(db.phones, db.devices, p) /\ DOMAIN db.phones = Phones
        /\ DOMAIN db.devices \subseteq Phones
    BY <1>4 DEF BuzzKept, TokensTrue
  <2>2. /\ DOMAIN db'.phones = Phones /\ DOMAIN db'.devices = DOMAIN db.devices
        /\ \A q \in Phones : q # p => db'.phones[q] = db.phones[q]
        /\ \A q \in DOMAIN db.devices : q # p => db'.devices[q] = db.devices[q]
    BY <1>3, <2>1
  <2>3. TokenTrue(db'.phones, db'.devices, p)
    <3>1. CASE p \in DOMAIN db.devices /\ db.devices[p].user = u
               /\ db'.devices = [db.devices EXCEPT ![p].active = FALSE]
               /\ db'.phones = [db.phones EXCEPT ![p].owner = IF @ = u THEN None ELSE @]
      <4>1. /\ db'.devices[p] \in DeviceRow /\ ~db'.devices[p].active
        BY <2>1, <3>1 DEF TokenTrue, DeviceRow
      <4>2. db'.phones[p] \in PhoneRow /\ db'.phones[p].owner \notin Users
        BY <2>1, <3>1 DEF TokenTrue, PhoneRow, UsersAssumption
      <4> QED BY <2>2, <4>1, <4>2 DEF TokenTrue
    <3>2. CASE /\ db'.devices = db.devices
               /\ db'.phones = [db.phones EXCEPT ![p] = [owner |-> None, gone |-> TRUE]]
      BY <2>1, <3>2 DEF TokenTrue, PhoneRow, UsersAssumption
    <3> QED BY <1>3, <3>1, <3>2
  <2> QED BY <1>3, <2>1, <2>2, <2>3, TokensFrom
<1> QED BY <1>1, <1>2, <1>3, <1>4, NobodyLeft, CampaignElsewhere

\* The app registers a phone's token.
LEMMA PhoneArrives ==
    ASSUME UsersAssumption, CampaignsInv, NEW s \in Clerks, NEW u \in Users, NEW p \in Phones,
           Campaigns!register_device(s, u, p)
    PROVE  CampaignStep
<1> DEFINE row == [user |-> u, active |-> TRUE]
           devices == Campaigns!Add(Campaigns!Drop(db.devices, {p}), p, row)
           results == IF db.phones[p].gone \/ ~db.users[u].active THEN {}
                      ELSE {[db EXCEPT !.devices = devices, !.phones[p].owner = u]}
<1>1. CampaignsTrue(db) /\ CampaignRecord(db)
  BY DEF CampaignsInv, CampaignsTrue
<1>2. Campaigns!ServeHolding(s, "register", {}, results, Campaigns!Settle)
  BY DEF Campaigns!register_device, Campaigns!Serve
<1>3. /\ \A q : q \in DOMAIN devices <=> q \in DOMAIN db.devices \/ q = p
      /\ devices[p] = row /\ \A q \in DOMAIN db.devices : q # p => devices[q] = db.devices[q]
  <2> DEFINE rest == Campaigns!Drop(db.devices, {p})
  <2>1. /\ \A q : q \in DOMAIN rest <=> q \in DOMAIN db.devices /\ q # p
        /\ \A q \in DOMAIN rest : rest[q] = db.devices[q]
    BY DEF Campaigns!Drop
  <2> HIDE DEF rest, row
  <2>2. IsAdd(devices, rest, p, row)
    BY <2>1, AddedRow, CampaignsIsDesk DEF rest
  <2> HIDE DEF devices
  <2> QED BY <2>1, <2>2 DEF IsAdd
<1> HIDE DEF devices
<1>4. ASSUME NEW new \in results PROVE CampaignBegins(new, {})
  <2>1. ~db.phones[p].gone /\ new = [db EXCEPT !.devices = devices, !.phones[p].owner = u]
    BY <1>4
  <2>2. /\ CampaignRecord(new) /\ new.campaigns = db.campaigns /\ new.users = db.users
        /\ new.inbox = db.inbox /\ new.pushes = db.pushes /\ new.devices = devices
        /\ new.phones = [db.phones EXCEPT ![p].owner = u]
    BY <1>1, <2>1 DEF CampaignRecord
  <2>3. ASSUME BuzzKept(db) PROVE Buzzes(db, new)
    <3>1. /\ TokensTrue(db) /\ db.phones[p] \in PhoneRow /\ DOMAIN db.phones = Phones
          /\ DOMAIN db.devices \subseteq Phones
      BY <2>3 DEF BuzzKept, TokensTrue, TokenTrue
    <3>2. TokenTrue(new.phones, new.devices, p)
      <4>1. new.phones[p] \in PhoneRow /\ new.phones[p].owner = u /\ ~new.phones[p].gone
        BY <2>1, <2>2, <3>1 DEF PhoneRow
      <4>2. p \in DOMAIN new.devices /\ new.devices[p] = [user |-> u, active |-> TRUE]
        BY <1>3, <2>2
      <4> QED BY <4>1, <4>2 DEF TokenTrue, DeviceRow
    <3>3. TokensTrue(new)
      BY <1>3, <2>2, <3>1, <3>2, TokensFrom
    <3>4. \A c : IsSent(new, c) <=> IsSent(db, c)
      BY <2>2 DEF IsSent
    <3> QED BY <2>2, <2>3, <3>3, <3>4, SendsNothing DEF BuzzKept
  <2> QED BY <1>1, <2>2, <2>3, NoCampaign
<1> HIDE DEF results
<1> QED BY <1>2, <1>4, CampaignServed

LEMMA CampaignConsole ==
    ASSUME IdsAssumption, UsersAssumption, CampaignsInv, NEW s \in Clerks, Campaigns!Console(s)
    PROVE  CampaignStep
<1>1. CampaignsTrue(db) /\ script \in CampaignsScripts
  BY DEF CampaignsInv
<1>2. ASSUME NEW audience \in {"CUSTOMER", "ALL"}, NEW later \in BOOLEAN,
             Campaigns!create(s, audience, later)
      PROVE  CampaignStep
  <2>1. PICK c, made :
            /\ Fresh("campaigns", script.ids) # {} /\ c = Least(Fresh("campaigns", script.ids))
            /\ Making(made, c, audience)
            /\ IF later THEN Campaigns!Serve(s, "create", {made}, Campaigns!Settle)
               ELSE Campaigns!Sending(s, "create", made, {c}, {})
    BY <1>2, CampaignsIsDesk DEF Campaigns!create, Making
  <2>2. \A new \in {made} : CampaignBegins(new, {})
    BY <1>1, <2>1, CreatedBegins
  <2>3. \A new \in Campaigns!dispatch(made, {c}) : CampaignBegins(new, {})
    BY <1>1, <2>1, CreatedBegins
  <2>4. CASE later
    BY <2>1, <2>2, <2>4, CampaignServed DEF Campaigns!Serve
  <2>5. CASE ~later
    <3>1. Campaigns!Sending(s, "create", made, {c}, {})
      BY <2>1, <2>5
    <3> DEFINE holds == {}
    <3>2. \A row \in holds : ~Locked(s, row)
      OBVIOUS
    <3>3. /\ Campaigns!Sending(s, "create", made, {c}, holds)
          /\ \A new \in Campaigns!dispatch(made, {c}) : CampaignBegins(new, holds)
      BY <2>3, <3>1
    <3> HIDE DEF holds
    <3> QED BY <3>2, <3>3, CampaignSending
  <2> QED BY <2>4, <2>5
<1>3. ASSUME NEW c \in DOMAIN db.campaigns, Campaigns!cancel(s, c)
      PROVE  CampaignStep
  <2> DEFINE results == IF db.campaigns[c].status # "SCHEDULED" THEN {}
                        ELSE {[db EXCEPT !.campaigns[c].status = "CANCELLED"]}
             holds == {Campaigns!Row(c)}
  <2>1. <<"campaigns", c>> \in holds
    BY DEF Campaigns!Row
  <2>2. \A new \in results : CampaignBegins(new, holds)
    BY <1>1, <2>1, CancelledBegins
  <2>3. Campaigns!ServeHolding(s, "cancel", holds, results, Campaigns!Settle)
    BY <1>3 DEF Campaigns!cancel
  <2> HIDE DEF results, holds
  <2> QED BY <2>2, <2>3, CampaignServed
<1>4. CASE Campaigns!send_due(s)
  <2>1. PICK cs \in SUBSET Campaigns!Due(s) :
            Campaigns!Sending(s, "send_due", db, cs, {Campaigns!Row(c) : c \in cs})
    BY <1>4 DEF Campaigns!send_due
  <2> DEFINE holds == {Campaigns!Row(c) : c \in cs}
  <2>2. /\ cs \subseteq DOMAIN db.campaigns
        /\ \A c \in cs : db.campaigns[c].status = "SCHEDULED"
        /\ \A row \in holds : ~Locked(s, row)
        /\ \A c \in cs : <<"campaigns", c>> \in holds
    BY CampaignsIsDesk DEF Campaigns!Due, Campaigns!Row
  <2>3. Campaigns!Sending(s, "send_due", db, cs, holds)
    BY <2>1
  <2> HIDE DEF holds
  <2>4. \A new \in Campaigns!dispatch(db, cs) : CampaignBegins(new, holds)
    BY <1>1, <2>2, SweptBegins
  <2> QED BY <2>2, <2>3, <2>4, CampaignSending
<1> QED BY <1>2, <1>3, <1>4 DEF Campaigns!Console

LEMMA CampaignsNext ==
    ASSUME IdsAssumption, UsersAssumption, CampaignsInv, Campaigns!Next
    PROVE  CampaignStep
<1>1. ASSUME Campaigns!Inbox PROVE CampaignStep
  BY <1>1, CampaignMarked, PhoneLeaves, Zenon DEF Campaigns!Inbox
<1>2. ASSUME NEW s \in Clerks, Campaigns!Arriving(s) PROVE CampaignStep
  BY <1>2, PhoneArrives, Zenon DEF Campaigns!Arriving
<1>3. ASSUME NEW u \in Users, Campaigns!set_active(u) \/ Campaigns!delete_account(u) PROVE CampaignStep
  BY <1>3, CampaignMarked, CampaignLeft, Zenon
<1>4. ASSUME NEW p \in Phones, Campaigns!uninstall(p) PROVE CampaignStep
  BY <1>4, PhoneLeaves, Zenon
<1> QED BY <1>1, <1>2, <1>3, <1>4, CampaignConsole, CampaignCommitted, CampaignAborted, CampaignDue, Zenon
        DEF Campaigns!Next

LEMMA BuzzInit ==
    ASSUME UsersAssumption, Campaigns!Init
    PROVE  BuzzKept(db)
<1>1. db = [users |-> db.users, campaigns |-> Nothing, inbox |-> Nothing, devices |-> Nothing,
            pushes |-> Nothing, phones |-> [p \in Phones |-> [owner |-> None, gone |-> FALSE]]]
  BY DEF Campaigns!Init, Campaigns!Opens, Campaigns!Nothing, Nothing
<1>2. DOMAIN Nothing = {}
  BY DEF Nothing
<1>3. CampaignRecord(db) /\ db.devices = Nothing /\ db.pushes = Nothing
      /\ db.phones = [p \in Phones |-> [owner |-> None, gone |-> FALSE]]
  BY <1>1 DEF CampaignRecord
<1>4. [owner |-> None, gone |-> FALSE] \in PhoneRow
  BY DEF PhoneRow
<1>5. TokensTrue(db)
  BY <1>2, <1>3, <1>4 DEF TokensTrue, TokenTrue, UsersAssumption
<1> QED BY <1>2, <1>3, <1>5 DEF BuzzKept, BuzzesOnce

\* What a step does to the phones is what the property says of it.
LEMMA BuzzesIts ==
    ASSUME InTurn => Buzzes(db, db')
    PROVE  Campaigns!BuzzesItsAudience
<1>1. ASSUME InTurn, NEW c \in DOMAIN db'.campaigns
      PROVE  LET buzzed == {x \in DOMAIN db'.pushes : x[1] = c}
                 theirs == {p \in Phones : db'.phones[p].owner \in Campaigns!Audience(db', c)}
                 sent == db'.campaigns[c].status = "SENT"
             IN  /\ \A x \in buzzed : db'.pushes[x].times = 1 /\ sent
                 /\ (sent /\ (c \in DOMAIN db.campaigns => db.campaigns[c].status # "SENT")) =>
                        {x[2] : x \in buzzed} \subseteq theirs /\ theirs \subseteq Campaigns!Tokens(db', c)
  BY <1>1 DEF Buzzes, BuzzKept, BuzzesOnce, Reaches, IsSent
<1> QED BY <1>1, CampaignsIsDesk DEF Campaigns!BuzzesItsAudience

(***************************************************************************)
(* Onboarding: decisions stand, and every approval has its account         *)
(***************************************************************************)
LEMMA OnboardingIsDesk ==
    /\ \A table, id, row : Onboarding!Add(table, id, row) = Add(table, id, row)
    /\ \A ids : Onboarding!Least(ids) = Least(ids)
    /\ \A t, ids : Onboarding!Fresh(t, ids) = Fresh(t, ids)
    /\ \A s, row : Onboarding!Locked(s, row) = Locked(s, row)
    /\ \A r : Onboarding!Writes(r) = Writes(r)
    /\ \A table, seen, new : Onboarding!Merged(table, seen, new) = Merged(table, seen, new)
    /\ Onboarding!InTurn <=> InTurn
BY DEF Onboarding!Add, Onboarding!Joined, Onboarding!Only, Add, Joined, Only, Onboarding!Least, Least,
       Onboarding!Fresh, Onboarding!Open, Fresh, Open, Onboarding!Locked, Locked, Onboarding!Writes,
       Writes, Onboarding!Merged, Merged, Onboarding!InTurn, InTurn

\* ---- What each request makes of accounts and applications ----
\* A row with a new id, in one table.
LEMMA Inserted ==
    ASSUME IdsAssumption, OnRecord(db), NEW d, OnRecord(d), NEW t \in OnTable, DOMAIN d[t] = DOMAIN db[t], NEW row,
           NEW x \in Onboarding!Insert(d, t, row)
    PROVE  /\ OnRecord(x)
           /\ Onboarding!Next1(t) \in Fresh(t, Rows) /\ Onboarding!Next1(t) \notin DOMAIN db[t]
           /\ IsAdd(x[t], d[t], Onboarding!Next1(t), row)
           /\ \A v \in OnTable : v # t => x[v] = d[v]
<1> DEFINE id == Onboarding!Next1(t)
<1>1. Fresh(t, Rows) # {} /\ x = [d EXCEPT ![t] = Add(d[t], id, row)] /\ id = Least(Fresh(t, Rows))
  BY OnboardingIsDesk DEF Onboarding!Insert, Onboarding!Next1
<1>2. Fresh(t, Rows) \in SUBSET Nat
  BY DEF IdsAssumption, Fresh
<1>3. id \in Fresh(t, Rows)
  BY <1>1, <1>2, LeastIn
<1>4. t \in DOMAIN db /\ DOMAIN d = OnTable
  BY DEF OnRecord, OnTable
<1>5. id \notin DOMAIN db[t]
  BY <1>3, <1>4, FreshIds
<1> HIDE DEF id
<1>6. IsAdd(Add(d[t], id, row), d[t], id, row)
  BY <1>5, AddedRow
<1>7. x[t] = Add(d[t], id, row) /\ \A v \in OnTable : v # t => x[v] = d[v]
  BY <1>1, <1>4
<1>8. OnRecord(x)
  BY <1>1, <1>4 DEF OnRecord, OnTable
<1> QED BY <1>3, <1>5, <1>6, <1>7, <1>8 DEF id

LEMMA JoiningBegins ==
    ASSUME OnTables(db), NEW new, NEW holds, Joining(new), InTurn => StoresKept(new)
    PROVE  OnBegins(new, holds)
<1>1. OnRecord(db) /\ OnRecord(new) /\ UsersGrown(db, new)
  BY DEF OnTables, Joining
<1>2. \A t \in Decided : new[t] = db[t]
  BY DEF Joining, Decided
<1>3. OnWork(db, new, holds)
  BY <1>1, <1>2 DEF OnWork
<1>4. \A t \in {"users"} \cup Decided : \A k \in DOMAIN new[t] : k \notin DOMAIN db[t] => k \in Fresh(t, Rows)
  BY <1>2 DEF Joining
<1> QED BY <1>3, <1>4 DEF OnBegins

LEMMA NobodyJoins ==
    ASSUME OnTables(db), NEW new, OnRecord(new), new.users = db.users,
           new.riders = db.riders, new.invitations = db.invitations
    PROVE  Joining(new)
BY DEF Joining, UsersGrown, OnTables

\* An account is opened.
LEMMA UserAdded ==
    ASSUME IdsAssumption, OnTables(db), NEW e, NEW role,
           NEW x \in Onboarding!Insert(db, "users", [email |-> e, role |-> role])
    PROVE  /\ Joining(x) /\ x.restaurants = db.restaurants /\ x.vendors = db.vendors
           /\ Onboarding!Next1("users") \in DOMAIN x.users /\ Onboarding!Next1("users") \notin DOMAIN db.users
           /\ x.users[Onboarding!Next1("users")].role = role
<1> DEFINE id == Onboarding!Next1("users")
           row == [email |-> e, role |-> role]
<1>1. OnRecord(db) /\ "users" \in OnTable
  BY DEF OnTables, OnTable
<1>2. /\ OnRecord(x) /\ id \in Fresh("users", Rows) /\ id \notin DOMAIN db["users"]
      /\ IsAdd(x["users"], db["users"], id, row)
      /\ \A v \in OnTable : v # "users" => x[v] = db[v]
  BY <1>1, Inserted
<1>3. /\ x.restaurants = db.restaurants /\ x.vendors = db.vendors
      /\ x.riders = db.riders /\ x.invitations = db.invitations
  BY <1>2 DEF OnTable
<1> HIDE DEF id
<1>4. /\ \A u : u \in DOMAIN x.users <=> u \in DOMAIN db.users \/ u = id
      /\ x.users[id] = row /\ \A u \in DOMAIN db.users : x.users[u] = db.users[u]
  BY <1>2 DEF IsAdd
<1>5. UserRow(row)
  BY DEF UserRow
<1>6. UsersGrown(db, x)
  BY <1>4, <1>5 DEF UsersGrown, OnTables
<1>7. Joining(x)
  BY <1>2, <1>3, <1>4, <1>6 DEF Joining
<1> QED BY <1>2, <1>3, <1>4, <1>7 DEF id

\* The stores as they are.
LEMMA NoStore ==
    ASSUME NEW new, new.vendors = db.vendors, new.restaurants = db.restaurants
    PROVE  StoresKept(new)
BY DEF StoresKept, Waiting

LEMMA SignedUp ==
    ASSUME IdsAssumption, OnTables(db), NEW e, NEW holds,
           NEW new \in Onboarding!sign_up(db, e) \cup Onboarding!create_rider(db, e)
    PROVE  OnBegins(new, holds)
<1>1. \/ new \in Onboarding!Insert(db, "users", [email |-> e, role |-> "CUSTOMER"])
      \/ new \in Onboarding!Insert(db, "users", [email |-> e, role |-> "RIDER"])
  BY DEF Onboarding!sign_up, Onboarding!create_rider
<1>2. Joining(new) /\ StoresKept(new)
  BY <1>1, UserAdded, NoStore
<1> QED BY <1>2, JoiningBegins

\* A vendor's account is found or opened.
LEMMA Resolved ==
    ASSUME IdsAssumption, OnTables(db), NEW e, NEW p \in Onboarding!_resolve_applicant(db, e)
    PROVE  Joining(p.in) /\ p.in.restaurants = db.restaurants /\ p.in.vendors = db.vendors
<1>1. CASE Onboarding!find_by_identifier(db, e) = {}
  <2>1. PICK x \in Onboarding!Insert(db, "users", [email |-> e, role |-> "VENDOR"]) :
            p = [user |-> Onboarding!Next1("users"), in |-> x]
    BY <1>1 DEF Onboarding!_resolve_applicant
  <2>2. p.in = x
    BY <2>1
  <2> QED BY <2>1, <2>2, UserAdded
<1>2. CASE Onboarding!find_by_identifier(db, e) # {}
  <2>1. p.in = db
    BY <1>2 DEF Onboarding!_resolve_applicant
  <2> QED BY <2>1, NobodyJoins DEF OnTables
<1> QED BY <1>1, <1>2

\* A store opens, closed, with an application of its own or none.
LEMMA StoreOpens ==
    ASSUME NEW new, NEW rid, NEW store, rid \notin DOMAIN db.restaurants, StoreRow(store),
           IsAdd(new.restaurants, db.restaurants, rid, store),
           \/ new.vendors = db.vendors
           \/ \E a, u, st : /\ a \notin DOMAIN db.vendors /\ (store.verified => st # "PENDING")
                            /\ IsAdd(new.vendors, db.vendors, a, Onboarding!Application(u, rid, st))
    PROVE  StoresKept(new)
<1>1. /\ \A x : x \in DOMAIN new.restaurants <=> x \in DOMAIN db.restaurants \/ x = rid
      /\ new.restaurants[rid] = store
      /\ \A x \in DOMAIN db.restaurants : new.restaurants[x] = db.restaurants[x]
  BY DEF IsAdd
<1>3. CASE new.vendors = db.vendors
  BY <1>1, <1>3 DEF StoresKept, Waiting
<1>4. ASSUME NEW a, NEW u, NEW st, a \notin DOMAIN db.vendors, store.verified => st # "PENDING",
             IsAdd(new.vendors, db.vendors, a, Onboarding!Application(u, rid, st))
      PROVE  StoresKept(new)
  <2> DEFINE row == Onboarding!Application(u, rid, st)
  <2>1. VendorRow(row) /\ row.restaurant = rid /\ row.status = st
    BY DEF Onboarding!Application, VendorRow
  <2>2. /\ \A x : x \in DOMAIN new.vendors <=> x \in DOMAIN db.vendors \/ x = a
        /\ new.vendors[a] = row
        /\ \A x \in DOMAIN db.vendors : new.vendors[x] = db.vendors[x]
    BY <1>4 DEF IsAdd
  <2> HIDE DEF row
  <2>3. ASSUME Waiting(db) PROVE Waiting(new)
    <3>1. \A x \in DOMAIN new.restaurants : StoreRow(new.restaurants[x])
      BY <1>1, <2>3 DEF Waiting
    <3>2. ASSUME NEW b \in DOMAIN new.vendors
          PROVE  /\ VendorRow(new.vendors[b]) /\ new.vendors[b].restaurant \in DOMAIN new.restaurants
                 /\ new.restaurants[new.vendors[b].restaurant].verified => new.vendors[b].status # "PENDING"
      <4>1. CASE b = a
        BY <1>1, <1>4, <2>1, <2>2, <4>1
      <4>2. CASE b \in DOMAIN db.vendors
        BY <1>1, <2>2, <2>3, <4>2 DEF Waiting
      <4> QED BY <2>2, <4>1, <4>2
    <3>3. \A b \in DOMAIN db.vendors : db.vendors[b].restaurant # rid
      BY <2>3 DEF Waiting
    <3>4. ASSUME NEW b \in DOMAIN new.vendors, NEW c \in DOMAIN new.vendors,
                 new.vendors[b].restaurant = new.vendors[c].restaurant
          PROVE  b = c
      <4>1. CASE b \in DOMAIN db.vendors /\ c \in DOMAIN db.vendors
        BY <2>2, <2>3, <3>4, <4>1 DEF Waiting
      <4>2. CASE b \notin DOMAIN db.vendors \/ c \notin DOMAIN db.vendors
        BY <2>1, <2>2, <3>3, <3>4, <4>2
      <4> QED BY <4>1, <4>2
    <3> QED BY <3>1, <3>2, <3>4 DEF Waiting
  <2> QED BY <2>2, <2>3 DEF StoresKept
<1> QED BY <1>3, <1>4

LEMMA RestaurantAdded ==
    ASSUME IdsAssumption, OnTables(db), NEW d, Joining(d), d.restaurants = db.restaurants, NEW store,
           NEW x \in Onboarding!Insert(d, "restaurants", store)
    PROVE  /\ Joining(x) /\ x.vendors = d.vendors
           /\ Onboarding!Next1("restaurants") \notin DOMAIN db.restaurants
           /\ IsAdd(x.restaurants, db.restaurants, Onboarding!Next1("restaurants"), store)
<1>1. OnRecord(db) /\ OnRecord(d) /\ "restaurants" \in OnTable /\ d["restaurants"] = db["restaurants"]
  BY DEF OnTables, OnTable, Joining
<1>2. /\ OnRecord(x)
      /\ Onboarding!Next1("restaurants") \notin DOMAIN db["restaurants"]
      /\ IsAdd(x["restaurants"], db["restaurants"], Onboarding!Next1("restaurants"), store)
      /\ \A w \in OnTable : w # "restaurants" => x[w] = d[w]
  BY <1>1, Inserted
<1>3. x.users = d.users /\ x.riders = d.riders /\ x.invitations = d.invitations /\ x.vendors = d.vendors
  BY <1>2 DEF OnTable
<1>4. Joining(x)
  BY <1>2, <1>3 DEF Joining, UsersGrown
<1> QED BY <1>2, <1>3, <1>4

LEMMA RecordAdded ==
    ASSUME IdsAssumption, OnTables(db), NEW d, Joining(d), d.vendors = db.vendors, NEW row,
           NEW x \in Onboarding!Insert(d, "vendors", row)
    PROVE  /\ Joining(x) /\ x.restaurants = d.restaurants
           /\ Onboarding!Next1("vendors") \notin DOMAIN db.vendors
           /\ IsAdd(x.vendors, db.vendors, Onboarding!Next1("vendors"), row)
<1>1. OnRecord(db) /\ OnRecord(d) /\ "vendors" \in OnTable /\ d["vendors"] = db["vendors"]
  BY DEF OnTables, OnTable, Joining
<1>2. /\ OnRecord(x)
      /\ Onboarding!Next1("vendors") \notin DOMAIN db["vendors"]
      /\ IsAdd(x["vendors"], db["vendors"], Onboarding!Next1("vendors"), row)
      /\ \A w \in OnTable : w # "vendors" => x[w] = d[w]
  BY <1>1, Inserted
<1>3. x.users = d.users /\ x.riders = d.riders /\ x.invitations = d.invitations /\ x.restaurants = d.restaurants
  BY <1>2 DEF OnTable
<1>4. Joining(x)
  BY <1>2, <1>3 DEF Joining, UsersGrown
<1> QED BY <1>2, <1>3, <1>4

LEMMA VendorRegistered ==
    ASSUME IdsAssumption, OnTables(db), NEW e, NEW new \in Onboarding!register_vendor(db, e)
    PROVE  OnBegins(new, {})
<1> DEFINE rid == Onboarding!Next1("restaurants")
<1>1. PICK p \in Onboarding!_resolve_applicant(db, e) :
          new \in Onboarding!Insert(p.in, "restaurants", Onboarding!Restaurant(p.user, FALSE, FALSE))
  BY DEF Onboarding!register_vendor
<1>2. Joining(p.in) /\ p.in.restaurants = db.restaurants /\ p.in.vendors = db.vendors
  BY Resolved
<1> DEFINE store == Onboarding!Restaurant(p.user, FALSE, FALSE)
<1>3. StoreRow(store) /\ new \in Onboarding!Insert(p.in, "restaurants", store)
  BY <1>1 DEF StoreRow, Onboarding!Restaurant
<1> HIDE DEF store
<1>4. /\ Joining(new) /\ new.vendors = db.vendors /\ rid \notin DOMAIN db.restaurants
      /\ IsAdd(new.restaurants, db.restaurants, rid, store)
  BY <1>2, <1>3, RestaurantAdded
<1> HIDE DEF rid
<1>5. StoresKept(new)
  BY <1>3, <1>4, StoreOpens
<1> QED BY <1>4, <1>5, JoiningBegins

\* An application comes with its store.
LEMMA Submitted ==
    ASSUME IdsAssumption, OnTables(db), NEW e, NEW new \in Onboarding!submit(db, e)
    PROVE  OnBegins(new, {})
<1> DEFINE rid == Onboarding!Next1("restaurants")
           aid == Onboarding!Next1("vendors")
<1>1. PICK p \in Onboarding!_resolve_applicant(db, e) :
          new \in UNION {Onboarding!Insert(x, "vendors", Onboarding!Application(p.user, rid, "PENDING")) :
                            x \in Onboarding!Insert(p.in, "restaurants", Onboarding!Restaurant(p.user, FALSE, FALSE))}
  BY DEF Onboarding!submit
<1> DEFINE store == Onboarding!Restaurant(p.user, FALSE, FALSE)
<1>2. PICK x \in Onboarding!Insert(p.in, "restaurants", store) :
          new \in Onboarding!Insert(x, "vendors", Onboarding!Application(p.user, rid, "PENDING"))
  BY <1>1
<1>s. StoreRow(store) /\ ~store.verified
  BY DEF StoreRow, Onboarding!Restaurant
<1> HIDE DEF store
<1>3. Joining(p.in) /\ p.in.restaurants = db.restaurants /\ p.in.vendors = db.vendors
  BY Resolved
<1>4. /\ Joining(x) /\ x.vendors = db.vendors /\ rid \notin DOMAIN db.restaurants
      /\ IsAdd(x.restaurants, db.restaurants, rid, store)
  BY <1>2, <1>3, RestaurantAdded
<1>5. /\ Joining(new) /\ new.restaurants = x.restaurants /\ aid \notin DOMAIN db.vendors
      /\ IsAdd(new.vendors, db.vendors, aid, Onboarding!Application(p.user, rid, "PENDING"))
  BY <1>2, <1>4, RecordAdded
<1> HIDE DEF rid, aid
<1>6. StoresKept(new)
  BY <1>4, <1>5, <1>s, StoreOpens
<1> QED BY <1>5, <1>6, JoiningBegins

\* A vendor added by hand: the record is approved if the store is.
LEMMA VendorCreated ==
    ASSUME IdsAssumption, OnTables(db), NEW e, NEW verified \in BOOLEAN, NEW open \in BOOLEAN,
           NEW new \in Onboarding!create_vendor(db, e, verified, open)
    PROVE  OnBegins(new, {})
<1> DEFINE uid == Onboarding!Next1("users")
           rid == Onboarding!Next1("restaurants")
           aid == Onboarding!Next1("vendors")
           status == IF verified THEN "APPROVED" ELSE "PENDING"
           store == Onboarding!Restaurant(uid, verified, open)
<1>1. PICK x \in Onboarding!Insert(db, "users", [email |-> e, role |-> "VENDOR"]) :
          \E y \in Onboarding!Insert(x, "restaurants", store) :
              new \in Onboarding!Insert(y, "vendors", Onboarding!Application(uid, rid, status))
  BY DEF Onboarding!create_vendor
<1>2. PICK y \in Onboarding!Insert(x, "restaurants", store) :
          new \in Onboarding!Insert(y, "vendors", Onboarding!Application(uid, rid, status))
  BY <1>1
<1>s. StoreRow(store) /\ (store.verified => status # "PENDING")
  BY DEF StoreRow, Onboarding!Restaurant
<1> HIDE DEF store
<1>3. Joining(x) /\ x.restaurants = db.restaurants /\ x.vendors = db.vendors
  BY UserAdded
<1>4. /\ Joining(y) /\ y.vendors = db.vendors /\ rid \notin DOMAIN db.restaurants
      /\ IsAdd(y.restaurants, db.restaurants, rid, store)
  BY <1>2, <1>3, RestaurantAdded
<1>5. /\ Joining(new) /\ new.restaurants = y.restaurants /\ aid \notin DOMAIN db.vendors
      /\ IsAdd(new.vendors, db.vendors, aid, Onboarding!Application(uid, rid, status))
  BY <1>2, <1>4, RecordAdded
<1> HIDE DEF uid, rid, aid, status
<1>7. StoresKept(new)
  BY <1>4, <1>5, <1>s, StoreOpens
<1> QED BY <1>5, <1>7, JoiningBegins

LEMMA InPlaceWaits ==
    ASSUME Waiting(db), NEW new, NEW S, NEW R, InPlace(new, S, R),
           \A a \in DOMAIN db.vendors : a \in S =>
               VendorRow(new.vendors[a]) /\ new.vendors[a].restaurant = db.vendors[a].restaurant,
           \A x \in DOMAIN db.restaurants : x \in R => StoreRow(new.restaurants[x]),
           \A a \in DOMAIN db.vendors :
               new.restaurants[db.vendors[a].restaurant].verified => new.vendors[a].status # "PENDING"
    PROVE  Waiting(new)
<1>1. \A a \in DOMAIN db.vendors : VendorRow(new.vendors[a]) /\ new.vendors[a].restaurant = db.vendors[a].restaurant
  BY DEF InPlace, Waiting
<1>2. \A x \in DOMAIN db.restaurants : StoreRow(new.restaurants[x])
  BY DEF InPlace, Waiting
<1>3. DOMAIN new.vendors = DOMAIN db.vendors /\ DOMAIN new.restaurants = DOMAIN db.restaurants
  BY DEF InPlace
<1> QED BY <1>1, <1>2, <1>3 DEF Waiting

LEMMA VendorJudged ==
    ASSUME OnTables(db), NEW a \in DOMAIN db.vendors,
           NEW new \in Onboarding!approve(db, a) \cup Onboarding!reject(db, a)
    PROVE  OnBegins(new, {})
<1>1. OnRecord(db) /\ db.vendors[a].status = "PENDING"
  BY DEF OnTables, Onboarding!approve, Onboarding!reject, Onboarding!_get_pending
<1>2. CASE new = [db EXCEPT !.vendors[a].status = "REJECTED"]
  <2>1. InPlace(new, {a}, {}) /\ new.vendors[a] = [db.vendors[a] EXCEPT !.status = "REJECTED"]
    BY <1>1, <1>2 DEF OnRecord, InPlace
  <2>2. Waiting(db) => VendorRow(new.vendors[a]) /\ new.vendors[a].status = "REJECTED"
                       /\ new.vendors[a].restaurant = db.vendors[a].restaurant
    BY <2>1 DEF Waiting, VendorRow
  <2>5. ASSUME Waiting(db) PROVE Waiting(new)
    <3>1. \A b \in DOMAIN db.vendors :
              new.restaurants[db.vendors[b].restaurant].verified => new.vendors[b].status # "PENDING"
      BY <2>1, <2>2, <2>5 DEF Waiting, InPlace
    <3> QED BY <2>1, <2>2, <2>5, <3>1, InPlaceWaits
  <2>3. StoresKept(new)
    BY <1>1, <2>1, <2>5 DEF StoresKept, InPlace
  <2>4. Joining(new)
    BY <2>1, NobodyJoins DEF InPlace
  <2> QED BY <2>3, <2>4, JoiningBegins
<1>3. CASE new = [db EXCEPT !.vendors[a].status = "APPROVED",
                            !.restaurants[db.vendors[a].restaurant].verified = TRUE]
  <2> DEFINE x == db.vendors[a].restaurant
  <2>1. /\ InPlace(new, {a}, {x}) /\ new.vendors[a] = [db.vendors[a] EXCEPT !.status = "APPROVED"]
        /\ x \in DOMAIN db.restaurants => new.restaurants[x] = [db.restaurants[x] EXCEPT !.verified = TRUE]
    BY <1>1, <1>3 DEF OnRecord, InPlace
  <2>2. ASSUME Waiting(db) PROVE Waiting(new)
    <3>1. /\ x \in DOMAIN db.restaurants /\ StoreRow(db.restaurants[x]) /\ VendorRow(db.vendors[a])
          /\ \A b \in DOMAIN db.vendors : b # a => db.vendors[b].restaurant # x
      BY <2>2 DEF Waiting
    <3>2. /\ VendorRow(new.vendors[a]) /\ new.vendors[a].status = "APPROVED"
          /\ new.vendors[a].restaurant = x
      BY <2>1, <3>1 DEF VendorRow
    <3>3. StoreRow(new.restaurants[x])
      BY <2>1, <3>1 DEF StoreRow
    <3>4. ASSUME NEW b \in DOMAIN db.vendors
          PROVE  new.restaurants[db.vendors[b].restaurant].verified => new.vendors[b].status # "PENDING"
      <4>1. CASE b = a
        BY <3>2, <4>1
      <4>2. CASE b # a
        <5>1. db.vendors[b].restaurant # x /\ db.vendors[b].restaurant \in DOMAIN db.restaurants
          BY <2>2, <3>1, <4>2 DEF Waiting
        <5>2. /\ new.vendors[b] = db.vendors[b]
              /\ new.restaurants[db.vendors[b].restaurant] = db.restaurants[db.vendors[b].restaurant]
          BY <2>1, <4>2, <5>1 DEF InPlace
        <5> QED BY <2>2, <5>2 DEF Waiting
      <4> QED BY <4>1, <4>2
    <3> HIDE DEF x
    <3>5. \A b \in DOMAIN db.vendors : b \in {a} =>
              VendorRow(new.vendors[b]) /\ new.vendors[b].restaurant = db.vendors[b].restaurant
      BY <3>2 DEF x
    <3>6. \A y \in DOMAIN db.restaurants : y \in {x} => StoreRow(new.restaurants[y])
      BY <3>3
    <3> QED BY <2>1, <2>2, <3>4, <3>5, <3>6, InPlaceWaits
  <2>3. StoresKept(new)
    BY <1>1, <2>1, <2>2 DEF StoresKept, InPlace
  <2>4. Joining(new)
    BY <2>1, NobodyJoins DEF InPlace
  <2> QED BY <2>3, <2>4, JoiningBegins
<1> QED BY <1>2, <1>3 DEF Onboarding!approve, Onboarding!reject

\* update_vendor: approving a store settles the application that waits for it.
LEMMA StoreApplied ==
    ASSUME OnTables(db), NEW r \in DOMAIN db.restaurants, NEW verified \in BOOLEAN,
           NEW new \in Onboarding!_apply_store(db, r, verified)
    PROVE  OnBegins(new, {})
<1> DEFINE S == {a \in Onboarding!_partner_record(db, r) : Onboarding!_get_pending(db, a)}
<1>1. OnRecord(db)
  BY DEF OnTables
<1>2. \A a : a \in S <=> a \in DOMAIN db.vendors /\ db.vendors[a].restaurant = r
                         /\ db.vendors[a].status = "PENDING"
  BY DEF Onboarding!_partner_record, Onboarding!_get_pending
<1>3. CASE verified
  <2>1. new = [db EXCEPT !.restaurants[r].verified = TRUE,
                         !.vendors = Onboarding!Change(db.vendors, S, LAMBDA row : [row EXCEPT !.status = "APPROVED"])]
    BY <1>3 DEF Onboarding!_apply_store
  <2> HIDE DEF S
  <2>2. new = [db EXCEPT !.restaurants[r].verified = TRUE,
                         !.vendors = [a \in DOMAIN db.vendors |->
                             IF a \in S THEN [db.vendors[a] EXCEPT !.status = "APPROVED"] ELSE db.vendors[a]]]
    BY <2>1 DEF Onboarding!Change
  <2>3. /\ InPlace(new, S, {r})
        /\ \A a \in S : a \in DOMAIN db.vendors => new.vendors[a] = [db.vendors[a] EXCEPT !.status = "APPROVED"]
        /\ new.restaurants[r] = [db.restaurants[r] EXCEPT !.verified = TRUE]
    BY <1>1, <2>2 DEF OnRecord, InPlace
  <2>4. ASSUME Waiting(db) PROVE Waiting(new)
    <3>1. StoreRow(db.restaurants[r]) /\ \A a \in DOMAIN db.vendors : VendorRow(db.vendors[a])
      BY <2>4 DEF Waiting
    <3>2. \A a \in S : VendorRow(new.vendors[a]) /\ new.vendors[a].status = "APPROVED"
                       /\ new.vendors[a].restaurant = r
      <4> SUFFICES ASSUME NEW a \in S
                   PROVE  VendorRow(new.vendors[a]) /\ new.vendors[a].status = "APPROVED" /\ new.vendors[a].restaurant = r
        OBVIOUS
      <4>1. VendorRow(db.vendors[a]) /\ db.vendors[a].restaurant = r
        BY <1>2, <3>1
      <4>2. new.vendors[a] = [db.vendors[a] EXCEPT !.status = "APPROVED"]
        BY <1>2, <2>3
      <4> QED BY <4>1, <4>2 DEF VendorRow
    <3>3. StoreRow(new.restaurants[r])
      BY <2>3, <3>1 DEF StoreRow
    <3>4. ASSUME NEW a \in DOMAIN new.vendors
          PROVE  /\ VendorRow(new.vendors[a]) /\ new.vendors[a].restaurant = db.vendors[a].restaurant
                 /\ new.restaurants[new.vendors[a].restaurant].verified => new.vendors[a].status # "PENDING"
      <4>1. CASE a \in S
        BY <1>2, <3>2, <4>1
      <4>2. CASE a \notin S
        BY <1>2, <2>3, <2>4, <3>1, <4>2 DEF Waiting, InPlace
      <4> QED BY <4>1, <4>2
    <3> QED BY <2>3, <2>4, <3>3, <3>4 DEF Waiting, InPlace
  <2>5. StoresKept(new)
    BY <1>2, <2>3, <2>4 DEF StoresKept, InPlace
  <2>6. Joining(new)
    BY <2>3, NobodyJoins DEF InPlace
  <2> QED BY <2>5, <2>6, JoiningBegins
<1>4. CASE ~verified
  <2>1. new = [db EXCEPT !.restaurants[r].verified = FALSE, !.restaurants[r].open = FALSE]
    BY <1>4 DEF Onboarding!_apply_store
  <2>2. /\ InPlace(new, {}, {r})
        /\ new.restaurants[r] = [db.restaurants[r] EXCEPT !.verified = FALSE, !.open = FALSE]
    BY <1>1, <2>1 DEF OnRecord, InPlace
  <2>3. StoreRow(db.restaurants[r]) => StoreRow(new.restaurants[r]) /\ ~new.restaurants[r].verified
    BY <2>2 DEF StoreRow
  <2>6. ASSUME Waiting(db) PROVE Waiting(new)
    <3>1. StoreRow(db.restaurants[r])
      BY <2>6 DEF Waiting
    <3>2. \A b \in DOMAIN db.vendors :
              new.restaurants[db.vendors[b].restaurant].verified => new.vendors[b].status # "PENDING"
      BY <2>2, <2>3, <2>6, <3>1 DEF Waiting, InPlace
    <3> QED BY <2>2, <2>3, <2>6, <3>1, <3>2, InPlaceWaits
  <2>4. StoresKept(new)
    BY <2>2, <2>6 DEF StoresKept, InPlace
  <2>5. Joining(new)
    BY <2>2, NobodyJoins DEF InPlace
  <2> QED BY <2>4, <2>5, JoiningBegins
<1> QED BY <1>3, <1>4

\* update_vendor: a record for a store that has none.
LEMMA BusinessApplied ==
    ASSUME IdsAssumption, OnTables(db), NEW r \in DOMAIN db.restaurants,
           NEW new \in Onboarding!_apply_business(db, r)
    PROVE  OnBegins(new, {})
<1> DEFINE aid == Onboarding!Next1("vendors")
           status == IF db.restaurants[r].verified THEN "APPROVED" ELSE "PENDING"
           row == Onboarding!Application(db.restaurants[r].owner, r, status)
<1>1. Joining(db)
  BY NobodyJoins DEF OnTables
<1>2. /\ \A a \in DOMAIN db.vendors : db.vendors[a].restaurant # r
      /\ new \in Onboarding!Insert(db, "vendors", row)
  BY DEF Onboarding!_apply_business, Onboarding!_partner_record
<1>3. /\ Joining(new) /\ new.restaurants = db.restaurants /\ aid \notin DOMAIN db.vendors
      /\ IsAdd(new.vendors, db.vendors, aid, row)
  BY <1>1, <1>2, RecordAdded
<1>4. /\ VendorRow(row) /\ row.restaurant = r
      /\ db.restaurants[r].verified => row.status # "PENDING"
  BY DEF Onboarding!Application, VendorRow
<1> HIDE DEF aid, row
<1>5. /\ \A x : x \in DOMAIN new.vendors <=> x \in DOMAIN db.vendors \/ x = aid
      /\ new.vendors[aid] = row
      /\ \A x \in DOMAIN db.vendors : new.vendors[x] = db.vendors[x]
  BY <1>3 DEF IsAdd
<1>6. Waiting(db) => Waiting(new)
  BY <1>2, <1>3, <1>4, <1>5 DEF Waiting
<1>7. StoresKept(new)
  BY <1>5, <1>6 DEF StoresKept
<1> QED BY <1>3, <1>7, JoiningBegins

\* update_vendor: the owner's address.
LEMMA OwnerApplied ==
    ASSUME OnTables(db), NEW r \in DOMAIN db.restaurants, NEW e,
           NEW new \in Onboarding!_apply_owner(db, r, e)
    PROVE  OnBegins(new, {})
<1> DEFINE o == db.restaurants[r].owner
<1>1. OnRecord(db) /\ \A u \in DOMAIN db.users : UserRow(db.users[u])
  BY DEF OnTables
<1>2. new = [db EXCEPT !.users[o].email = e]
  BY DEF Onboarding!_apply_owner
<1>3. /\ OnRecord(new) /\ new.riders = db.riders /\ new.invitations = db.invitations
      /\ new.vendors = db.vendors /\ new.restaurants = db.restaurants
      /\ DOMAIN new.users = DOMAIN db.users
      /\ \A u \in DOMAIN db.users : u # o => new.users[u] = db.users[u]
      /\ o \in DOMAIN db.users => new.users[o] = [db.users[o] EXCEPT !.email = e]
  BY <1>1, <1>2 DEF OnRecord
<1>4. o \in DOMAIN db.users => UserRow(new.users[o]) /\ new.users[o].role = db.users[o].role
  BY <1>1, <1>3 DEF UserRow
<1>5. UsersGrown(db, new)
  BY <1>1, <1>3, <1>4 DEF UsersGrown
<1>6. Joining(new) /\ StoresKept(new)
  BY <1>3, <1>5, NoStore DEF Joining
<1> QED BY <1>6, JoiningBegins

\* POST /admin/restaurants/{id}/verify asks no application.
LEMMA VerifiedBegins ==
    ASSUME OnTables(db), NEW r \in DOMAIN db.restaurants, NEW verified \in BOOLEAN, ~Asked,
           NEW new \in Onboarding!set_verified(db, r, verified)
    PROVE  OnBegins(new, {})
<1>1. OnRecord(db)
  BY DEF OnTables
<1>2. new = [db EXCEPT !.restaurants[r].verified = verified,
                       !.restaurants[r].open = IF verified THEN db.restaurants[r].open ELSE FALSE]
  BY DEF Onboarding!set_verified
<1>3. /\ OnRecord(new) /\ new.riders = db.riders /\ new.invitations = db.invitations
      /\ new.vendors = db.vendors /\ new.users = db.users
  BY <1>1, <1>2 DEF OnRecord
<1>4. Joining(new) /\ StoresKept(new)
  BY <1>3, NobodyJoins DEF StoresKept
<1> QED BY <1>4, JoiningBegins

\* One row is decided.
LEMMA DecidedBegins ==
    ASSUME OnTables(db), NEW t \in Decided, NEW a \in DOMAIN db[t], NEW holds, NEW new,
           OnRecord(new), UsersGrown(db, new),
           \A u \in DOMAIN new.users : u \notin DOMAIN db.users => u \in Fresh("users", Rows),
           \A v \in Decided : v # t => new[v] = db[v],
           DOMAIN new[t] = DOMAIN db[t], \A b \in DOMAIN db[t] : b # a => new[t][b] = db[t][b],
           Decides(db, new, holds, t, a),
           new.vendors = db.vendors, new.restaurants = db.restaurants
    PROVE  OnBegins(new, holds)
<1>1. OnRecord(db)
  BY DEF OnTables
<1>2. \A v \in Decided : \A b \in DOMAIN db[v] :
          b \in DOMAIN new[v] /\ (new[v][b] = db[v][b] \/ Decides(db, new, holds, v, b))
  OBVIOUS
<1>3. \A v \in Decided : \A b \in DOMAIN new[v] : b \in DOMAIN db[v]
  OBVIOUS
<1>4. \A v \in Decided : \A b \in DOMAIN db[v] : new[v][b] # db[v][b] => v = t /\ b = a
  OBVIOUS
<1>5. OnWork(db, new, holds)
  BY <1>1, <1>2, <1>3, <1>4 DEF OnWork
<1>6. StoresKept(new)
  BY NoStore
<1> QED BY <1>3, <1>5, <1>6 DEF OnBegins

\* An application or an invitation comes in; those it replaces are revoked.
LEMMA AskedBegins ==
    ASSUME IdsAssumption, OnTables(db), NEW t \in Decided, NEW d, OnRecord(d),
           \A v \in OnTable : v # t => d[v] = db[v],
           DOMAIN d[t] = DOMAIN db[t], NEW holds,
           \A a \in DOMAIN db[t] : d[t][a] # db[t][a] =>
               /\ <<t, a>> \in holds /\ db[t][a].status = "PENDING"
               /\ DecidedRow(d[t][a]) /\ d[t][a].status = "REVOKED",
           NEW e, NEW new \in Onboarding!Insert(d, t, [email |-> e, status |-> "PENDING", account |-> 0])
    PROVE  OnBegins(new, holds)
<1> DEFINE id == Onboarding!Next1(t)
           row == [email |-> e, status |-> "PENDING", account |-> 0]
<1>1. OnRecord(db) /\ t \in OnTable
  BY DEF OnTables, Decided, OnTable
<1>2. /\ OnRecord(new) /\ id \in Fresh(t, Rows) /\ id \notin DOMAIN db[t]
      /\ IsAdd(new[t], d[t], id, row)
      /\ \A v \in OnTable : v # t => new[v] = d[v]
  BY <1>1, Inserted
<1>3. DecidedRow(row) /\ row.status = "PENDING"
  BY DEF DecidedRow
<1> HIDE DEF id, row
<1>4. /\ \A k : k \in DOMAIN new[t] <=> k \in DOMAIN db[t] \/ k = id
      /\ new[t][id] = row /\ \A k \in DOMAIN db[t] : new[t][k] = d[t][k]
  BY <1>2 DEF IsAdd
<1>5. \A v \in OnTable : v # t => new[v] = db[v]
  BY <1>2
<1>6. t # "users" /\ t # "vendors" /\ t # "restaurants"
  BY DEF Decided
<1>7. new.users = db.users /\ new.vendors = db.vendors /\ new.restaurants = db.restaurants
  BY <1>5, <1>6 DEF OnTable
<1>8. \A v \in Decided : v # t => new[v] = db[v]
  BY <1>5 DEF OnTable, Decided
<1>9. UsersGrown(db, new)
  BY <1>7 DEF UsersGrown, OnTables
<1>10. "REVOKED" # Given(t)
  BY DEF Given
<1>11. ASSUME NEW a \in DOMAIN db[t], new[t][a] # db[t][a]
       PROVE  Decides(db, new, holds, t, a) /\ new[t][a].status # Given(t)
  BY <1>4, <1>10, <1>11 DEF Decides
<1>12. \A v \in Decided : \A a \in DOMAIN db[v] :
          a \in DOMAIN new[v] /\ (new[v][a] = db[v][a] \/ Decides(db, new, holds, v, a))
  BY <1>4, <1>8, <1>11
<1>13. \A v \in Decided : \A a \in DOMAIN new[v] :
          a \notin DOMAIN db[v] => DecidedRow(new[v][a]) /\ new[v][a].status = "PENDING" /\ a \in Fresh(v, Rows)
  BY <1>2, <1>3, <1>4, <1>8
<1>14. \A v \in Decided : \A a \in DOMAIN db[v] :
          new[v][a] # db[v][a] => new[v][a].status # Given(v)
  BY <1>8, <1>11
<1>15. OnWork(db, new, holds)
  BY <1>1, <1>2, <1>9, <1>12, <1>13, <1>14 DEF OnWork
<1>16. StoresKept(new)
  BY <1>7, NoStore
<1> QED BY <1>7, <1>13, <1>15, <1>16 DEF OnBegins

LEMMA RiderAsks ==
    ASSUME IdsAssumption, OnTables(db), NEW e, NEW new \in Onboarding!rider_submit(db, e)
    PROVE  OnBegins(new, {})
<1>1. new \in Onboarding!Insert(db, "riders", [email |-> e, status |-> "PENDING", account |-> 0])
  BY DEF Onboarding!rider_submit
<1>2. OnRecord(db) /\ "riders" \in Decided
  BY DEF OnTables, Decided
<1> QED BY <1>1, <1>2, AskedBegins

LEMMA RiderJudged ==
    ASSUME IdsAssumption, OnTables(db), NEW a \in DOMAIN db.riders,
           NEW new \in Onboarding!rider_approve(db, a) \cup Onboarding!rider_reject(db, a)
    PROVE  OnBegins(new, Onboarding!Judging(a))
<1> DEFINE holds == Onboarding!Judging(a)
           uid == Onboarding!Next1("users")
<1>1. /\ <<"riders", a>> \in holds /\ db.riders[a].status = "PENDING" /\ OnRecord(db)
      /\ DecidedRow(db.riders[a]) /\ "riders" \in Decided
      /\ \A u \in DOMAIN db.users : UserRow(db.users[u])
  BY Zenon DEF Onboarding!Judging, Onboarding!rider_approve, Onboarding!rider_reject, OnTables, Decided
<1> HIDE DEF holds
<1>2. CASE new \in Onboarding!rider_reject(db, a)
  <2>1. new = [db EXCEPT !.riders[a].status = "REJECTED"]
    BY <1>2 DEF Onboarding!rider_reject
  <2>2. /\ OnRecord(new) /\ new.users = db.users /\ new.invitations = db.invitations
        /\ new.vendors = db.vendors /\ new.restaurants = db.restaurants
        /\ DOMAIN new.riders = DOMAIN db.riders
        /\ \A b \in DOMAIN db.riders : b # a => new.riders[b] = db.riders[b]
        /\ new.riders[a] = [db.riders[a] EXCEPT !.status = "REJECTED"]
    BY <1>1, <2>1 DEF OnRecord
  <2>3. DecidedRow(new.riders[a]) /\ new.riders[a].status = "REJECTED"
    BY <1>1, <2>2 DEF DecidedRow
  <2>4. Decides(db, new, holds, "riders", a)
    BY <1>1, <2>3 DEF Decides, Given
  <2>5. UsersGrown(db, new)
    BY <1>1, <2>2 DEF UsersGrown
  <2>6. OnBegins(new, holds)
    BY <1>1, <2>2, <2>4, <2>5, DecidedBegins DEF Decided
  <2> QED BY <2>6 DEF holds
<1>3. CASE new \in Onboarding!rider_approve(db, a)
  <2>1. PICK x \in Onboarding!create_rider(db, db.riders[a].email) :
            new = [x EXCEPT !.riders[a].status = "APPROVED", !.riders[a].account = uid]
    BY <1>1, <1>3, Zenon DEF Onboarding!rider_approve
  <2>2. /\ Joining(x) /\ x.restaurants = db.restaurants /\ x.vendors = db.vendors
        /\ uid \in DOMAIN x.users /\ uid \notin DOMAIN db.users /\ x.users[uid].role = "RIDER"
    BY UserAdded DEF Onboarding!create_rider
  <2> HIDE DEF uid
  <2>3. /\ OnRecord(new) /\ new.users = x.users /\ new.invitations = db.invitations
        /\ new.vendors = db.vendors /\ new.restaurants = db.restaurants
        /\ DOMAIN new.riders = DOMAIN db.riders
        /\ \A b \in DOMAIN db.riders : b # a => new.riders[b] = db.riders[b]
        /\ new.riders[a] = [db.riders[a] EXCEPT !.status = "APPROVED", !.account = uid]
    BY <1>1, <2>1, <2>2 DEF OnRecord, Joining
  <2>4. DecidedRow(new.riders[a]) /\ new.riders[a].account = uid
    BY <1>1, <2>3 DEF DecidedRow
  <2>5. Decides(db, new, holds, "riders", a)
    BY <1>1, <2>2, <2>3, <2>4 DEF Decides, RoleFor
  <2>6. UsersGrown(db, new) /\ \A u \in DOMAIN new.users : u \notin DOMAIN db.users => u \in Fresh("users", Rows)
    BY <2>2, <2>3 DEF UsersGrown, Joining
  <2>7. OnBegins(new, holds)
    BY <1>1, <2>3, <2>5, <2>6, DecidedBegins DEF Decided
  <2> QED BY <2>7 DEF holds
<1> QED BY <1>2, <1>3

\* The earlier invitations of the address are revoked.
LEMMA InviteBegins ==
    ASSUME IdsAssumption, OnTables(db), NEW e, NEW new \in Onboarding!invite(db, e)
    PROVE  OnBegins(new, UNION {Onboarding!Using(i) : i \in Onboarding!Invited(db, e)})
<1> DEFINE I == Onboarding!Invited(db, e)
           holds == UNION {Onboarding!Using(i) : i \in I}
           revoked == [i \in DOMAIN db.invitations |->
                          IF i \in I THEN [db.invitations[i] EXCEPT !.status = "REVOKED"] ELSE db.invitations[i]]
           d == [db EXCEPT !.invitations = revoked]
<1>1. new \in Onboarding!Insert([db EXCEPT !.invitations = Onboarding!Change(db.invitations, I,
                                      LAMBDA row : [row EXCEPT !.status = "REVOKED"])],
                  "invitations", [email |-> e, status |-> "PENDING", account |-> 0])
  BY DEF Onboarding!invite
<1>2. \A i \in I : <<"invitations", i>> \in holds /\ db.invitations[i].status = "PENDING"
  BY DEF Onboarding!Using, Onboarding!Invited
<1> HIDE DEF I, holds
<1>3. new \in Onboarding!Insert(d, "invitations", [email |-> e, status |-> "PENDING", account |-> 0])
  BY <1>1 DEF Onboarding!Change
<1>4. OnRecord(db) /\ \A i \in DOMAIN db.invitations : DecidedRow(db.invitations[i])
  BY DEF OnTables, Decided
<1>5. /\ OnRecord(d) /\ d.users = db.users /\ d.restaurants = db.restaurants /\ d.vendors = db.vendors
      /\ d.riders = db.riders /\ d.expired = db.expired /\ d.invitations = revoked
  BY <1>4 DEF OnRecord
<1> HIDE DEF d
<1>6. ASSUME NEW i \in DOMAIN db.invitations, d.invitations[i] # db.invitations[i]
      PROVE  /\ <<"invitations", i>> \in holds /\ db.invitations[i].status = "PENDING"
             /\ DecidedRow(d.invitations[i]) /\ d.invitations[i].status = "REVOKED"
  <2>1. i \in I /\ d.invitations[i] = [db.invitations[i] EXCEPT !.status = "REVOKED"]
    BY <1>5, <1>6
  <2> QED BY <1>2, <1>4, <2>1 DEF DecidedRow
<1>7. DOMAIN d.invitations = DOMAIN db.invitations
  BY <1>5
<1> HIDE DEF revoked
<1>8. "invitations" \in Decided /\ \A v \in OnTable : v # "invitations" => d[v] = db[v]
  BY <1>5 DEF Decided, OnTable
<1>9. OnBegins(new, holds)
  BY <1>3, <1>5, <1>6, <1>7, <1>8, AskedBegins
<1> QED BY <1>9 DEF holds, I

\* An invitation is revoked, or is accepted.
LEMMA InvitationEnds ==
    ASSUME OnTables(db), NEW i \in DOMAIN db.invitations, db.invitations[i].status = "PENDING",
           NEW holds, <<"invitations", i>> \in holds,
           NEW new, new = [db EXCEPT !.invitations[i].status = "REVOKED"]
    PROVE  OnBegins(new, holds)
<1>1. /\ OnRecord(db) /\ DecidedRow(db.invitations[i]) /\ "invitations" \in Decided
      /\ \A u \in DOMAIN db.users : UserRow(db.users[u])
  BY DEF OnTables, Decided
<1>2. /\ OnRecord(new) /\ new.users = db.users /\ new.riders = db.riders
      /\ new.vendors = db.vendors /\ new.restaurants = db.restaurants
      /\ DOMAIN new.invitations = DOMAIN db.invitations
      /\ \A b \in DOMAIN db.invitations : b # i => new.invitations[b] = db.invitations[b]
      /\ new.invitations[i] = [db.invitations[i] EXCEPT !.status = "REVOKED"]
  BY <1>1 DEF OnRecord
<1>3. DecidedRow(new.invitations[i]) /\ new.invitations[i].status = "REVOKED"
  BY <1>1, <1>2 DEF DecidedRow
<1>4. Decides(db, new, holds, "invitations", i)
  BY <1>3 DEF Decides, Given
<1>5. UsersGrown(db, new)
  BY <1>1, <1>2 DEF UsersGrown
<1> QED BY <1>1, <1>2, <1>4, <1>5, DecidedBegins DEF Decided

LEMMA InvitationUsed ==
    ASSUME IdsAssumption, OnTables(db), NEW i \in DOMAIN db.invitations,
           NEW new \in Onboarding!revoke(db, i) \cup Onboarding!accept(db, i)
    PROVE  OnBegins(new, Onboarding!Using(i))
<1> DEFINE holds == Onboarding!Using(i)
           uid == Onboarding!Next1("users")
<1>1. /\ <<"invitations", i>> \in holds /\ db.invitations[i].status = "PENDING" /\ OnRecord(db)
      /\ DecidedRow(db.invitations[i]) /\ "invitations" \in Decided
  BY Zenon DEF Onboarding!Using, Onboarding!revoke, Onboarding!accept, Onboarding!Usable, OnTables, Decided
<1> HIDE DEF holds
<1>2. CASE new \in Onboarding!revoke(db, i)
  <2>1. new = [db EXCEPT !.invitations[i].status = "REVOKED"]
    BY <1>2 DEF Onboarding!revoke
  <2>2. OnBegins(new, holds)
    BY <1>1, <2>1, InvitationEnds
  <2> QED BY <2>2 DEF holds
<1>3. CASE new \in Onboarding!accept(db, i)
  <2>1. PICK x \in Onboarding!Insert(db, "users", [email |-> db.invitations[i].email, role |-> "ADMIN"]) :
            new = [x EXCEPT !.invitations[i].status = "ACCEPTED", !.invitations[i].account = uid]
    BY <1>1, <1>3, Zenon DEF Onboarding!accept, Onboarding!Usable
  <2>2. /\ Joining(x) /\ x.restaurants = db.restaurants /\ x.vendors = db.vendors
        /\ uid \in DOMAIN x.users /\ uid \notin DOMAIN db.users /\ x.users[uid].role = "ADMIN"
    BY UserAdded
  <2> HIDE DEF uid
  <2>3. /\ OnRecord(new) /\ new.users = x.users /\ new.riders = db.riders
        /\ new.vendors = db.vendors /\ new.restaurants = db.restaurants
        /\ DOMAIN new.invitations = DOMAIN db.invitations
        /\ \A b \in DOMAIN db.invitations : b # i => new.invitations[b] = db.invitations[b]
        /\ new.invitations[i] = [db.invitations[i] EXCEPT !.status = "ACCEPTED", !.account = uid]
    BY <1>1, <2>1, <2>2 DEF OnRecord, Joining
  <2>4. DecidedRow(new.invitations[i]) /\ new.invitations[i].account = uid
    BY <1>1, <2>3 DEF DecidedRow
  <2>5. Decides(db, new, holds, "invitations", i)
    BY <1>1, <2>2, <2>3, <2>4 DEF Decides, RoleFor
  <2>6. UsersGrown(db, new) /\ \A u \in DOMAIN new.users : u \notin DOMAIN db.users => u \in Fresh("users", Rows)
    BY <2>2, <2>3 DEF UsersGrown, Joining
  <2>7. OnBegins(new, holds)
    BY <1>1, <2>3, <2>5, <2>6, DecidedBegins DEF Decided
  <2> QED BY <2>7 DEF holds
<1> QED BY <1>2, <1>3

LEMMA OnMerged ==
    ASSUME OnRecord(db), NEW r, OnRecord(r.seen), OnRecord(r.new)
    PROVE  /\ OnRecord(Flushed(r))
           /\ \A t \in OnTable : IsMerge(Flushed(r)[t], db[t], r.seen[t], r.new[t])
<1> DEFINE d == Flushed(r)
<1>1. DOMAIN db = OnTable
  BY DEF OnRecord, OnTable
<1>2. d = [t \in OnTable |-> Merged(db[t], r.seen[t], r.new[t])]
  BY <1>1 DEF Flushed
<1>3. OnRecord(d)
  BY <1>2 DEF OnRecord, OnTable
<1>4. \A t \in OnTable : d[t] = Merged(db[t], r.seen[t], r.new[t])
  BY <1>2
<1> QED BY <1>3, <1>4, MergedRows

LEMMA UserColumns ==
    ASSUME NEW row, UserRow(row)
    PROVE  DOMAIN row = {"email", "role"}
BY DEF UserRow

\* A flush opens the new accounts, decides what was locked, and leaves the rest.
LEMMA OnFlushed ==
    ASSUME OnTables(db), NEW r, OnWork(r.seen, r.new, r.holds), OnStands(r, db)
    PROVE  OnTables(Flushed(r)) /\ Standing(Flushed(r))
<1> DEFINE d == Flushed(r)
           S == r.seen
           N == r.new
<1>1. /\ OnRecord(d) /\ \A t \in {"users"} \cup Decided : IsMerge(d[t], db[t], S[t], N[t])
  BY OnMerged DEF OnTables, OnWork, OnTable, Decided
<1> HIDE DEF d
<1>2. /\ \A u \in DOMAIN S.users : /\ u \in DOMAIN N.users /\ u \in DOMAIN db.users
                                   /\ N.users[u].role = S.users[u].role
      /\ \A u \in DOMAIN N.users : u \notin DOMAIN S.users => u \notin DOMAIN db.users /\ UserRow(N.users[u])
      /\ \A u \in DOMAIN db.users : UserRow(db.users[u])
  BY DEF OnWork, OnStands, OnTables, UsersGrown
<1>3. IsMerge(d.users, db.users, S.users, N.users)
  BY <1>1
<1>4. ASSUME NEW u \in DOMAIN db.users
      PROVE  u \in DOMAIN d.users /\ UserRow(d.users[u]) /\ d.users[u].role = db.users[u].role
  <2>1. CASE u \in DOMAIN S.users
    <3>1. u \in DOMAIN d.users /\ d.users[u] = Column(db.users[u], S.users[u], N.users[u])
      BY <1>2, <1>3, <2>1 DEF IsMerge
    <3>2. DOMAIN db.users[u] = {"email", "role"}
      BY <1>2, UserColumns
    <3> DEFINE C == Column(db.users[u], S.users[u], N.users[u])
    <3>3. C = [email |-> C.email, role |-> C.role]
      BY <3>2 DEF Column
    <3>4. C.role = db.users[u].role
      BY <1>2, <2>1, <3>2 DEF Column
    <3> HIDE DEF C
    <3> QED BY <3>1, <3>3, <3>4 DEF UserRow, C
  <2>2. CASE u \notin DOMAIN S.users
    BY <1>2, <1>3, <2>2 DEF IsMerge
  <2> QED BY <2>1, <2>2
<1>5. ASSUME NEW u \in DOMAIN N.users, u \notin DOMAIN S.users
      PROVE  u \in DOMAIN d.users /\ d.users[u] = N.users[u] /\ UserRow(d.users[u])
  BY <1>2, <1>3, <1>5 DEF IsMerge
<1>6. \A u \in DOMAIN d.users : UserRow(d.users[u])
  <2> TAKE u \in DOMAIN d.users
  <2>1. u \in DOMAIN db.users \/ (u \in DOMAIN N.users /\ u \notin DOMAIN S.users)
    BY <1>3 DEF IsMerge
  <2> QED BY <1>4, <1>5, <2>1
<1>7. ASSUME NEW t \in Decided, NEW a \in DOMAIN db[t]
      PROVE  /\ a \in DOMAIN d[t]
             /\ \/ d[t][a] = db[t][a]
                \/ /\ a \in DOMAIN S[t] /\ db[t][a] = S[t][a] /\ d[t][a] = N[t][a] /\ N[t][a] # S[t][a]
                   /\ Decides(S, N, r.holds, t, a)
  <2>1. IsMerge(d[t], db[t], S[t], N[t]) /\ DecidedRow(db[t][a])
    BY <1>1 DEF OnTables
  <2>2. a \in DOMAIN S[t] <=> a \in DOMAIN N[t]
    BY DEF OnWork, OnStands
  <2>3. db[t][a] = [c \in DOMAIN db[t][a] |-> db[t][a][c]]
    BY <2>1 DEF DecidedRow
  <2>4. CASE a \in DOMAIN S[t] => N[t][a] = S[t][a]
    BY <2>1, <2>2, <2>3, <2>4, UnwrittenRows
  <2>5. CASE a \in DOMAIN S[t] /\ N[t][a] # S[t][a]
    <3>1. Decides(S, N, r.holds, t, a)
      BY <2>5 DEF OnWork
    <3>2. db[t][a] = S[t][a] /\ DecidedRow(N[t][a])
      BY <2>5, <3>1 DEF OnStands, Decides
    <3>3. N[t][a] = [c \in DOMAIN db[t][a] |-> N[t][a][c]]
      BY <2>1, <3>2 DEF DecidedRow
    <3> QED BY <2>1, <2>2, <2>5, <3>1, <3>2, <3>3, HeldRows
  <2> QED BY <2>4, <2>5
<1>8. ASSUME NEW t \in Decided, NEW a \in DOMAIN d[t], a \notin DOMAIN db[t]
      PROVE  DecidedRow(d[t][a]) /\ d[t][a].status = "PENDING"
  <2>1. IsMerge(d[t], db[t], S[t], N[t])
    BY <1>1
  <2>2. a \in DOMAIN N[t] /\ a \notin DOMAIN S[t] /\ d[t][a] = N[t][a]
    BY <1>8, <2>1 DEF IsMerge
  <2> QED BY <2>2 DEF OnWork
<1>9. \A t \in Decided : Given(t) # "PENDING"
  BY DEF Given
\* What is given: an account there was, or one the request opens.
<1>10. ASSUME NEW t \in Decided, NEW a \in DOMAIN d[t], d[t][a].status = Given(t)
       PROVE  /\ a \in DOMAIN db[t]
              /\ \/ d[t][a] = db[t][a] /\ d[t][a].account \in DOMAIN db.users
                 \/ /\ a \in DOMAIN S[t] /\ N[t][a] # S[t][a] /\ N[t][a].status = Given(t) /\ d[t][a] = N[t][a]
                    /\ d[t][a].account \in DOMAIN N.users /\ d[t][a].account \notin DOMAIN S.users
              /\ d[t][a].account \in DOMAIN d.users /\ d.users[d[t][a].account].role = RoleFor(t)
  <2>1. a \in DOMAIN db[t]
    BY <1>8, <1>9, <1>10
  <2>2. CASE d[t][a] = db[t][a]
    <3>1. db[t][a].account \in DOMAIN db.users /\ db.users[db[t][a].account].role = RoleFor(t)
      BY <1>10, <2>1, <2>2 DEF OnTables
    <3> QED BY <1>4, <2>1, <2>2, <3>1
  <2>3. CASE d[t][a] # db[t][a]
    <3>1. /\ a \in DOMAIN S[t] /\ d[t][a] = N[t][a] /\ N[t][a] # S[t][a]
          /\ Decides(S, N, r.holds, t, a)
      BY <1>7, <2>1, <2>3
    <3>2. /\ N[t][a].account \in DOMAIN N.users /\ N[t][a].account \notin DOMAIN S.users
          /\ N.users[N[t][a].account].role = RoleFor(t)
      BY <1>10, <3>1 DEF Decides
    <3> QED BY <1>5, <1>10, <2>1, <3>1, <3>2
  <2> QED BY <2>2, <2>3
<1>11. ASSUME NEW t \in Decided, NEW a \in DOMAIN d[t], NEW b \in DOMAIN d[t],
              d[t][a].status = Given(t), d[t][b].status = Given(t), d[t][a].account = d[t][b].account
       PROVE  a = b
  <2>1. CASE d[t][a] = db[t][a] /\ d[t][b] = db[t][b]
    BY <1>10, <1>11, <2>1 DEF OnTables
  <2>2. CASE d[t][a] # db[t][a] /\ d[t][b] # db[t][b]
    BY <1>10, <1>11, <2>2 DEF OnWork
  <2>3. \A u \in DOMAIN N.users : u \notin DOMAIN S.users => u \notin DOMAIN db.users
    BY <1>2
  <2>4. ASSUME NEW c \in DOMAIN d[t], d[t][c].status = Given(t), d[t][c] # db[t][c]
        PROVE  d[t][c].account \notin DOMAIN db.users
    <3>1. d[t][c].account \in DOMAIN N.users /\ d[t][c].account \notin DOMAIN S.users
      BY <1>10, <2>4
    <3> QED BY <2>3, <3>1
  <2>5. ASSUME NEW c \in DOMAIN d[t], d[t][c].status = Given(t), d[t][c] = db[t][c]
        PROVE  d[t][c].account \in DOMAIN db.users
    <3>1. c \in DOMAIN db[t] /\ db[t][c].status = Given(t)
      BY <1>10, <2>5
    <3>2. db[t][c].account \in DOMAIN db.users
      BY <3>1 DEF OnTables
    <3> QED BY <2>5, <3>2
  <2>6. d[t][a] = db[t][a] <=> d[t][b] = db[t][b]
    BY <1>11, <2>4, <2>5
  <2> QED BY <2>1, <2>2, <2>6
<1>12. OnTables(d)
  <2>1. \A t \in Decided : \A a \in DOMAIN d[t] : DecidedRow(d[t][a])
    <3> SUFFICES ASSUME NEW t \in Decided, NEW a \in DOMAIN d[t] PROVE DecidedRow(d[t][a])
      OBVIOUS
    <3>1. CASE a \notin DOMAIN db[t]
      BY <1>8, <3>1
    <3>2. CASE a \in DOMAIN db[t]
      BY <1>7, <3>2 DEF Decides, OnTables
    <3> QED BY <3>1, <3>2
  <2> QED BY <1>1, <1>6, <1>10, <1>11, <2>1 DEF OnTables
<1>13. Standing(d)
  <2> SUFFICES ASSUME NEW t \in Decided, NEW a \in DOMAIN db[t]
               PROVE  a \in DOMAIN d[t] /\ (db[t][a].status # "PENDING" => d[t][a] = db[t][a])
    BY DEF Standing
  <2>1. Decides(S, N, r.holds, t, a) => S[t][a].status = "PENDING"
    BY DEF Decides
  <2> QED BY <1>7, <2>1
<1> QED BY <1>12, <1>13 DEF d

\* What a commit leaves to the others: their ids are still free and their locked rows
\* unchanged.
LEMMA OnOthers ==
    ASSUME OnTables(db), NEW r, OnWork(r.seen, r.new, r.holds), OnStands(r, db),
           NEW q, OnStands(q, db), OnApart(q, r)
    PROVE  OnStands(q, Flushed(r))
<1> DEFINE d == Flushed(r)
<1>1. \A t \in {"users"} \cup Decided : IsMerge(d[t], db[t], r.seen[t], r.new[t])
  BY OnMerged DEF OnTables, OnWork, OnTable, Decided
<1> HIDE DEF d
<1>2. \A t \in {"users"} \cup Decided : \A k \in DOMAIN r.seen[t] : k \in DOMAIN r.new[t]
  BY DEF OnWork, UsersGrown
<1>3. ASSUME NEW t \in {"users"} \cup Decided
      PROVE  \A k : k \in DOMAIN d[t] <=> k \in DOMAIN db[t] \/ (k \in DOMAIN r.new[t] /\ k \notin DOMAIN r.seen[t])
  BY <1>1, <1>2 DEF IsMerge
<1>4. ASSUME NEW t \in {"users"} \cup Decided, NEW k \in DOMAIN q.new[t], k \notin DOMAIN q.seen[t]
      PROVE  k \notin DOMAIN d[t]
  BY <1>3, <1>4 DEF OnStands, OnApart
<1>5. ASSUME NEW t \in Decided, NEW a \in DOMAIN q.seen[t], <<t, a>> \in q.holds
      PROVE  d[t][a] = q.seen[t][a]
  <2>1. a \in DOMAIN db[t] /\ db[t][a] = q.seen[t][a]
    BY <1>5 DEF OnStands
  <2>2. <<t, a>> \notin r.holds
    BY <1>5 DEF OnApart
  <2>3. a \in DOMAIN r.seen[t] => r.new[t][a] = r.seen[t][a]
    BY <2>2 DEF OnWork, Decides
  <2>4. a \in DOMAIN r.seen[t] <=> a \in DOMAIN r.new[t]
    BY <1>2, <2>1 DEF OnStands
  <2>8. DecidedRow(db[t][a])
    BY <2>1 DEF OnTables
  <2>5. db[t][a] = [c \in DOMAIN db[t][a] |-> db[t][a][c]]
    BY <2>8 DEF DecidedRow
  <2>6. IsMerge(d[t], db[t], r.seen[t], r.new[t])
    BY <1>1
  <2>7. d[t][a] = db[t][a]
    BY <2>1, <2>3, <2>4, <2>5, <2>6, UnwrittenRows
  <2> QED BY <2>1, <2>7
<1>6. \A t \in {"users"} \cup Decided : \A k \in DOMAIN q.seen[t] : k \in DOMAIN d[t]
  BY <1>3 DEF OnStands
<1>7. OnStands(q, d)
  BY <1>4, <1>5, <1>6 DEF OnStands
<1> QED BY <1>7 DEF d

\* ---- The steps ----
\* What is decided stays decided (the first part of OverIsOver).
LEMMA StandsMeans ==
    ASSUME Standing(db'), InTurn => StoresKept(db')
    PROVE  Onboarding!DecisionsStand
<1>1. \A t \in Decided : \A a \in DOMAIN db[t] : db[t][a].status # "PENDING" => db'[t][a] = db[t][a]
  BY DEF Standing
<1>2. "riders" \in Decided /\ "invitations" \in Decided
  BY DEF Decided
<1>3. \A a \in DOMAIN db.riders : db.riders[a].status # "PENDING" => db'.riders[a] = db.riders[a]
  BY <1>1, <1>2
<1>4. \A a \in DOMAIN db.invitations :
          db.invitations[a].status # "PENDING" => db'.invitations[a] = db.invitations[a]
  BY <1>1, <1>2
<1> QED BY <1>3, <1>4, OnboardingIsDesk DEF StoresKept, Onboarding!DecisionsStand

\* A request whose result is written at once.
LEMMA OnWritten ==
    ASSUME OnTables(db), NEW new, NEW holds, OnWork(db, new, holds)
    PROVE  OnTables(new) /\ Standing(new)
<1>1. /\ OnRecord(new) /\ UsersGrown(db, new)
      /\ \A t \in Decided : \A a \in DOMAIN db[t] :
            a \in DOMAIN new[t] /\ (new[t][a] = db[t][a] \/ Decides(db, new, holds, t, a))
      /\ \A t \in Decided : \A a \in DOMAIN new[t] :
            a \notin DOMAIN db[t] => DecidedRow(new[t][a]) /\ new[t][a].status = "PENDING"
  BY DEF OnWork
<1>2. \A t \in Decided : Given(t) # "PENDING"
  BY DEF Given
<1>3. ASSUME NEW t \in Decided, NEW a \in DOMAIN new[t]
      PROVE  DecidedRow(new[t][a])
  BY <1>1 DEF OnTables, Decides
<1>4. ASSUME NEW t \in Decided, NEW a \in DOMAIN new[t], new[t][a].status = Given(t)
      PROVE  /\ a \in DOMAIN db[t]
             /\ \/ new[t][a] = db[t][a] /\ new[t][a].account \in DOMAIN db.users
                \/ new[t][a] # db[t][a] /\ new[t][a].account \notin DOMAIN db.users
             /\ new[t][a].account \in DOMAIN new.users /\ new.users[new[t][a].account].role = RoleFor(t)
  <2>1. a \in DOMAIN db[t]
    BY <1>1, <1>2, <1>4
  <2>2. CASE new[t][a] = db[t][a]
    BY <1>1, <1>4, <2>1, <2>2 DEF OnTables, UsersGrown
  <2>3. CASE new[t][a] # db[t][a]
    BY <1>1, <1>4, <2>1, <2>3 DEF Decides
  <2> QED BY <2>1, <2>2, <2>3
<1>5. ASSUME NEW t \in Decided, NEW a \in DOMAIN new[t], NEW b \in DOMAIN new[t],
             new[t][a].status = Given(t), new[t][b].status = Given(t), new[t][a].account = new[t][b].account
      PROVE  a = b
  <2>1. a \in DOMAIN db[t] /\ b \in DOMAIN db[t]
    BY <1>4, <1>5
  <2>2. CASE new[t][a] = db[t][a] /\ new[t][b] = db[t][b]
    BY <1>5, <2>1, <2>2 DEF OnTables
  <2>3. CASE new[t][a] # db[t][a] /\ new[t][b] # db[t][b]
    BY <1>5, <2>1, <2>3 DEF OnWork
  <2>4. CASE (new[t][a] = db[t][a]) # (new[t][b] = db[t][b])
    BY <1>4, <1>5, <2>4
  <2> QED BY <2>2, <2>3, <2>4
<1>6. OnTables(new)
  BY <1>1, <1>3, <1>4, <1>5 DEF OnTables, UsersGrown
<1>7. Standing(new)
  BY <1>1 DEF Standing, Decides
<1> QED BY <1>6, <1>7

LEMMA OnServed ==
    ASSUME OnInv, NEW s \in Clerks, NEW call, NEW holds, NEW results,
           \A new \in results : OnBegins(new, holds),
           Onboarding!ServeHolding(s, call, holds, results, Onboarding!Settle)
    PROVE  OnStep
<1>1. /\ txn = [u \in Clerks |-> txn[u]] /\ OnTables(db) /\ OnOpen
      /\ InTurn => NoneOpen /\ (Asked => Waiting(db))
  BY DEF OnInv
<1>2. /\ script' = script
      /\ \A row \in holds : ~Locked(s, row)
      /\ \/ /\ ~InTurn /\ db' = db
            /\ \E new \in results : txn' = [txn EXCEPT ![s] = [seen |-> db, new |-> new, holds |-> holds]]
         \/ /\ InTurn /\ txn' = txn
            /\ \E new \in results : db' = new
  BY OnboardingIsDesk DEF Onboarding!ServeHolding, Onboarding!Settle, InTurn
<1>3. (InTurn' <=> InTurn) /\ (Asked' <=> Asked)
  BY <1>2 DEF InTurn, Asked
<1>4. CASE InTurn
  <2>1. OnBegins(db', holds) /\ txn' = txn
    BY <1>2, <1>4
  <2>2. OnTables(db') /\ Standing(db') /\ StoresKept(db')
    BY <1>1, <1>4, <2>1, OnWritten DEF OnBegins
  <2>3. Asked => Waiting(db')
    BY <1>1, <1>4, <2>2 DEF StoresKept
  <2>4. (txn = [u \in Clerks |-> txn[u]])' /\ OnOpen' /\ NoneOpen'
    BY <1>1, <1>4, <2>1 DEF OnOpen, NoneOpen
  <2> QED BY <1>3, <2>2, <2>3, <2>4, StandsMeans DEF OnStep, OnInv
<1>5. CASE ~InTurn
  <2>1. PICK new \in results : txn' = [txn EXCEPT ![s] = [seen |-> db, new |-> new, holds |-> holds]]
    BY <1>2, <1>5
  <2>2. OnBegins(new, holds) /\ db' = db
    BY <1>2, <1>5
  <2> DEFINE r == [seen |-> db, new |-> new, holds |-> holds]
  <2>3. /\ txn' = [u \in Clerks |-> txn'[u]] /\ txn'[s] = r
        /\ \A u \in Clerks : u # s => txn'[u] = txn[u]
    BY <1>1, <2>1
  <2>4. r.seen = db /\ r.new = new /\ r.holds = holds
    OBVIOUS
  <2> HIDE DEF r
  <2>5. \A t \in {"users"} \cup Decided : t \in DOMAIN db
    BY <1>1 DEF OnTables, OnRecord, Decided
  <2>6. OnWork(r.seen, r.new, r.holds) /\ OnStands(r, db)
    <3>1. OnWork(db, new, holds)
      BY <2>2 DEF OnBegins
    <3> QED BY <2>4, <3>1 DEF OnStands
  <2>7. ASSUME NEW u \in Clerks, u # s, txn[u] # None
        PROVE  OnApart(txn[u], r) /\ OnApart(r, txn[u])
    <3>1. \A t \in {"users"} \cup Decided : \A k \in DOMAIN new[t] :
              k \notin DOMAIN db[t] => k \notin DOMAIN txn[u].new[t]
      BY <2>2, <2>5, <2>7, FreshIds DEF OnBegins
    <3>2. holds \cap txn[u].holds = {}
      BY <1>2, <2>7 DEF Locked
    <3> QED BY <2>4, <3>1, <3>2 DEF OnApart
  <2>8. OnOpen'
    BY <1>1, <2>2, <2>3, <2>6, <2>7 DEF OnOpen
  <2>9. Standing(db')
    BY <2>2 DEF Standing
  <2> QED BY <1>1, <1>3, <1>5, <2>2, <2>3, <2>8, <2>9, StandsMeans DEF OnStep, OnInv
<1> QED BY <1>4, <1>5

LEMMA OnCommitted ==
    ASSUME OnInv, NEW s \in Clerks, Onboarding!Commit(s, Onboarding!Settle)
    PROVE  OnStep
<1> DEFINE r == txn[s]
<1>1. /\ txn = [u \in Clerks |-> txn[u]] /\ OnTables(db) /\ OnOpen /\ r # None
      /\ InTurn => NoneOpen
  BY DEF OnInv, Onboarding!Commit
<1>2. script' = script /\ txn' = [txn EXCEPT ![s] = None] /\ db' = Flushed(r)
  BY OnboardingIsDesk DEF Onboarding!Commit, Onboarding!Settle, Flushed
<1>3. ~InTurn /\ ~InTurn'
  BY <1>1, <1>2 DEF NoneOpen, InTurn
<1>4. OnWork(r.seen, r.new, r.holds) /\ OnStands(r, db)
  BY <1>1 DEF OnOpen
<1>5. OnTables(db') /\ Standing(db')
  BY <1>1, <1>2, <1>4, OnFlushed
<1>6. ASSUME NEW u \in Clerks, u # s, txn[u] # None PROVE OnStands(txn[u], db')
  <2>1. OnStands(txn[u], db) /\ OnApart(txn[u], r)
    BY <1>1, <1>6 DEF OnOpen
  <2> QED BY <1>1, <1>2, <1>4, <2>1, OnOthers
<1>7. /\ txn' = [u \in Clerks |-> txn'[u]] /\ txn'[s] = None
      /\ \A u \in Clerks : u # s => txn'[u] = txn[u]
  BY <1>1, <1>2
<1>8. OnOpen'
  BY <1>1, <1>6, <1>7 DEF OnOpen
<1> QED BY <1>3, <1>5, <1>7, <1>8, StandsMeans DEF OnStep, OnInv

LEMMA OnAborted ==
    ASSUME OnInv, NEW s \in Clerks, Onboarding!Abort(s)
    PROVE  OnStep
<1>1. /\ txn = [u \in Clerks |-> txn[u]] /\ OnTables(db) /\ OnOpen
      /\ InTurn => NoneOpen /\ (Asked => Waiting(db))
      /\ txn' = [txn EXCEPT ![s] = None] /\ db' = db /\ script' = script
  BY DEF OnInv, Onboarding!Abort
<1>2. /\ txn' = [u \in Clerks |-> txn'[u]] /\ txn'[s] = None
      /\ \A u \in Clerks : u # s => txn'[u] = txn[u]
  BY <1>1
<1>3. OnOpen' /\ (NoneOpen => NoneOpen')
  BY <1>1, <1>2 DEF OnOpen, NoneOpen
<1>4. Standing(db') /\ StoresKept(db')
  BY <1>1 DEF Standing, StoresKept
<1> QED BY <1>1, <1>2, <1>3, <1>4, StandsMeans DEF OnStep, OnInv, InTurn, Asked

\* The day of an invitation ends, whoever holds its row.
LEMMA OnExpired ==
    ASSUME OnInv, Onboarding!Statement("expire", Onboarding!expire(db), Onboarding!Settle)
    PROVE  OnStep
<1>1. /\ txn = [u \in Clerks |-> txn[u]] /\ OnTables(db) /\ OnOpen
      /\ InTurn => NoneOpen /\ (Asked => Waiting(db))
  BY DEF OnInv
<1>2. /\ txn' = txn /\ script' = script
      /\ \E i : db' = [db EXCEPT !.expired = Onboarding!Add(db.expired, i, [at |-> TRUE])]
  BY DEF Onboarding!Statement, Onboarding!Settle, Onboarding!expire
<1>3. /\ OnRecord(db') /\ \A t \in {"users"} \cup Decided : db'[t] = db[t]
      /\ db'.users = db.users /\ db'.riders = db.riders /\ db'.invitations = db.invitations
      /\ db'.vendors = db.vendors /\ db'.restaurants = db.restaurants
  BY <1>1, <1>2 DEF OnTables, OnRecord, Decided
<1>4. OnBegins(db', {})
  BY <1>1, <1>3, NobodyJoins, NoStore, JoiningBegins
<1>5. OnTables(db') /\ Standing(db') /\ StoresKept(db')
  BY <1>1, <1>3, <1>4, NoStore, OnWritten DEF OnBegins
<1>6. OnOpen' /\ (NoneOpen => NoneOpen')
  BY <1>1, <1>2, <1>3 DEF OnOpen, NoneOpen, OnStands
<1>7. InTurn /\ Asked => Waiting(db')
  BY <1>1, <1>5 DEF StoresKept
<1> QED BY <1>1, <1>2, <1>5, <1>6, <1>7, StandsMeans DEF OnStep, OnInv, InTurn, Asked

LEMMA OnInit ==
    ASSUME Onboarding!Init
    PROVE  OnInv
<1>1. /\ db = [users |-> Nothing, restaurants |-> Nothing, vendors |-> Nothing,
               riders |-> Nothing, invitations |-> Nothing, expired |-> Nothing]
      /\ txn = [s \in Clerks |-> None]
  BY DEF Onboarding!Init, Onboarding!Opens, Onboarding!Nothing, Nothing
<1>2. DOMAIN Nothing = {}
  BY DEF Nothing
<1>3. OnRecord(db) /\ \A t \in OnTable : DOMAIN db[t] = {}
  BY <1>1, <1>2 DEF OnRecord, OnTable
<1>4. OnTables(db) /\ Waiting(db)
  BY <1>3 DEF OnTables, Waiting, OnTable, Decided
<1> QED BY <1>1, <1>4 DEF OnInv, OnOpen, NoneOpen

LEMMA OnNext ==
    ASSUME IdsAssumption, OnInv, Onboarding!Next
    PROVE  OnStep
<1>1. OnTables(db)
  BY DEF OnInv
<1>2. CASE Onboarding!Statement("expire", Onboarding!expire(db), Onboarding!Settle)
  BY <1>2, OnExpired
<1>3. CASE \E s \in Clerks :
               \/ Onboarding!Applications(s) \/ Onboarding!Vendors(s) \/ Onboarding!RiderApplications(s)
               \/ Onboarding!Invitations(s) \/ Onboarding!Commit(s, Onboarding!Settle) \/ Onboarding!Abort(s)
  <2>1. PICK s \in Clerks :
               \/ Onboarding!Applications(s) \/ Onboarding!Vendors(s) \/ Onboarding!RiderApplications(s)
               \/ Onboarding!Invitations(s) \/ Onboarding!Commit(s, Onboarding!Settle) \/ Onboarding!Abort(s)
    BY <1>3
  <2>2. ASSUME NEW call, NEW results, \A new \in results : OnBegins(new, {}),
               Onboarding!Do(s, call, results)
        PROVE  OnStep
    BY <2>2, OnServed DEF Onboarding!Do, Onboarding!Serve
  <2>3. CASE Onboarding!Applications(s)
    <3>1. ASSUME NEW e \in Emails, Onboarding!Do(s, "sign_up", Onboarding!sign_up(db, e)) PROVE OnStep
      <4>1. \A new \in Onboarding!sign_up(db, e) : OnBegins(new, {})
        BY <1>1, SignedUp
      <4> QED BY <2>2, <3>1, <4>1
    <3>2. ASSUME NEW e \in Emails, Onboarding!Do(s, "register_vendor", Onboarding!register_vendor(db, e)) PROVE OnStep
      BY <1>1, <2>2, <3>2, VendorRegistered
    <3>3. ASSUME NEW e \in Emails, Onboarding!Do(s, "submit", Onboarding!submit(db, e)) PROVE OnStep
      BY <1>1, <2>2, <3>3, Submitted
    <3>4. ASSUME NEW a \in DOMAIN db.vendors, NEW call, NEW results,
                 results \in {Onboarding!approve(db, a), Onboarding!reject(db, a)},
                 Onboarding!Do(s, call, results)
          PROVE  OnStep
      <4>1. \A new \in results : OnBegins(new, {})
        BY <1>1, <3>4, VendorJudged
      <4> QED BY <2>2, <3>4, <4>1
    <3> QED BY <2>3, <3>1, <3>2, <3>3, <3>4 DEF Onboarding!Applications
  <2>4. CASE Onboarding!Vendors(s)
    <3>1. ASSUME NEW e \in Emails, NEW verified \in BOOLEAN, NEW open \in BOOLEAN,
                 Onboarding!Do(s, "create_vendor", Onboarding!create_vendor(db, e, verified, open))
          PROVE  OnStep
      BY <1>1, <2>2, <3>1, VendorCreated
    <3>2. ASSUME NEW r \in DOMAIN db.restaurants, NEW verified \in BOOLEAN,
                 Onboarding!Do(s, "set_verified", Onboarding!set_verified(db, r, verified))
          PROVE  OnStep
      <4>1. ~Asked
        BY <3>2 DEF Onboarding!Do, Onboarding!Serve, Onboarding!ServeHolding, Asked
      <4> QED BY <1>1, <2>2, <3>2, <4>1, VerifiedBegins
    <3>3. ASSUME NEW r \in DOMAIN db.restaurants, NEW verified \in BOOLEAN,
                 Onboarding!Do(s, "update_vendor", Onboarding!_apply_store(db, r, verified))
          PROVE  OnStep
      BY <1>1, <2>2, <3>3, StoreApplied
    <3>4. ASSUME NEW r \in DOMAIN db.restaurants,
                 Onboarding!Do(s, "update_vendor", Onboarding!_apply_business(db, r))
          PROVE  OnStep
      BY <1>1, <2>2, <3>4, BusinessApplied
    <3>5. ASSUME NEW r \in DOMAIN db.restaurants, NEW e \in Emails,
                 Onboarding!Do(s, "update_vendor", Onboarding!_apply_owner(db, r, e))
          PROVE  OnStep
      BY <1>1, <2>2, <3>5, OwnerApplied
    <3> QED BY <2>4, <3>1, <3>2, <3>3, <3>4, <3>5 DEF Onboarding!Vendors
  <2>5. CASE Onboarding!RiderApplications(s)
    <3>1. ASSUME NEW e \in Emails, Onboarding!Do(s, "create_rider", Onboarding!create_rider(db, e)) PROVE OnStep
      <4>1. \A new \in Onboarding!create_rider(db, e) : OnBegins(new, {})
        BY <1>1, SignedUp
      <4> QED BY <2>2, <3>1, <4>1
    <3>2. ASSUME NEW e \in Emails, Onboarding!Do(s, "rider_submit", Onboarding!rider_submit(db, e)) PROVE OnStep
      BY <1>1, <2>2, <3>2, RiderAsks
    <3>3. ASSUME NEW a \in DOMAIN db.riders, NEW results,
                 results \in {Onboarding!rider_approve(db, a), Onboarding!rider_reject(db, a)},
                 Onboarding!ServeHolding(s, "rider_review", Onboarding!Judging(a), results, Onboarding!Settle)
          PROVE  OnStep
      <4>1. \A new \in results : OnBegins(new, Onboarding!Judging(a))
        BY <1>1, <3>3, RiderJudged
      <4> QED BY <3>3, <4>1, OnServed
    <3> QED BY <2>5, <3>1, <3>2, <3>3 DEF Onboarding!RiderApplications
  <2>6. CASE Onboarding!Invitations(s)
    <3>1. ASSUME NEW e \in Emails,
                 Onboarding!ServeHolding(s, "invite", UNION {Onboarding!Using(i) : i \in Onboarding!Invited(db, e)},
                                         Onboarding!invite(db, e), Onboarding!Settle)
          PROVE  OnStep
      <4> DEFINE holds == UNION {Onboarding!Using(i) : i \in Onboarding!Invited(db, e)}
      <4>1. \A new \in Onboarding!invite(db, e) : OnBegins(new, holds)
        BY <1>1, InviteBegins
      <4>2. Onboarding!ServeHolding(s, "invite", holds, Onboarding!invite(db, e), Onboarding!Settle)
        BY <3>1
      <4> HIDE DEF holds
      <4> QED BY <4>1, <4>2, OnServed
    <3>2. ASSUME NEW i \in DOMAIN db.invitations, NEW call, NEW results,
                 results \in {Onboarding!revoke(db, i), Onboarding!accept(db, i)},
                 Onboarding!ServeHolding(s, call, Onboarding!Using(i), results, Onboarding!Settle)
          PROVE  OnStep
      <4>1. \A new \in results : OnBegins(new, Onboarding!Using(i))
        BY <1>1, <3>2, InvitationUsed
      <4> QED BY <3>2, <4>1, OnServed
    <3> QED BY <2>6, <3>1, <3>2 DEF Onboarding!Invitations
  <2> QED BY <2>1, <2>3, <2>4, <2>5, <2>6, OnCommitted, OnAborted
<1> QED BY <1>2, <1>3 DEF Onboarding!Next

\* Every approved application and every accepted invitation has an account of its own,
\* and in turn no store on sale waits for its approval (applications.py, invitations.py,
\* admin/vendors.py).
LEMMA ApprovalsMean ==
    ASSUME OnInv
    PROVE  Onboarding!AnAccountEach /\ Onboarding!NothingOnSaleWaits
<1>1. OnTables(db) /\ (InTurn /\ Asked => Waiting(db))
  BY DEF OnInv
<1>2. Onboarding!NothingOnSaleWaits
  BY <1>1, OnboardingIsDesk DEF Waiting, Asked, Onboarding!NothingOnSaleWaits, Onboarding!_get_pending
<1>3. /\ \A a \in DOMAIN db.riders : db.riders[a].status = "APPROVED" =>
            db.riders[a].account \in DOMAIN db.users /\ db.users[db.riders[a].account].role = "RIDER"
      /\ \A a, b \in DOMAIN db.riders :
            db.riders[a].status = "APPROVED" /\ db.riders[b].status = "APPROVED"
            /\ db.riders[a].account = db.riders[b].account => a = b
  <2>1. "riders" \in Decided /\ Given("riders") = "APPROVED" /\ RoleFor("riders") = "RIDER"
    BY DEF Decided, Given, RoleFor
  <2> QED BY <1>1, <2>1 DEF OnTables
<1>4. /\ \A a \in DOMAIN db.invitations : db.invitations[a].status = "ACCEPTED" =>
            db.invitations[a].account \in DOMAIN db.users /\ db.users[db.invitations[a].account].role = "ADMIN"
      /\ \A a, b \in DOMAIN db.invitations :
            db.invitations[a].status = "ACCEPTED" /\ db.invitations[b].status = "ACCEPTED"
            /\ db.invitations[a].account = db.invitations[b].account => a = b
  <2>1. "invitations" \in Decided /\ Given("invitations") = "ACCEPTED" /\ RoleFor("invitations") = "ADMIN"
    BY DEF Decided, Given, RoleFor
  <2> QED BY <1>1, <2>1 DEF OnTables
<1> DEFINE given == {<<"RIDER", db.riders[a].account, a>> :
                        a \in {x \in DOMAIN db.riders : db.riders[x].status = "APPROVED"}}
                    \cup {<<"ADMIN", db.invitations[i].account, i>> :
                        i \in {x \in DOMAIN db.invitations : db.invitations[x].status = "ACCEPTED"}}
<1>5. ASSUME NEW g \in given
      PROVE  \/ \E a \in DOMAIN db.riders : db.riders[a].status = "APPROVED" /\ g = <<"RIDER", db.riders[a].account, a>>
             \/ \E a \in DOMAIN db.invitations : db.invitations[a].status = "ACCEPTED"
                    /\ g = <<"ADMIN", db.invitations[a].account, a>>
  OBVIOUS
<1> HIDE DEF given
<1>6. \A g \in given : g[2] \in DOMAIN db.users /\ db.users[g[2]].role = g[1]
  BY <1>3, <1>4, <1>5
<1>7. ASSUME NEW g \in given, NEW h \in given, g[2] = h[2] PROVE g = h
  <2>1. g[1] = h[1]
    BY <1>6, <1>7
  <2>2. CASE g[1] = "RIDER"
    <3>1. PICK a \in DOMAIN db.riders : db.riders[a].status = "APPROVED" /\ g = <<"RIDER", db.riders[a].account, a>>
      BY <1>5, <2>2
    <3>2. PICK b \in DOMAIN db.riders : db.riders[b].status = "APPROVED" /\ h = <<"RIDER", db.riders[b].account, b>>
      <4>1. h[1] = "RIDER"
        BY <2>1, <2>2
      <4>2. \/ \E b \in DOMAIN db.riders : db.riders[b].status = "APPROVED" /\ h = <<"RIDER", db.riders[b].account, b>>
            \/ \E b \in DOMAIN db.invitations : db.invitations[b].status = "ACCEPTED"
                   /\ h = <<"ADMIN", db.invitations[b].account, b>>
        BY <1>5
      <4> QED BY <4>1, <4>2
    <3>3. db.riders[a].account = db.riders[b].account
      BY <1>7, <3>1, <3>2
    <3>4. a = b
      BY <1>3, <3>1, <3>2, <3>3
    <3> QED BY <3>1, <3>2, <3>4
  <2>3. CASE g[1] = "ADMIN"
    <3>1. PICK a \in DOMAIN db.invitations :
              db.invitations[a].status = "ACCEPTED" /\ g = <<"ADMIN", db.invitations[a].account, a>>
      BY <1>5, <2>3
    <3>2. PICK b \in DOMAIN db.invitations :
              db.invitations[b].status = "ACCEPTED" /\ h = <<"ADMIN", db.invitations[b].account, b>>
      <4>1. h[1] = "ADMIN"
        BY <2>1, <2>3
      <4>2. \/ \E b \in DOMAIN db.riders : db.riders[b].status = "APPROVED" /\ h = <<"RIDER", db.riders[b].account, b>>
            \/ \E b \in DOMAIN db.invitations : db.invitations[b].status = "ACCEPTED"
                   /\ h = <<"ADMIN", db.invitations[b].account, b>>
        BY <1>5
      <4> QED BY <4>1, <4>2
    <3>3. db.invitations[a].account = db.invitations[b].account
      BY <1>7, <3>1, <3>2
    <3>4. a = b
      BY <1>4, <3>1, <3>2, <3>3
    <3> QED BY <3>1, <3>2, <3>4
  <2>4. g[1] = "RIDER" \/ g[1] = "ADMIN"
    BY <1>5
  <2> QED BY <2>2, <2>3, <2>4
<1>8. Onboarding!AnAccountEach
  BY <1>6, <1>7 DEF given, Onboarding!AnAccountEach
<1> QED BY <1>2, <1>8

(***************************************************************************)
(* Publishing: tallies are true, banners in one list, what is over is over *)
(***************************************************************************)
LEMMA PublishingIsDesk ==
    /\ \A table, id, row : Publishing!Add(table, id, row) = Add(table, id, row)
    /\ \A ids : Publishing!Least(ids) = Least(ids)
    /\ \A t, ids : Publishing!Fresh(t, ids) = Fresh(t, ids)
    /\ \A S : Publishing!Cardinality(S) = Cardinality(S)
    /\ \A s, row : Publishing!Locked(s, row) = Locked(s, row)
    /\ \A r : Publishing!Writes(r) = Writes(r)
    /\ \A table, seen, new : Publishing!Merged(table, seen, new) = Merged(table, seen, new)
    /\ Publishing!InTurn <=> InTurn
BY DEF Publishing!Add, Publishing!Joined, Publishing!Only, Add, Joined, Only, Publishing!Least, Least,
       Publishing!Fresh, Publishing!Open, Fresh, Open, Publishing!Cardinality, Cardinality,
       Publishing!Locked, Locked, Publishing!Writes, Writes, Publishing!Merged, Merged, Publishing!InTurn,
       InTurn

\* A request about something else.
LEMMA PubElsewhere ==
    ASSUME PubTables(db), NEW new, NEW holds, PubRecord(new), new.clock = db.clock,
           new.posts = db.posts, new.reports = db.reports,
           \A b \in DOMAIN new.banners : new.banners[b] \in BannerRow,
           new.promos = db.promos, InTurn /\ Rated(db) => Rated(new)
    PROVE  PubBegins(new, holds)
<1>1. \A p : Reports(new, p) = Reports(db, p)
  BY DEF Reports
<1>2. PubWork(db, new, holds)
  BY <1>1 DEF PubWork, PubTables
<1> QED BY <1>2 DEF PubBegins

LEMMA PubInserted ==
    ASSUME IdsAssumption, PubRecord(db), NEW t \in {"posts", "banners", "promos", "reels"}, NEW row,
           NEW x \in Publishing!Insert(db, t, row)
    PROVE  /\ PubRecord(x)
           /\ \E id \in Fresh(t, Posted) : id \notin DOMAIN db[t] /\ IsAdd(x[t], db[t], id, row)
           /\ \A v \in DOMAIN db : v # t => x[v] = db[v]
<1> DEFINE id == Least(Fresh(t, Posted))
<1>1. Fresh(t, Posted) # {} /\ x = [db EXCEPT ![t] = Add(db[t], id, row)]
  BY PublishingIsDesk DEF Publishing!Insert
<1>2. Fresh(t, Posted) \in SUBSET Nat
  BY DEF IdsAssumption, Fresh
<1>3. id \in Fresh(t, Posted)
  BY <1>1, <1>2, LeastIn
<1>4. t \in DOMAIN db
  BY DEF PubRecord
<1>5. id \notin DOMAIN db[t]
  BY <1>3, <1>4, FreshIds
<1> HIDE DEF id
<1>6. IsAdd(Add(db[t], id, row), db[t], id, row)
  BY <1>5, AddedRow
<1>7. x[t] = Add(db[t], id, row) /\ \A v \in DOMAIN db : v # t => x[v] = db[v]
  BY <1>1, <1>4
<1>8. PubRecord(x)
  BY <1>1, <1>4 DEF PubRecord
<1> QED BY <1>3, <1>5, <1>6, <1>7, <1>8

\* A new post has no reports.
LEMMA PostBegins ==
    ASSUME IdsAssumption, PubTables(db), NEW u, NEW new \in Publishing!create_post(db, u)
    PROVE  PubBegins(new, {})
<1> DEFINE row == [author |-> u, removed |-> None, count |-> 0]
<1>1. PubRecord(db) /\ DOMAIN db = {"posts", "reports", "orders", "reviews", "store", "dish", "reels",
                                    "banners", "promos", "batches", "clock"}
  BY DEF PubTables, PubRecord
<1>2. new \in Publishing!Insert(db, "posts", row)
  BY DEF Publishing!create_post
<1> HIDE DEF row
<1>3. /\ PubRecord(new)
      /\ \E id \in Fresh("posts", Posted) : id \notin DOMAIN db["posts"] /\ IsAdd(new["posts"], db["posts"], id, row)
      /\ \A v \in DOMAIN db : v # "posts" => new[v] = db[v]
  BY <1>1, <1>2, PubInserted
<1>4. /\ new.reports = db.reports /\ new.clock = db.clock /\ new.banners = db.banners
      /\ new.promos = db.promos /\ new.store = db.store /\ new.reviews = db.reviews
  BY <1>1, <1>3
<1>5. PICK id \in Fresh("posts", Posted) : id \notin DOMAIN db.posts /\ IsAdd(new.posts, db.posts, id, row)
  BY <1>3
<1>6. /\ \A k : k \in DOMAIN new.posts <=> k \in DOMAIN db.posts \/ k = id
      /\ new.posts[id] = row /\ \A k \in DOMAIN db.posts : new.posts[k] = db.posts[k]
  BY <1>5 DEF IsAdd
<1>7. PostRow(row) /\ row.count = 0
  BY DEF row, PostRow
<1>8. \A p : Reports(new, p) = Reports(db, p)
  BY <1>4 DEF Reports
<1>9. PubWork(db, new, {})
  BY <1>3, <1>4, <1>6, <1>7, <1>8 DEF PubWork, PubTables
<1>10. Rated(db) => Rated(new)
  BY <1>4 DEF Rated
<1> QED BY <1>4, <1>5, <1>6, <1>9, <1>10 DEF PubBegins

\* A post under its lock: reported, or removed.
LEMMA ReportBegins ==
    ASSUME PubTables(db), NEW p \in DOMAIN db.posts, db.posts[p].removed = None, NEW u,
           NEW new \in Publishing!report(db, p, u)
    PROVE  PubBegins(new, Publishing!PostLock(p))
<1> DEFINE holds == Publishing!PostLock(p)
           rows == Add(db.reports, <<p, u>>, [at |-> TRUE])
<1>1. <<"posts", p>> \in holds
  BY DEF Publishing!PostLock
<1>2. /\ PubRecord(db) /\ Counted(db, p)
      /\ <<p, u>> \notin DOMAIN db.reports
      /\ new = [db EXCEPT !.reports = rows, !.posts[p].count = db.posts[p].count + 1]
  BY PublishingIsDesk DEF PubTables, Publishing!report
<1>3. IsAdd(rows, db.reports, <<p, u>>, [at |-> TRUE])
  BY <1>2, AddedRow
<1> HIDE DEF holds, rows
<1>4. /\ PubRecord(new) /\ new.reports = rows
      /\ DOMAIN new.posts = DOMAIN db.posts
      /\ new.posts[p] = [db.posts[p] EXCEPT !.count = db.posts[p].count + 1]
      /\ \A k \in DOMAIN db.posts : k # p => new.posts[k] = db.posts[k]
      /\ new.clock = db.clock /\ new.banners = db.banners /\ new.promos = db.promos
      /\ new.store = db.store /\ new.reviews = db.reviews
  BY <1>2 DEF PubRecord
<1>5. \A r : r \in DOMAIN new.reports <=> r \in DOMAIN db.reports \/ r = <<p, u>>
  BY <1>3, <1>4 DEF IsAdd
<1>6. Reports(new, p) = Reports(db, p) \cup {<<p, u>>} /\ <<p, u>> \notin Reports(db, p)
  BY <1>2, <1>5 DEF Reports
<1>7. \A k : k # p => Reports(new, k) = Reports(db, k)
  BY <1>5 DEF Reports
<1>8. Counted(new, p)
  <2>1. IsFiniteSet(Reports(db, p)) /\ db.posts[p].count = Cardinality(Reports(db, p)) /\ PostRow(db.posts[p])
    BY <1>2 DEF Counted
  <2>2. IsFiniteSet(Reports(new, p)) /\ Cardinality(Reports(new, p)) = Cardinality(Reports(db, p)) + 1
    BY <1>6, <2>1, FS_AddElement
  <2>3. PostRow(new.posts[p]) /\ new.posts[p].count = db.posts[p].count + 1
    BY <1>4, <2>1 DEF PostRow
  <2> QED BY <2>1, <2>2, <2>3 DEF Counted
<1>9. Moderates(db, new, holds, p)
  BY <1>1, <1>8 DEF Moderates
<1>10. \A r \in DOMAIN new.reports : r \notin DOMAIN db.reports => r[1] = p
  BY <1>5
<1>11. PubWork(db, new, holds)
  BY <1>1, <1>4, <1>5, <1>7, <1>9, <1>10 DEF PubWork, PubTables
<1>12. Rated(db) => Rated(new)
  BY <1>4 DEF Rated
<1>13. PubBegins(new, holds)
  BY <1>4, <1>11, <1>12 DEF PubBegins
<1> QED BY <1>13 DEF holds

LEMMA RemoveBegins ==
    ASSUME PubTables(db), NEW p \in DOMAIN db.posts, db.posts[p].removed = None, NEW u,
           NEW new, new = [db EXCEPT !.posts[p].removed = u]
    PROVE  PubBegins(new, Publishing!PostLock(p))
<1> DEFINE holds == Publishing!PostLock(p)
<1>1. <<"posts", p>> \in holds
  BY DEF Publishing!PostLock
<1> HIDE DEF holds
<1>2. PubRecord(db) /\ Counted(db, p)
  BY DEF PubTables
<1>3. /\ PubRecord(new) /\ new.reports = db.reports
      /\ DOMAIN new.posts = DOMAIN db.posts
      /\ new.posts[p] = [db.posts[p] EXCEPT !.removed = u]
      /\ \A k \in DOMAIN db.posts : k # p => new.posts[k] = db.posts[k]
      /\ new.clock = db.clock /\ new.banners = db.banners /\ new.promos = db.promos
      /\ new.store = db.store /\ new.reviews = db.reviews
  BY <1>2 DEF PubRecord
<1>4. \A k : Reports(new, k) = Reports(db, k)
  BY <1>3 DEF Reports
<1>5. PostRow(new.posts[p]) /\ new.posts[p].count = db.posts[p].count
  BY <1>2, <1>3 DEF Counted, PostRow
<1>6. Moderates(db, new, holds, p)
  BY <1>1, <1>2, <1>4, <1>5 DEF Moderates, Counted
<1>7. PubWork(db, new, holds)
  BY <1>3, <1>4, <1>6 DEF PubWork, PubTables
<1>8. Rated(db) => Rated(new)
  BY <1>3 DEF Rated
<1>9. PubBegins(new, holds)
  BY <1>3, <1>7, <1>8 DEF PubBegins
<1> QED BY <1>9 DEF holds

LEMMA BesideBegins ==
    ASSUME PubTables(db), NEW new, Beside(new), new.promos = db.promos,
           \A b \in DOMAIN new.banners : new.banners[b] \in BannerRow
    PROVE  PubBegins(new, {})
<1>1. Rated(db) => Rated(new)
  BY DEF Rated, Beside
<1> QED BY <1>1, PubElsewhere DEF Beside

\* The rating is computed again from all the reviews.
LEMMA ReviewBegins ==
    ASSUME PubTables(db), NEW o, NEW s, NEW stars, NEW new \in Publishing!create_review(db, s, o, stars)
    PROVE  PubBegins(new, {})
<1>1. PICK reviews : reviews = Publishing!Add(db.reviews, <<o, s>>, [order |-> o, stars |-> stars])
  OBVIOUS
<1>2. PICK rating : rating = Publishing!Ratings(reviews)
  OBVIOUS
<1>3. new = [db EXCEPT !.reviews = reviews, !.store[1].sum = rating.sum, !.store[1].count = rating.count]
  BY <1>1, <1>2 DEF Publishing!create_review
<1>4. /\ PubRecord(new) /\ new.clock = db.clock /\ new.posts = db.posts /\ new.reports = db.reports
      /\ new.banners = db.banners /\ new.promos = db.promos /\ new.reviews = reviews
  BY <1>3 DEF PubTables, PubRecord
<1>5. ASSUME Rated(db) PROVE Rated(new)
  <2>1. /\ 1 \in DOMAIN db.store
        /\ db.store[1] = [sum |-> db.store[1].sum, count |-> db.store[1].count, visible |-> db.store[1].visible]
    BY <1>5 DEF Rated
  <2>2. /\ 1 \in DOMAIN new.store
        /\ new.store[1] = [sum |-> rating.sum, count |-> rating.count, visible |-> db.store[1].visible]
    BY <1>3, <2>1 DEF PubTables, PubRecord
  <2>3. rating = [sum |-> rating.sum, count |-> rating.count]
    BY <1>2 DEF Publishing!Ratings
  <2> QED BY <1>2, <1>4, <2>2, <2>3 DEF Rated
<1> QED BY <1>4, <1>5, PubElsewhere DEF PubTables

LEMMA ReelsBegin ==
    ASSUME PubTables(db), NEW new, ReelsOnly(new)
    PROVE  PubBegins(new, {})
<1>1. DOMAIN db = {"posts", "reports", "orders", "reviews", "store", "dish", "reels",
                   "banners", "promos", "batches", "clock"}
  BY DEF PubTables, PubRecord
<1>2. Beside(new) /\ new.promos = db.promos /\ new.banners = db.banners
  BY <1>1 DEF ReelsOnly, Beside
<1> QED BY <1>2, BesideBegins DEF PubTables

LEMMA ReelCreated ==
    ASSUME IdsAssumption, PubTables(db), NEW dish, NEW new \in Publishing!create_reel(db, dish)
    PROVE  PubBegins(new, {})
<1> DEFINE row == [dish |-> dish, hidden |-> FALSE, reason |-> None]
<1>1. new \in Publishing!Insert(db, "reels", row)
  BY DEF Publishing!create_reel
<1> HIDE DEF row
<1>2. PubRecord(db)
  BY DEF PubTables
<1>3. PubRecord(new) /\ \A v \in DOMAIN db : v # "reels" => new[v] = db[v]
  BY <1>1, <1>2, PubInserted
<1> QED BY <1>3, ReelsBegin DEF ReelsOnly

LEMMA ReelChanged ==
    ASSUME PubTables(db), NEW r \in DOMAIN db.reels, NEW hidden, NEW reason, NEW dish, NEW new,
           \/ new \in Publishing!delete_reel(db, r)
           \/ new \in Publishing!hide(db, r, hidden, reason)
           \/ new \in Publishing!explain(db, r, reason)
           \/ new \in Publishing!link(db, r, dish)
    PROVE  PubBegins(new, {})
<1>1. PubRecord(db)
  BY DEF PubTables
<1>2. CASE new \in Publishing!delete_reel(db, r)
  BY <1>1, <1>2, ReelsBegin DEF Publishing!delete_reel, ReelsOnly, PubRecord
<1>3. CASE new \in Publishing!hide(db, r, hidden, reason)
  BY <1>1, <1>3, ReelsBegin DEF Publishing!hide, ReelsOnly, PubRecord
<1>4. CASE new \in Publishing!explain(db, r, reason)
  BY <1>1, <1>4, ReelsBegin DEF Publishing!explain, ReelsOnly, PubRecord
<1>5. CASE new \in Publishing!link(db, r, dish)
  BY <1>1, <1>5, ReelsBegin DEF Publishing!link, ReelsOnly, PubRecord
<1> QED BY <1>2, <1>3, <1>4, <1>5

\* Banners keep their shape.
LEMMA BannerCreated ==
    ASSUME IdsAssumption, PubTables(db), NEW b \in BannerRow, NEW new \in Publishing!create_banner(db, b)
    PROVE  PubBegins(new, {})
<1>1. PubRecord(db) /\ DOMAIN db = {"posts", "reports", "orders", "reviews", "store", "dish", "reels",
                                    "banners", "promos", "batches", "clock"}
  BY DEF PubTables, PubRecord
<1>2. new \in Publishing!Insert(db, "banners", b)
  BY DEF Publishing!create_banner
<1>3. /\ PubRecord(new)
      /\ \E id \in Fresh("banners", Posted) : IsAdd(new["banners"], db["banners"], id, b)
      /\ \A v \in DOMAIN db : v # "banners" => new[v] = db[v]
  BY <1>1, <1>2, PubInserted
<1>4. Beside(new) /\ new.promos = db.promos
  BY <1>1, <1>3 DEF Beside
<1>5. \A k \in DOMAIN new.banners : new.banners[k] \in BannerRow
  BY <1>3 DEF IsAdd, PubTables
<1> QED BY <1>4, <1>5, BesideBegins

LEMMA BannerUpdated ==
    ASSUME PubTables(db), NEW b \in DOMAIN db.banners, NEW field, NEW value,
           \/ field \in {"starts", "ends"} /\ value \in Int \cup {None}
           \/ field = "active" /\ value \in BOOLEAN,
           NEW new \in Publishing!update_banner(db, b, field, value)
    PROVE  PubBegins(new, {})
<1>1. PubRecord(db) /\ db.banners[b] \in BannerRow
  BY DEF PubTables
<1>2. [db.banners[b] EXCEPT ![field] = value] \in BannerRow
  <2>1. CASE field = "starts" \/ field = "ends"
    BY <1>1, <2>1 DEF BannerRow
  <2>2. CASE field = "active"
    BY <1>1, <2>2 DEF BannerRow
  <2> QED BY <2>1, <2>2
<1> DEFINE row == [db.banners[b] EXCEPT ![field] = value]
<1>3. new = [db EXCEPT !.banners[b] = row]
  BY DEF Publishing!update_banner
<1> HIDE DEF row
<1>4. Beside(new) /\ new.promos = db.promos
  BY <1>1, <1>3 DEF Beside, PubRecord
<1>5. \A k \in DOMAIN new.banners : new.banners[k] = IF k = b THEN row ELSE db.banners[k]
  BY <1>1, <1>3 DEF PubRecord
<1>6. \A k \in DOMAIN new.banners : k \in DOMAIN db.banners
  BY <1>1, <1>3 DEF PubRecord
<1>7. \A k \in DOMAIN new.banners : new.banners[k] \in BannerRow
  BY <1>2, <1>5, <1>6 DEF PubTables, row
<1> QED BY <1>4, <1>7, BesideBegins

LEMMA BannerDeleted ==
    ASSUME PubTables(db), NEW b \in DOMAIN db.banners, NEW new \in Publishing!delete_banner(db, b)
    PROVE  PubBegins(new, {})
<1>1. PubRecord(db)
  BY DEF PubTables
<1>2. Beside(new) /\ new.promos = db.promos
  BY <1>1 DEF Beside, PubRecord, Publishing!delete_banner
<1>3. new.banners = Publishing!Drop(db.banners, {b})
  BY <1>1 DEF PubRecord, Publishing!delete_banner
<1>4. \A k \in DOMAIN new.banners : k \in DOMAIN db.banners /\ new.banners[k] = db.banners[k]
  BY <1>3 DEF Publishing!Drop
<1> QED BY <1>2, <1>4, BesideBegins DEF PubTables

\* A campaign is launched, or paused, resumed or ended at the hour that was read.
LEMMA PromosBegin ==
    ASSUME PubTables(db), NEW new, NEW holds, Beside(new), new.banners = db.banners,
           \A p \in DOMAIN new.promos : PromoRow(new.promos[p]) /\ (p \in DOMAIN db.promos \/ p \in Fresh("promos", Posted)),
           \A p \in DOMAIN db.promos : /\ p \in DOMAIN new.promos /\ new.promos[p].shown = db.promos[p].shown
                                       /\ new.promos[p].until \in {db.promos[p].until, db.clock[1].now}
    PROVE  PubBegins(new, holds)
<1>1. \A p : Reports(new, p) = Reports(db, p)
  BY DEF Reports, Beside
<1>2. PubWork(db, new, holds)
  BY <1>1 DEF PubWork, PubTables, Beside
<1>3. Rated(db) => Rated(new)
  BY DEF Rated, Beside
<1> QED BY <1>2, <1>3 DEF PubBegins, Beside

LEMMA PromoLaunched ==
    ASSUME IdsAssumption, PubTables(db), NEW from, NEW until \in Int, NEW new \in Publishing!launch(db, from, until)
    PROVE  PubBegins(new, {})
<1> DEFINE row == [active |-> TRUE, from |-> from, until |-> until, shown |-> 0]
<1>1. PubRecord(db) /\ DOMAIN db = {"posts", "reports", "orders", "reviews", "store", "dish", "reels",
                                    "banners", "promos", "batches", "clock"}
  BY DEF PubTables, PubRecord
<1>2. new \in Publishing!Insert(db, "promos", row)
  BY DEF Publishing!launch
<1>3. PromoRow(row)
  BY DEF PromoRow
<1> HIDE DEF row
<1>4. /\ PubRecord(new)
      /\ \E id \in Fresh("promos", Posted) : id \notin DOMAIN db["promos"] /\ IsAdd(new["promos"], db["promos"], id, row)
      /\ \A v \in DOMAIN db : v # "promos" => new[v] = db[v]
  BY <1>1, <1>2, PubInserted
<1>5. Beside(new) /\ new.banners = db.banners
  BY <1>1, <1>4 DEF Beside
<1>6. PICK id \in Fresh("promos", Posted) : id \notin DOMAIN db.promos /\ IsAdd(new.promos, db.promos, id, row)
  BY <1>4
<1>7. /\ \A p \in DOMAIN new.promos : PromoRow(new.promos[p]) /\ (p \in DOMAIN db.promos \/ p \in Fresh("promos", Posted))
      /\ \A p \in DOMAIN db.promos : p \in DOMAIN new.promos /\ new.promos[p] = db.promos[p]
  BY <1>3, <1>6 DEF IsAdd, PubTables
<1> QED BY <1>5, <1>7, PromosBegin

LEMMA PromoSwitched ==
    ASSUME PubTables(db), NEW p \in DOMAIN db.promos, NEW status, NEW holds,
           NEW new \in Publishing!set_status(db, p, status)
    PROVE  PubBegins(new, holds)
<1>1. PubRecord(db) /\ PromoRow(db.promos[p]) /\ ClockShape(db)
  BY DEF PubTables
<1>2. \/ new = [db EXCEPT !.promos[p].until = db.clock[1].now]
      \/ new = [db EXCEPT !.promos[p].active = (status = "ACTIVE")]
  BY DEF Publishing!set_status, Publishing!Now
<1>3. /\ Beside(new) /\ new.banners = db.banners /\ DOMAIN new.promos = DOMAIN db.promos
      /\ \A k \in DOMAIN db.promos : k # p => new.promos[k] = db.promos[k]
  BY <1>1, <1>2 DEF Beside, PubRecord
<1>4. /\ PromoRow(new.promos[p]) /\ new.promos[p].shown = db.promos[p].shown
      /\ new.promos[p].until \in {db.promos[p].until, db.clock[1].now}
  <2>1. CASE new = [db EXCEPT !.promos[p].until = db.clock[1].now]
    <3>1. new.promos[p] = [db.promos[p] EXCEPT !.until = db.clock[1].now]
      BY <1>1, <2>1 DEF PubRecord
    <3> QED BY <1>1, <3>1 DEF PromoRow, ClockShape
  <2>2. CASE new = [db EXCEPT !.promos[p].active = (status = "ACTIVE")]
    <3>1. PICK on : on = (status = "ACTIVE")
      OBVIOUS
    <3>2. new = [db EXCEPT !.promos[p].active = on]
      BY <2>2, <3>1
    <3>3. new.promos[p] = [db.promos[p] EXCEPT !.active = on]
      BY <1>1, <3>2 DEF PubRecord
    <3> QED BY <1>1, <3>3 DEF PromoRow
  <2> QED BY <1>2, <2>1, <2>2
<1>5. \A k \in DOMAIN new.promos : PromoRow(new.promos[k])
  BY <1>3, <1>4 DEF PubTables
<1> QED BY <1>3, <1>4, <1>5, PromosBegin

LEMMA PubMerged ==
    ASSUME PubRecord(db), NEW r, PubRecord(r.seen), PubRecord(r.new)
    PROVE  /\ PubRecord(Flushed(r))
           /\ \A t \in PubTable : IsMerge(Flushed(r)[t], db[t], r.seen[t], r.new[t])
<1> DEFINE d == Flushed(r)
<1>1. DOMAIN db = PubTable
  BY DEF PubRecord, PubTable
<1>2. d = [t \in PubTable |-> Merged(db[t], r.seen[t], r.new[t])]
  BY <1>1 DEF Flushed
<1>3. PubRecord(d)
  BY <1>2 DEF PubRecord, PubTable
<1>4. \A t \in PubTable : d[t] = Merged(db[t], r.seen[t], r.new[t])
  BY <1>2
<1> QED BY <1>3, <1>4, MergedRows

\* The clock is as it is now, whatever the request read.
LEMMA ClockFlushed ==
    ASSUME PubTables(db), NEW r, PubWork(r.seen, r.new, r.holds)
    PROVE  ClockShape(Flushed(r)) /\ Flushed(r).clock[1] = db.clock[1]
<1> DEFINE d == Flushed(r)
<1>1. IsMerge(d.clock, db.clock, r.seen.clock, r.new.clock)
  BY PubMerged DEF PubTables, PubWork, PubTable
<1> HIDE DEF d
<1>2. r.new.clock = r.seen.clock /\ ClockShape(db)
  BY DEF PubWork, PubTables
<1>3. 1 \in DOMAIN db.clock /\ db.clock[1] = [c \in DOMAIN db.clock[1] |-> db.clock[1][c]]
  BY <1>2 DEF ClockShape
<1>4. 1 \in DOMAIN d.clock /\ d.clock[1] = db.clock[1]
  BY <1>1, <1>2, <1>3, UnwrittenRows
<1>5. ClockShape(d) /\ d.clock[1] = db.clock[1]
  BY <1>2, <1>4 DEF ClockShape
<1> QED BY <1>5 DEF d

LEMMA ReportsFlushed ==
    ASSUME PubTables(db), NEW r, PubWork(r.seen, r.new, r.holds), PubStands(r, db), NEW p
    PROVE  /\ p \notin DOMAIN r.seen.posts \/ Reports(r.new, p) = Reports(r.seen, p)
              => Reports(Flushed(r), p) = Reports(db, p)
           /\ p \in DOMAIN r.seen.posts /\ <<"posts", p>> \in r.holds
              => Reports(Flushed(r), p) = Reports(r.new, p)
<1> DEFINE d == Flushed(r)
<1>1. IsMerge(d.reports, db.reports, r.seen.reports, r.new.reports)
  BY PubMerged DEF PubTables, PubWork, PubTable
<1> HIDE DEF d
<1>2. \A x \in DOMAIN r.seen.reports : x \in DOMAIN r.new.reports
  BY DEF PubWork
<1>3. \A x : x \in DOMAIN d.reports <=>
          x \in DOMAIN db.reports \/ (x \in DOMAIN r.new.reports /\ x \notin DOMAIN r.seen.reports)
  BY <1>1, <1>2 DEF IsMerge
<1>4. ASSUME p \notin DOMAIN r.seen.posts \/ Reports(r.new, p) = Reports(r.seen, p)
      PROVE  Reports(d, p) = Reports(db, p)
  <2>1. \A x \in DOMAIN r.new.reports : x \notin DOMAIN r.seen.reports => x[1] \in DOMAIN r.seen.posts
    BY DEF PubWork
  <2>2. \A x \in DOMAIN r.new.reports : x[1] = p => x \in DOMAIN r.seen.reports
    BY <1>4, <2>1 DEF Reports
  <2> QED BY <1>3, <2>2 DEF Reports
<1>5. ASSUME p \in DOMAIN r.seen.posts, <<"posts", p>> \in r.holds
      PROVE  Reports(d, p) = Reports(r.new, p)
  <2>1. Reports(db, p) = Reports(r.seen, p)
    BY <1>5 DEF PubStands
  <2>2. \A x : x[1] = p => (x \in DOMAIN db.reports <=> x \in DOMAIN r.seen.reports)
    BY <2>1 DEF Reports
  <2> QED BY <1>2, <1>3, <2>2 DEF Reports
<1> QED BY <1>4, <1>5 DEF d

LEMMA PostFlushed ==
    ASSUME PubTables(db), NEW r, PubWork(r.seen, r.new, r.holds), PubStands(r, db), NEW p \in DOMAIN db.posts
    PROVE  PostStands(Flushed(r), p) \/ PostModerated(Flushed(r), r, p)
<1> DEFINE d == Flushed(r)
<1>1. IsMerge(d.posts, db.posts, r.seen.posts, r.new.posts)
  BY PubMerged DEF PubTables, PubWork, PubTable
<1>2. PostRow(db.posts[p])
  BY DEF PubTables, Counted
<1>3. db.posts[p] = [c \in DOMAIN db.posts[p] |-> db.posts[p][c]]
  BY <1>2 DEF PostRow
<1>4. p \in DOMAIN r.seen.posts <=> p \in DOMAIN r.new.posts
  BY DEF PubWork, PubStands
<1>5. /\ p \notin DOMAIN r.seen.posts \/ Reports(r.new, p) = Reports(r.seen, p) => Reports(d, p) = Reports(db, p)
      /\ p \in DOMAIN r.seen.posts /\ <<"posts", p>> \in r.holds => Reports(d, p) = Reports(r.new, p)
  BY ReportsFlushed
<1> HIDE DEF d
<1>6. CASE p \notin DOMAIN r.seen.posts \/ (r.new.posts[p] = r.seen.posts[p] /\ Reports(r.new, p) = Reports(r.seen, p))
  <2>1. p \in DOMAIN d.posts /\ d.posts[p] = db.posts[p]
    BY <1>1, <1>3, <1>4, <1>6, UnwrittenRows
  <2>2. Reports(d, p) = Reports(db, p)
    BY <1>5, <1>6
  <2> QED BY <2>1, <2>2 DEF PostStands, d
<1>7. CASE p \in DOMAIN r.seen.posts /\ Moderates(r.seen, r.new, r.holds, p)
  <2>1. /\ <<"posts", p>> \in r.holds /\ r.seen.posts[p].removed = None /\ Counted(r.new, p)
    BY <1>7 DEF Moderates
  <2>2. db.posts[p] = r.seen.posts[p]
    BY <1>7, <2>1 DEF PubStands
  <2>3. r.new.posts[p] = [c \in DOMAIN db.posts[p] |-> r.new.posts[p][c]]
    BY <1>2, <2>1 DEF Counted, PostRow
  <2>4. p \in DOMAIN d.posts /\ d.posts[p] = r.new.posts[p]
    BY <1>1, <1>4, <1>7, <2>2, <2>3, HeldRows
  <2>5. Reports(d, p) = Reports(r.new, p)
    BY <1>5, <1>7, <2>1
  <2> QED BY <2>1, <2>2, <2>4, <2>5 DEF PostModerated, d
<1> QED BY <1>6, <1>7 DEF PubWork

\* A post of this request's own has no reports yet.
LEMMA PostOpened ==
    ASSUME PubTables(db), NEW r, PubWork(r.seen, r.new, r.holds), PubStands(r, db),
           NEW p \in DOMAIN Flushed(r).posts, p \notin DOMAIN db.posts
    PROVE  /\ p \in DOMAIN r.new.posts /\ p \notin DOMAIN r.seen.posts
           /\ Counted(Flushed(r), p)
<1> DEFINE d == Flushed(r)
<1>1. IsMerge(d.posts, db.posts, r.seen.posts, r.new.posts)
  BY PubMerged DEF PubTables, PubWork, PubTable
<1>2. Reports(db, p) = {}
  BY DEF Reports, PubTables
<1>3. p \notin DOMAIN r.seen.posts => Reports(d, p) = Reports(db, p)
  BY ReportsFlushed
<1>4. p \in DOMAIN d.posts
  OBVIOUS
<1> HIDE DEF d
<1>5. p \in DOMAIN r.new.posts /\ p \notin DOMAIN r.seen.posts /\ d.posts[p] = r.new.posts[p]
  BY <1>1, <1>4 DEF IsMerge
<1>6. PostRow(d.posts[p]) /\ d.posts[p].count = 0
  BY <1>5 DEF PubWork
<1>7. Counted(d, p)
  BY <1>2, <1>3, <1>5, <1>6, FS_EmptySet DEF Counted
<1> QED BY <1>5, <1>7 DEF d

\* A post with its count, as a table and its reports have it.
LEMMA CountedSame ==
    ASSUME NEW d, NEW e, NEW p, Counted(e, p), d.posts[p] = e.posts[p], Reports(d, p) = Reports(e, p)
    PROVE  Counted(d, p)
BY DEF Counted

LEMMA BannersFlushed ==
    ASSUME PubTables(db), NEW r, PubWork(r.seen, r.new, r.holds), NEW b \in DOMAIN Flushed(r).banners
    PROVE  Flushed(r).banners[b] \in BannerRow
<1> DEFINE d == Flushed(r)
<1>1. IsMerge(d.banners, db.banners, r.seen.banners, r.new.banners)
  BY PubMerged DEF PubTables, PubWork, PubTable
<1>2. b \in DOMAIN d.banners
  OBVIOUS
<1> HIDE DEF d
<1>3. /\ b \in DOMAIN r.new.banners => r.new.banners[b] \in BannerRow
      /\ b \in DOMAIN db.banners => db.banners[b] \in BannerRow
  BY DEF PubTables, PubWork
<1>4. \/ b \in DOMAIN r.new.banners /\ d.banners[b] = r.new.banners[b]
      \/ b \in DOMAIN db.banners /\ d.banners[b] = db.banners[b]
      \/ /\ b \in DOMAIN db.banners /\ b \in DOMAIN r.new.banners
         /\ d.banners[b] = Column(db.banners[b], r.seen.banners[b], r.new.banners[b])
  BY <1>1, <1>2 DEF IsMerge
<1>5. ASSUME NEW x \in BannerRow, NEW y, NEW z \in BannerRow
      PROVE  Column(x, y, z) \in BannerRow
  BY <1>5 DEF Column, BannerRow
<1>6. d.banners[b] \in BannerRow
  BY <1>3, <1>4, <1>5
<1> QED BY <1>6 DEF d

LEMMA PromosFlushed ==
    ASSUME PubTables(db), NEW r, PubWork(r.seen, r.new, r.holds), PubStands(r, db)
    PROVE  /\ \A p \in DOMAIN Flushed(r).promos : PromoRow(Flushed(r).promos[p])
           /\ \A p : p \in DOMAIN Flushed(r).promos <=>
                 p \in DOMAIN db.promos \/ (p \in DOMAIN r.new.promos /\ p \notin DOMAIN r.seen.promos)
           /\ \A p \in DOMAIN db.promos :
                 (Over(db, p) => Over(Flushed(r), p)) /\ Flushed(r).promos[p].shown = db.promos[p].shown
<1> DEFINE d == Flushed(r)
<1>1. IsMerge(d.promos, db.promos, r.seen.promos, r.new.promos)
  BY PubMerged DEF PubTables, PubWork, PubTable
<1>2. d.clock[1] = db.clock[1] /\ ClockShape(db)
  BY ClockFlushed DEF PubTables
<1> HIDE DEF d
<1>3. /\ \A p \in DOMAIN r.new.promos : PromoRow(r.new.promos[p])
      /\ \A p \in DOMAIN db.promos : PromoRow(db.promos[p])
      /\ \A p \in DOMAIN r.seen.promos : /\ p \in DOMAIN r.new.promos
                                         /\ r.new.promos[p].shown = r.seen.promos[p].shown
                                         /\ r.new.promos[p].until \in {r.seen.promos[p].until, r.seen.clock[1].now}
  BY DEF PubTables, PubWork
<1>4. r.seen.clock[1].now <= db.clock[1].now
  BY DEF PubStands
<1>5. \A p : p \in DOMAIN d.promos <=>
          p \in DOMAIN db.promos \/ (p \in DOMAIN r.new.promos /\ p \notin DOMAIN r.seen.promos)
  BY <1>1, <1>3 DEF IsMerge
<1>6. ASSUME NEW p \in DOMAIN db.promos
      PROVE  PromoRow(d.promos[p]) /\ (Over(db, p) => Over(d, p)) /\ d.promos[p].shown = db.promos[p].shown
  <2>1. CASE p \in DOMAIN r.seen.promos
    <3> DEFINE x == db.promos[p]
               y == r.seen.promos[p]
               z == r.new.promos[p]
    <3>1. PromoRow(x) /\ PromoRow(z) /\ z.shown = y.shown /\ z.until \in {y.until, r.seen.clock[1].now}
      BY <1>3, <2>1
    <3>2. d.promos[p] = Column(x, y, z)
      BY <1>1, <1>3, <2>1 DEF IsMerge
    <3> HIDE DEF x, y, z
    <3>3. DOMAIN x = {"active", "from", "until", "shown"}
      BY <3>1 DEF PromoRow
    <3>4. Column(x, y, z) = [active |-> Column(x, y, z).active, from |-> Column(x, y, z).from,
                             until |-> Column(x, y, z).until, shown |-> Column(x, y, z).shown]
      BY <3>3 DEF Column
    <3>5. /\ Column(x, y, z).shown = x.shown
          /\ Column(x, y, z).until = x.until \/ (Column(x, y, z).until = z.until /\ z.until # y.until)
      BY <3>1, <3>3 DEF Column
    <3>6. Column(x, y, z).until \in Int /\ PromoRow(Column(x, y, z))
      BY <3>1, <3>4, <3>5 DEF PromoRow
    <3>7. Column(x, y, z).until = x.until \/ Column(x, y, z).until = r.seen.clock[1].now
      BY <3>1, <3>5
    <3>8. Over(db, p) => Over(d, p)
      <4>1. Column(x, y, z).until = r.seen.clock[1].now => Column(x, y, z).until <= db.clock[1].now
        BY <1>4
      <4> QED BY <1>2, <3>2, <3>7, <4>1 DEF Over, x
    <3> QED BY <3>2, <3>5, <3>6, <3>8 DEF x
  <2>2. CASE p \notin DOMAIN r.seen.promos
    <3>1. p \notin DOMAIN r.new.promos
      BY <2>2 DEF PubStands
    <3>2. d.promos[p] = db.promos[p]
      BY <1>1, <2>2, <3>1 DEF IsMerge
    <3> QED BY <1>2, <1>3, <3>2 DEF Over
  <2> QED BY <2>1, <2>2
<1>7. ASSUME NEW p \in DOMAIN d.promos PROVE PromoRow(d.promos[p])
  <2>1. CASE p \in DOMAIN db.promos
    BY <1>6, <2>1
  <2>2. CASE p \notin DOMAIN db.promos
    BY <1>1, <1>3, <1>5, <2>2 DEF IsMerge
  <2> QED BY <2>1, <2>2
<1> QED BY <1>5, <1>6, <1>7 DEF d

\* What a commit leaves, before its cascade.
LEMMA PubFlushed ==
    ASSUME PubTables(db), NEW r, PubWork(r.seen, r.new, r.holds), PubStands(r, db)
    PROVE  PubKept(Flushed(r))
<1> DEFINE d == Flushed(r)
<1>1. PubRecord(d) /\ ClockShape(d)
  BY PubMerged, ClockFlushed DEF PubTables, PubWork
<1>2. \A p \in DOMAIN db.posts : PostStands(d, p) \/ PostModerated(d, r, p)
  BY PostFlushed
<1>3. \A p \in DOMAIN d.posts : p \notin DOMAIN db.posts => Counted(d, p)
  BY PostOpened
<1>4. /\ \A p \in DOMAIN d.promos : PromoRow(d.promos[p])
      /\ \A p \in DOMAIN db.promos : p \in DOMAIN d.promos
      /\ \A p \in DOMAIN db.promos : (Over(db, p) => Over(d, p)) /\ d.promos[p].shown = db.promos[p].shown
  BY PromosFlushed
<1>5. \A b \in DOMAIN d.banners : d.banners[b] \in BannerRow
  BY BannersFlushed
<1> HIDE DEF d
<1>6. ASSUME NEW p \in DOMAIN d.posts PROVE Counted(d, p)
  <2>1. CASE p \in DOMAIN db.posts /\ PostStands(d, p)
    <3>1. Counted(db, p)
      BY <2>1 DEF PubTables
    <3> QED BY <2>1, <3>1, CountedSame DEF PostStands
  <2>2. CASE PostModerated(d, r, p)
    BY <2>2, CountedSame DEF PostModerated
  <2> QED BY <1>2, <1>3, <2>1, <2>2
<1>7. \A p \in DOMAIN db.posts : db.posts[p].removed # None => d.posts[p] = db.posts[p]
  BY <1>2 DEF PostStands, PostModerated
<1>8. PubKept(d)
  BY <1>1, <1>4, <1>5, <1>6, <1>7 DEF PubKept, PubLasts, Tallies
<1> QED BY <1>8 DEF d

\* And to the others: their ids are still free, their posts as they locked them.
LEMMA PubOthers ==
    ASSUME PubTables(db), NEW r, PubWork(r.seen, r.new, r.holds), PubStands(r, db),
           NEW q, PubStands(q, db), PubApart(q, r)
    PROVE  PubStands(q, Flushed(r))
<1> DEFINE d == Flushed(r)
<1>1. d.clock[1] = db.clock[1]
  BY ClockFlushed
<1>2. \A p \in DOMAIN db.posts : PostStands(d, p) \/ PostModerated(d, r, p)
  BY PostFlushed
<1>3. \A p \in DOMAIN d.posts : p \notin DOMAIN db.posts => p \in DOMAIN r.new.posts /\ p \notin DOMAIN r.seen.posts
  BY PostOpened
<1>4. \A p : p \in DOMAIN d.promos <=>
          p \in DOMAIN db.promos \/ (p \in DOMAIN r.new.promos /\ p \notin DOMAIN r.seen.promos)
  BY PromosFlushed
<1> HIDE DEF d
<1>5. \A p \in DOMAIN q.new.posts : p \notin DOMAIN q.seen.posts => p \notin DOMAIN d.posts
  BY <1>3 DEF PubStands, PubApart
<1>6. ASSUME NEW p \in DOMAIN q.seen.posts, <<"posts", p>> \in q.holds
      PROVE  p \in DOMAIN d.posts /\ d.posts[p] = q.seen.posts[p] /\ Reports(d, p) = Reports(q.seen, p)
  <2>1. p \in DOMAIN db.posts /\ db.posts[p] = q.seen.posts[p] /\ Reports(db, p) = Reports(q.seen, p)
    BY <1>6 DEF PubStands
  <2>2. <<"posts", p>> \notin r.holds
    BY <1>6 DEF PubApart
  <2>3. PostStands(d, p)
    BY <1>2, <2>1, <2>2 DEF PostModerated
  <2> QED BY <2>1, <2>3 DEF PostStands
<1>7. \A p \in DOMAIN q.new.promos : p \notin DOMAIN q.seen.promos => p \notin DOMAIN d.promos
  BY <1>4 DEF PubStands, PubApart
<1>8. PubStands(q, d)
  BY <1>1, <1>4, <1>5, <1>6, <1>7 DEF PubStands
<1> QED BY <1>8 DEF d

LEMMA PubSettled ==
    ASSUME NEW d, PubKept(d), NEW e \in Publishing!Settle(d)
    PROVE  PubTables(e) /\ PubLasts(e) /\ PubAsMade(e, d)
<1>1. PICK rows : rows = Publishing!Drop(d.reports, {x \in DOMAIN d.reports : x[1] \notin DOMAIN d.posts})
  OBVIOUS
<1>2. PubRecord(d) /\ e = [d EXCEPT !.reports = rows]
  BY <1>1 DEF PubKept, Publishing!Settle
<1>3. /\ PubRecord(e) /\ e.reports = rows
      /\ e.posts = d.posts /\ e.promos = d.promos /\ e.banners = d.banners /\ e.clock = d.clock
      /\ e.store = d.store /\ e.reviews = d.reviews
  BY <1>2 DEF PubRecord
<1>4. \A x : x \in DOMAIN e.reports <=> x \in DOMAIN d.reports /\ x[1] \in DOMAIN d.posts
  BY <1>1, <1>3 DEF Publishing!Drop
<1>5. \A p \in DOMAIN d.posts : Reports(e, p) = Reports(d, p)
  BY <1>4 DEF Reports
<1>6. \A p \in DOMAIN e.posts : Counted(e, p)
  BY <1>3, <1>5, CountedSame DEF PubKept
<1>7. PubTables(e)
  BY <1>3, <1>4, <1>6 DEF PubTables, PubKept, ClockShape
<1>8. PubLasts(e)
  BY <1>3 DEF PubKept, PubLasts, Over, Tallies
<1> QED BY <1>3, <1>5, <1>7, <1>8 DEF PubAsMade

LEMMA StandsSettled ==
    ASSUME NEW q, NEW d, NEW e, PubAsMade(e, d), PubStands(q, d)
    PROVE  PubStands(q, e)
BY DEF PubAsMade, PubStands

LEMMA RatedSettled ==
    ASSUME NEW d, NEW e, PubAsMade(e, d), Rated(d)
    PROVE  Rated(e)
BY DEF PubAsMade, Rated

\* What is over stays over (the third part of OverIsOver).
LEMMA LastsMeans ==
    ASSUME PubLasts(db')
    PROVE  Publishing!GoneForGood
<1>1. \A p \in DOMAIN db.promos : /\ Publishing!Ended(db, p) <=> Over(db, p)
                                  /\ Publishing!Ended(db', p) <=> Over(db', p)
  BY DEF Publishing!Ended, Publishing!EndedBy, Publishing!Now, Over
<1> QED BY <1>1 DEF PubLasts, Tallies, Publishing!GoneForGood, Publishing!EndedBy

\* ---- The steps ----
\* A request whose result is written at once.
LEMMA PubWritten ==
    ASSUME PubTables(db), NEW new, NEW holds, PubWork(db, new, holds)
    PROVE  PubKept(new)
<1>1. /\ PubRecord(new) /\ ClockShape(new) /\ new.clock = db.clock
      /\ \A b \in DOMAIN new.banners : new.banners[b] \in BannerRow
      /\ \A p \in DOMAIN new.promos : PromoRow(new.promos[p])
  BY DEF PubTables, PubWork, ClockShape
<1>2. ASSUME NEW p \in DOMAIN new.posts PROVE Counted(new, p)
  <2>1. CASE p \in DOMAIN db.posts
    BY <2>1, CountedSame DEF PubWork, PubTables, Moderates
  <2>2. CASE p \notin DOMAIN db.posts
    <3>1. PostRow(new.posts[p]) /\ new.posts[p].count = 0
      BY <2>2 DEF PubWork
    <3>2. Reports(new, p) = {}
      BY <2>2 DEF PubWork, PubTables, Reports
    <3> QED BY <3>1, <3>2, FS_EmptySet DEF Counted
  <2> QED BY <2>1, <2>2
<1>3. \A p \in DOMAIN db.posts : db.posts[p].removed # None => new.posts[p] = db.posts[p]
  BY DEF PubWork, Moderates
<1>4. ASSUME NEW p \in DOMAIN db.promos
      PROVE  /\ p \in DOMAIN new.promos
             /\ (Over(db, p) => Over(new, p)) /\ new.promos[p].shown = db.promos[p].shown
  <2>1. /\ p \in DOMAIN new.promos /\ new.promos[p].shown = db.promos[p].shown
        /\ new.promos[p].until \in {db.promos[p].until, db.clock[1].now}
    BY DEF PubWork
  <2>2. db.clock[1].now <= db.clock[1].now
    BY DEF PubTables, ClockShape
  <2> QED BY <1>1, <2>1, <2>2 DEF Over
<1> QED BY <1>1, <1>2, <1>3, <1>4 DEF PubKept, PubLasts, Tallies

LEMMA PubServed ==
    ASSUME PubInv, NEW s \in Clerks, NEW call, NEW holds, NEW results,
           \A new \in results : PubBegins(new, holds),
           Publishing!ServeHolding(s, call, holds, results, Publishing!Settle)
    PROVE  PubStep
<1>1. /\ txn = [u \in Clerks |-> txn[u]] /\ PubTables(db) /\ PubOpen
      /\ InTurn => NoneOpen /\ Rated(db)
  BY DEF PubInv
<1>2. /\ script' = script
      /\ \A row \in holds : ~Locked(s, row)
      /\ \/ /\ ~InTurn /\ db' = db
            /\ \E new \in results : txn' = [txn EXCEPT ![s] = [seen |-> db, new |-> new, holds |-> holds]]
         \/ /\ InTurn /\ txn' = txn
            /\ \E new \in results : db' \in Publishing!Settle(new)
  BY PublishingIsDesk DEF Publishing!ServeHolding, InTurn
<1>3. InTurn' <=> InTurn
  BY <1>2 DEF InTurn
<1>4. CASE InTurn
  <2>1. PICK new \in results : db' \in Publishing!Settle(new)
    BY <1>2, <1>4
  <2>2. PubBegins(new, holds) /\ txn' = txn
    BY <1>2, <1>4
  <2>3. PubKept(new) /\ Rated(new)
    BY <1>1, <1>4, <2>2, PubWritten DEF PubBegins
  <2>4. PubTables(db') /\ PubLasts(db') /\ PubAsMade(db', new)
    BY <2>1, <2>3, PubSettled
  <2>5. Rated(db')
    BY <2>3, <2>4, RatedSettled
  <2>6. (txn = [u \in Clerks |-> txn[u]])' /\ PubOpen' /\ NoneOpen'
    BY <1>1, <1>4, <2>2 DEF PubOpen, NoneOpen
  <2> QED BY <1>3, <2>4, <2>5, <2>6, LastsMeans DEF PubStep, PubInv
<1>5. CASE ~InTurn
  <2>1. PICK new \in results : txn' = [txn EXCEPT ![s] = [seen |-> db, new |-> new, holds |-> holds]]
    BY <1>2, <1>5
  <2>2. PubBegins(new, holds) /\ db' = db
    BY <1>2, <1>5
  <2> DEFINE r == [seen |-> db, new |-> new, holds |-> holds]
  <2>3. /\ txn' = [u \in Clerks |-> txn'[u]] /\ txn'[s] = r
        /\ \A u \in Clerks : u # s => txn'[u] = txn[u]
    BY <1>1, <2>1
  <2>4. r.seen = db /\ r.new = new /\ r.holds = holds
    OBVIOUS
  <2> HIDE DEF r
  <2>5. "posts" \in DOMAIN db /\ "promos" \in DOMAIN db
    BY <1>1 DEF PubTables, PubRecord
  <2>6. PubWork(r.seen, r.new, r.holds) /\ PubStands(r, db)
    <3>1. PubWork(db, new, holds)
      BY <2>2 DEF PubBegins
    <3>2. db.clock[1].now \in Int /\ db.clock[1].now <= db.clock[1].now
      BY <1>1 DEF PubTables, ClockShape
    <3> QED BY <2>4, <3>1, <3>2 DEF PubStands
  <2>7. ASSUME NEW u \in Clerks, u # s, txn[u] # None
        PROVE  PubApart(txn[u], r) /\ PubApart(r, txn[u])
    <3>1. \A p \in DOMAIN new.posts : p \notin DOMAIN db.posts => p \notin DOMAIN txn[u].new.posts
      BY <2>2, <2>5, <2>7, FreshIds DEF PubBegins
    <3>2. \A p \in DOMAIN new.promos : p \notin DOMAIN db.promos => p \notin DOMAIN txn[u].new.promos
      BY <2>2, <2>5, <2>7, FreshIds DEF PubBegins
    <3>3. holds \cap txn[u].holds = {}
      BY <1>2, <2>7 DEF Locked
    <3> QED BY <2>4, <3>1, <3>2, <3>3 DEF PubApart
  <2>8. PubOpen'
    BY <1>1, <2>2, <2>3, <2>6, <2>7 DEF PubOpen
  <2>9. PubLasts(db')
    BY <2>2 DEF PubLasts, Tallies
  <2> QED BY <1>1, <1>3, <1>5, <2>2, <2>3, <2>8, <2>9, LastsMeans DEF PubStep, PubInv
<1> QED BY <1>4, <1>5

LEMMA PubCommitted ==
    ASSUME PubInv, NEW s \in Clerks, Publishing!Commit(s, Publishing!Settle)
    PROVE  PubStep
<1> DEFINE r == txn[s]
           d == Flushed(r)
<1>1. /\ txn = [u \in Clerks |-> txn[u]] /\ PubTables(db) /\ PubOpen /\ r # None
      /\ InTurn => NoneOpen
  BY DEF PubInv, Publishing!Commit
<1>2. script' = script /\ txn' = [txn EXCEPT ![s] = None] /\ db' \in Publishing!Settle(d)
  BY PublishingIsDesk DEF Publishing!Commit, Flushed
<1>3. ~InTurn /\ ~InTurn'
  BY <1>1, <1>2 DEF NoneOpen, InTurn
<1>4. PubWork(r.seen, r.new, r.holds) /\ PubStands(r, db)
  BY <1>1 DEF PubOpen
<1>5. PubTables(db') /\ PubLasts(db') /\ PubAsMade(db', d)
  <2>1. PubKept(d)
    BY <1>1, <1>4, PubFlushed
  <2> HIDE DEF d
  <2> QED BY <1>2, <2>1, PubSettled
<1>6. ASSUME NEW u \in Clerks, u # s, txn[u] # None PROVE PubStands(txn[u], db')
  <2>1. PubStands(txn[u], db) /\ PubApart(txn[u], r)
    BY <1>1, <1>6 DEF PubOpen
  <2>2. PubStands(txn[u], d)
    BY <1>1, <1>4, <2>1, PubOthers
  <2> HIDE DEF d
  <2> QED BY <1>5, <2>2, StandsSettled
<1>7. /\ txn' = [u \in Clerks |-> txn'[u]] /\ txn'[s] = None
      /\ \A u \in Clerks : u # s => txn'[u] = txn[u]
  BY <1>1, <1>2
<1>8. PubOpen'
  BY <1>1, <1>6, <1>7 DEF PubOpen
<1> QED BY <1>3, <1>5, <1>7, <1>8, LastsMeans DEF PubStep, PubInv

LEMMA PubAborted ==
    ASSUME PubInv, NEW s \in Clerks, Publishing!Abort(s)
    PROVE  PubStep
<1>1. /\ txn = [u \in Clerks |-> txn[u]] /\ PubTables(db) /\ PubOpen
      /\ InTurn => NoneOpen /\ Rated(db)
      /\ txn' = [txn EXCEPT ![s] = None] /\ db' = db /\ script' = script
  BY DEF PubInv, Publishing!Abort
<1>2. /\ txn' = [u \in Clerks |-> txn'[u]] /\ txn'[s] = None
      /\ \A u \in Clerks : u # s => txn'[u] = txn[u]
  BY <1>1
<1>3. PubOpen' /\ (NoneOpen => NoneOpen')
  BY <1>1, <1>2 DEF PubOpen, NoneOpen
<1>4. PubLasts(db')
  BY <1>1 DEF PubLasts, Tallies
<1> QED BY <1>1, <1>2, <1>3, <1>4, LastsMeans DEF PubStep, PubInv, InTurn

\* A statement of its own, whose rows nobody holds.
LEMMA PubStated ==
    ASSUME PubInv, NEW new, db' \in Publishing!Settle(new), UNCHANGED <<txn, script>>, PubKept(new),
           InTurn /\ Rated(db) => Rated(new),
           \A s \in Clerks : txn[s] # None => PubStands(txn[s], new)
    PROVE  PubStep
<1>1. /\ txn = [u \in Clerks |-> txn[u]] /\ PubOpen
      /\ InTurn => NoneOpen /\ Rated(db)
  BY DEF PubInv
<1>2. PubTables(db') /\ PubLasts(db') /\ PubAsMade(db', new)
  BY PubSettled
<1>3. InTurn => Rated(db')
  BY <1>1, <1>2, RatedSettled
<1>4. PubOpen' /\ (NoneOpen => NoneOpen')
  BY <1>1, <1>2, StandsSettled DEF PubOpen, NoneOpen
<1> QED BY <1>1, <1>2, <1>3, <1>4, LastsMeans DEF PubStep, PubInv, InTurn

LEMMA UntouchedStated ==
    ASSUME PubInv, NEW new, db' \in Publishing!Settle(new), UNCHANGED <<txn, script>>, Untouched(new),
           Rated(db) => Rated(new)
    PROVE  PubStep
<1>1. PubTables(db) /\ PubOpen
  BY DEF PubInv
<1>2. \A p : Reports(new, p) = Reports(db, p)
  BY DEF Reports, Untouched
<1>3. PubKept(new)
  BY <1>1, <1>2 DEF PubKept, PubLasts, PubTables, Untouched, Counted, ClockShape, Over, Tallies
<1>4. \A s \in Clerks : txn[s] # None => PubStands(txn[s], new)
  BY <1>1, <1>2 DEF PubOpen, PubStands, Untouched
<1> QED BY <1>3, <1>4, PubStated

\* An account goes and its posts with it.
LEMMA PostsDeleted ==
    ASSUME PubInv, NEW u, Publishing!Statement("remove", Publishing!delete_posts(db, u), Publishing!Settle)
    PROVE  PubStep
<1>1. PubTables(db) /\ PubOpen /\ PubRecord(db)
  BY DEF PubInv, PubTables
<1>2. PICK new \in Publishing!delete_posts(db, u) :
          /\ db' \in Publishing!Settle(new) /\ UNCHANGED <<txn, script>>
          /\ \A row \in Writes([seen |-> db, new |-> new]) : \A s \in Clerks :
                txn[s] # None => row \notin txn[s].holds
  BY PublishingIsDesk DEF Publishing!Statement
<1>3. PICK posts : posts = Publishing!Drop(db.posts, {p \in DOMAIN db.posts : db.posts[p].author = u})
  OBVIOUS
<1>4. new = [db EXCEPT !.posts = posts]
  BY <1>2, <1>3 DEF Publishing!delete_posts
<1>5. /\ PubRecord(new) /\ new.posts = posts
      /\ new.reports = db.reports /\ new.banners = db.banners /\ new.promos = db.promos
      /\ new.clock = db.clock /\ new.store = db.store /\ new.reviews = db.reviews
  BY <1>1, <1>4 DEF PubRecord
<1>6. \A p \in DOMAIN new.posts : p \in DOMAIN db.posts /\ new.posts[p] = db.posts[p]
  BY <1>3, <1>5 DEF Publishing!Drop
<1>7. \A p : Reports(new, p) = Reports(db, p)
  BY <1>5 DEF Reports
<1>8. PubKept(new)
  <2>1. \A p \in DOMAIN new.posts : Counted(new, p)
    BY <1>1, <1>6, <1>7, CountedSame DEF PubTables
  <2>2. PubLasts(new)
    BY <1>5, <1>6 DEF PubLasts, Over, Tallies
  <2> QED BY <1>1, <1>5, <2>1, <2>2 DEF PubKept, PubTables, ClockShape
<1>9. ASSUME NEW s \in Clerks, txn[s] # None, NEW p \in DOMAIN db.posts, <<"posts", p>> \in txn[s].holds
      PROVE  p \in DOMAIN new.posts
  <2> DEFINE r == [seen |-> db, new |-> new]
  <2>1. r.seen = db /\ r.new = new /\ "posts" \in DOMAIN db
    BY <1>1 DEF PubRecord
  <2>2. \A row \in Writes(r) : row \notin txn[s].holds
    BY <1>2, <1>9
  <2> HIDE DEF r
  <2>3. <<"posts", p>> \notin Writes(r)
    BY <1>9, <2>2
  <2>4. p \notin DOMAIN r.new["posts"] => <<"posts", p>> \in Writes(r)
    BY <2>1 DEF Writes
  <2> QED BY <2>1, <2>3, <2>4
<1>10. ASSUME NEW s \in Clerks, txn[s] # None PROVE PubStands(txn[s], new)
  <2>1. PubStands(txn[s], db)
    BY <1>1, <1>10 DEF PubOpen
  <2>2. \A p \in DOMAIN txn[s].seen.posts : <<"posts", p>> \in txn[s].holds =>
            /\ p \in DOMAIN new.posts /\ new.posts[p] = txn[s].seen.posts[p]
            /\ Reports(new, p) = Reports(txn[s].seen, p)
    BY <1>6, <1>7, <1>9, <1>10, <2>1 DEF PubStands
  <2>3. \A p \in DOMAIN txn[s].new.posts : p \notin DOMAIN txn[s].seen.posts => p \notin DOMAIN new.posts
    BY <1>6, <2>1 DEF PubStands
  <2> QED BY <1>5, <2>1, <2>2, <2>3 DEF PubStands
<1>11. Rated(db) => Rated(new)
  BY <1>5 DEF Rated
<1> QED BY <1>2, <1>8, <1>10, <1>11, PubStated

\* Orders are delivered, dishes deleted, the store switched on and off.
LEMMA AroundIt ==
    ASSUME PubInv,
           \/ \E o \in Orders : Publishing!Statement("review", Publishing!deliver(db, o), Publishing!Settle)
           \/ Publishing!Statement("reel", Publishing!delete_dish(db), Publishing!Settle)
           \/ Publishing!Statement("reel", Publishing!switch_store(db), Publishing!Settle)
    PROVE  PubStep
<1>1. PubRecord(db)
  BY DEF PubInv, PubTables
<1>2. CASE \E o \in Orders : Publishing!Statement("review", Publishing!deliver(db, o), Publishing!Settle)
  <2>0. PICK o \in Orders : Publishing!Statement("review", Publishing!deliver(db, o), Publishing!Settle)
    BY <1>2
  <2>1. PICK new \in Publishing!deliver(db, o) :
            db' \in Publishing!Settle(new) /\ UNCHANGED <<txn, script>>
    BY <2>0 DEF Publishing!Statement
  <2>2. new = [db EXCEPT !.orders[o].delivered = TRUE]
    BY <2>1 DEF Publishing!deliver
  <2>3. Untouched(new) /\ new.store = db.store
    BY <1>1, <2>2 DEF Untouched, PubRecord
  <2> QED BY <2>1, <2>3, UntouchedStated DEF Rated, Untouched
<1>3. CASE Publishing!Statement("reel", Publishing!delete_dish(db), Publishing!Settle)
  <2>1. PICK new \in Publishing!delete_dish(db) :
            db' \in Publishing!Settle(new) /\ UNCHANGED <<txn, script>>
    BY <1>3 DEF Publishing!Statement
  <2>2. new = [db EXCEPT !.dish[1].live = FALSE]
    BY <2>1 DEF Publishing!delete_dish
  <2>3. Untouched(new) /\ new.store = db.store
    BY <1>1, <2>2 DEF Untouched, PubRecord
  <2> QED BY <2>1, <2>3, UntouchedStated DEF Rated, Untouched
<1>4. CASE Publishing!Statement("reel", Publishing!switch_store(db), Publishing!Settle)
  <2>1. PICK new \in Publishing!switch_store(db) :
            db' \in Publishing!Settle(new) /\ UNCHANGED <<txn, script>>
    BY <1>4 DEF Publishing!Statement
  <2>2. PICK shown : new = [db EXCEPT !.store[1].visible = shown]
    BY <2>1 DEF Publishing!switch_store
  <2>3. Untouched(new)
    BY <1>1, <2>2 DEF Untouched, PubRecord
  <2>4. ASSUME Rated(db) PROVE Rated(new)
    <3>1. /\ 1 \in DOMAIN db.store
          /\ db.store[1] = [sum |-> db.store[1].sum, count |-> db.store[1].count, visible |-> db.store[1].visible]
          /\ [sum |-> db.store[1].sum, count |-> db.store[1].count] = Publishing!Ratings(db.reviews)
      BY <2>4 DEF Rated
    <3>2. 1 \in DOMAIN new.store /\ new.store[1] = [db.store[1] EXCEPT !.visible = shown]
      BY <1>1, <2>2, <3>1 DEF PubRecord
    <3>3. /\ new.store[1] = [sum |-> new.store[1].sum, count |-> new.store[1].count, visible |-> new.store[1].visible]
          /\ new.store[1].sum = db.store[1].sum /\ new.store[1].count = db.store[1].count
      BY <3>1, <3>2
    <3> QED BY <2>3, <3>1, <3>2, <3>3 DEF Rated, Untouched
  <2> QED BY <2>1, <2>3, <2>4, UntouchedStated
<1> QED BY <1>2, <1>3, <1>4

\* A batch comes in, and what the campaigns live at its hour count.
LEMMA EventsReceived ==
    ASSUME PubInv, Publishing!Statement("promo", Publishing!receive_events(db), Publishing!Settle)
    PROVE  PubStep
<1>1. PubRecord(db)
  BY DEF PubInv, PubTables
<1>2. PICK new \in Publishing!receive_events(db) :
          db' \in Publishing!Settle(new) /\ UNCHANGED <<txn, script>>
  BY DEF Publishing!Statement
<1>3. \E rows : new = [db EXCEPT !.batches = rows]
  BY DEF Publishing!receive_events, Publishing!Insert
<1>4. Untouched(new) /\ new.store = db.store
  BY <1>1, <1>3 DEF PubRecord, Untouched
<1>5. Rated(db) => Rated(new)
  BY <1>4 DEF Rated, Untouched
<1> QED BY <1>2, <1>4, <1>5, UntouchedStated

LEMMA EventsRecorded ==
    ASSUME PubInv, NEW b \in DOMAIN db.batches,
           Publishing!Statement("promo", Publishing!record_events(db, b), Publishing!Settle)
    PROVE  PubStep
<1>1. PubTables(db) /\ PubOpen /\ PubRecord(db)
  BY DEF PubInv, PubTables
<1>2. PICK new \in Publishing!record_events(db, b) :
          db' \in Publishing!Settle(new) /\ UNCHANGED <<txn, script>>
  BY DEF Publishing!Statement
<1> DEFINE live == {p \in Publishing!Started(db, b) : ~Publishing!EndedBy(db, p, db.batches[b].at)}
           counted == [db EXCEPT !.promos = Publishing!Change(db.promos, live, LAMBDA p : [p EXCEPT !.shown = p.shown + 1])]
<1>3. new = counted \/ \E rows : new = [counted EXCEPT !.batches = rows]
  BY <1>2, Zenon DEF Publishing!record_events, Publishing!Counting
<1>4. \A p \in live : ~(db.promos[p].until <= db.batches[b].at)
  BY DEF Publishing!EndedBy
<1> HIDE DEF live
<1>5. counted = [db EXCEPT !.promos = [p \in DOMAIN db.promos |->
                 IF p \in live THEN [db.promos[p] EXCEPT !.shown = db.promos[p].shown + 1] ELSE db.promos[p]]]
  BY DEF Publishing!Change
<1> HIDE DEF counted
<1>a. /\ PubRecord(new) /\ new.posts = db.posts /\ new.reports = db.reports /\ new.banners = db.banners
      /\ new.clock = db.clock /\ new.store = db.store /\ new.reviews = db.reviews
      /\ new.promos = [p \in DOMAIN db.promos |->
             IF p \in live THEN [db.promos[p] EXCEPT !.shown = db.promos[p].shown + 1] ELSE db.promos[p]]
  BY <1>1, <1>3, <1>5, Zenon DEF PubRecord
<1>6. /\ PubRecord(new) /\ new.posts = db.posts /\ new.reports = db.reports /\ new.banners = db.banners
      /\ new.clock = db.clock /\ new.store = db.store /\ new.reviews = db.reviews
      /\ DOMAIN new.promos = DOMAIN db.promos
      /\ \A p \in DOMAIN db.promos : new.promos[p] =
            IF p \in live THEN [db.promos[p] EXCEPT !.shown = db.promos[p].shown + 1] ELSE db.promos[p]
  BY <1>a
<1>7. \A p : Reports(new, p) = Reports(db, p)
  BY <1>6 DEF Reports
<1>8. ASSUME NEW p \in DOMAIN db.promos
      PROVE  /\ PromoRow(new.promos[p])
             /\ Over(db, p) => Over(new, p)
             /\ Tallies(new, p)
  <2>1. PromoRow(db.promos[p])
    BY <1>1 DEF PubTables
  <2>2. /\ PromoRow(new.promos[p]) /\ new.promos[p].until = db.promos[p].until
        /\ new.promos[p].shown = IF p \in live THEN db.promos[p].shown + 1 ELSE db.promos[p].shown
    BY <1>6, <2>1 DEF PromoRow
  <2> QED BY <1>4, <1>6, <2>2 DEF Over, Tallies
<1>9. \A p \in DOMAIN new.posts : Counted(new, p)
  BY <1>1, <1>6, <1>7 DEF Counted, PubTables
<1>10. PubKept(new)
  BY <1>1, <1>6, <1>8, <1>9 DEF PubKept, PubLasts, PubTables, ClockShape
<1>11. \A s \in Clerks : txn[s] # None => PubStands(txn[s], new)
  BY <1>1, <1>6, <1>7 DEF PubOpen, PubStands
<1>12. Rated(db) => Rated(new)
  BY <1>6 DEF Rated
<1> QED BY <1>2, <1>10, <1>11, <1>12, PubStated

LEMMA ClockTicks ==
    ASSUME PubInv, NEW call, Publishing!Statement(call, Publishing!tick(db), Publishing!Settle)
    PROVE  PubStep
<1>1. PubTables(db) /\ PubOpen /\ PubRecord(db) /\ ClockShape(db)
  BY DEF PubInv, PubTables
<1>2. PICK new \in Publishing!tick(db) :
          db' \in Publishing!Settle(new) /\ UNCHANGED <<txn, script>>
  BY DEF Publishing!Statement
<1> DEFINE n == db.clock[1].now + 1
<1>3. new = [db EXCEPT !.clock[1].now = n]
  BY <1>2 DEF Publishing!tick, Publishing!Now
<1>4. n \in Int /\ db.clock[1].now <= n
  BY <1>1 DEF ClockShape
<1> HIDE DEF n
<1>5. /\ PubRecord(new) /\ new.posts = db.posts /\ new.reports = db.reports /\ new.banners = db.banners
      /\ new.promos = db.promos /\ new.store = db.store /\ new.reviews = db.reviews
      /\ 1 \in DOMAIN new.clock /\ new.clock[1] = [db.clock[1] EXCEPT !.now = n]
  BY <1>1, <1>3 DEF PubRecord, ClockShape
<1>6. ClockShape(new) /\ new.clock[1].now = n
  BY <1>1, <1>4, <1>5 DEF ClockShape
<1>7. \A p : Reports(new, p) = Reports(db, p)
  BY <1>5 DEF Reports
<1>8. \A p \in DOMAIN db.promos : Over(db, p) => Over(new, p)
  <2> SUFFICES ASSUME NEW p \in DOMAIN db.promos, Over(db, p) PROVE Over(new, p)
    OBVIOUS
  <2>1. db.promos[p].until \in Int /\ db.promos[p].until <= db.clock[1].now /\ db.clock[1].now \in Int
    BY <1>1 DEF Over, PubTables, PromoRow, ClockShape
  <2> QED BY <1>4, <1>5, <1>6, <2>1 DEF Over
<1>9. \A p \in DOMAIN new.posts : Counted(new, p)
  BY <1>1, <1>5, <1>7 DEF Counted, PubTables
<1>10. PubKept(new)
  BY <1>1, <1>5, <1>6, <1>8, <1>9 DEF PubKept, PubLasts, PubTables, Tallies
<1>11. ASSUME NEW s \in Clerks, txn[s] # None PROVE PubStands(txn[s], new)
  <2>1. PubStands(txn[s], db) /\ PubWork(txn[s].seen, txn[s].new, txn[s].holds)
    BY <1>1, <1>11 DEF PubOpen
  <2>2. txn[s].seen.clock[1].now <= n
    BY <1>1, <1>4, <2>1 DEF ClockShape, PubStands
  <2> QED BY <1>5, <1>6, <1>7, <2>1, <2>2 DEF PubStands
<1>12. Rated(db) => Rated(new)
  BY <1>5 DEF Rated
<1> QED BY <1>2, <1>10, <1>11, <1>12, PubStated

\* No reviews rate nothing.
LEMMA NoRating ==
    ASSUME NEW reviews, DOMAIN reviews = {}
    PROVE  Publishing!Ratings(reviews) = [sum |-> 0, count |-> 0]
<1> DEFINE F(f) == f = [s \in SUBSET {} |->
                IF s = {} THEN 0
                ELSE LET x == CHOOSE x \in s : TRUE IN reviews[x].stars + f[s \ {x}]]
           g == [s \in SUBSET {} |-> 0]
           it == CHOOSE f : F(f)
<1>1. F(g)
  OBVIOUS
<1>2. F(it)
  <2> HIDE DEF F, g
  <2> QED BY <1>1
<1>3. it[{}] = 0
  <2> HIDE DEF it
  <2> QED BY <1>2
<1>4. Publishing!MapThenSumSet(LAMBDA r : reviews[r].stars, {}) = it[{}]
  BY DEF Publishing!MapThenSumSet, Publishing!MapThenFoldSet
<1> HIDE DEF it
<1>5. Publishing!MapThenSumSet(LAMBDA r : reviews[r].stars, {}) = 0
  BY <1>3, <1>4
<1>6. Publishing!Cardinality(DOMAIN reviews) = 0
  BY PublishingIsDesk, FS_EmptySet
<1> QED BY <1>5, <1>6 DEF Publishing!Ratings

LEMMA PubInit ==
    ASSUME Publishing!Init
    PROVE  PubInv
<1>1. /\ db.posts = Nothing /\ db.reports = Nothing /\ db.reviews = Nothing
      /\ db.banners = Nothing /\ db.promos = Nothing
      /\ 1 \in DOMAIN db.store /\ db.store[1] = [sum |-> 0, count |-> 0, visible |-> TRUE]
      /\ 1 \in DOMAIN db.clock /\ db.clock[1] = [now |-> 0]
      /\ PubRecord(db)
      /\ txn = [s \in Clerks |-> None]
  BY DEF Publishing!Init, Publishing!Opens, Publishing!Nothing, Publishing!Only, Nothing, PubRecord
<1>2. DOMAIN Nothing = {}
  BY DEF Nothing
<1>3. PubTables(db)
  BY <1>1, <1>2 DEF PubTables, ClockShape
<1>4. Rated(db)
  <2>1. Publishing!Ratings(db.reviews) = [sum |-> 0, count |-> 0]
    BY <1>1, <1>2, NoRating
  <2> QED BY <1>1, <2>1 DEF Rated
<1> QED BY <1>1, <1>3, <1>4 DEF PubInv, PubOpen, NoneOpen

LEMMA PubNext ==
    ASSUME IdsAssumption, HorizonAssumption, PubInv, Publishing!Next
    PROVE  PubStep
<1>1. PubTables(db)
  BY DEF PubInv
<1>2. ASSUME NEW s \in Clerks, NEW call, NEW results, \A new \in results : PubBegins(new, {}),
             Publishing!Do(s, call, results)
      PROVE  PubStep
  BY <1>2, PubServed DEF Publishing!Do, Publishing!Serve
<1>3. \A at \in Publishing!Instants : at \in Int
  BY DEF HorizonAssumption, Publishing!Instants
<1>4. ASSUME NEW s \in Clerks, Publishing!Community(s) PROVE PubStep
  <2>1. ASSUME NEW u \in Users, Publishing!Do(s, "post", Publishing!create_post(db, u)) PROVE PubStep
    <3>1. \A new \in Publishing!create_post(db, u) : PubBegins(new, {})
      BY <1>1, PostBegins
    <3> QED BY <1>2, <2>1, <3>1
  <2>2. ASSUME NEW p \in DOMAIN db.posts, NEW call, NEW results,
               Publishing!ServeHolding(s, call, Publishing!PostLock(p),
                   IF db.posts[p].removed # None THEN {} ELSE results, Publishing!Settle),
               db.posts[p].removed = None => \A new \in results : PubBegins(new, Publishing!PostLock(p))
        PROVE  PubStep
    <3> DEFINE made == IF db.posts[p].removed # None THEN {} ELSE results
    <3>1. \A new \in made : PubBegins(new, Publishing!PostLock(p))
      BY <2>2
    <3>2. Publishing!ServeHolding(s, call, Publishing!PostLock(p), made, Publishing!Settle)
      BY <2>2
    <3> HIDE DEF made
    <3> QED BY <3>1, <3>2, PubServed
  <2>3. ASSUME NEW u \in Users, NEW p \in DOMAIN db.posts,
               Publishing!_live_post(s, p, "report", LAMBDA d : Publishing!report(d, p, u))
        PROVE  PubStep
    <3>1. Publishing!ServeHolding(s, "report", Publishing!PostLock(p),
              IF db.posts[p].removed # None THEN {} ELSE Publishing!report(db, p, u), Publishing!Settle)
      BY <2>3 DEF Publishing!_live_post
    <3>2. db.posts[p].removed = None =>
              \A new \in Publishing!report(db, p, u) : PubBegins(new, Publishing!PostLock(p))
      BY <1>1, ReportBegins
    <3> QED BY <2>2, <3>1, <3>2
  <2>4. ASSUME NEW p \in DOMAIN db.posts, NEW results,
               Publishing!ServeHolding(s, "remove", Publishing!PostLock(p),
                   IF db.posts[p].removed # None THEN {} ELSE results, Publishing!Settle),
               NEW u, \A new \in results : new = [db EXCEPT !.posts[p].removed = u]
        PROVE  PubStep
    <3>1. db.posts[p].removed = None => \A new \in results : PubBegins(new, Publishing!PostLock(p))
      BY <1>1, <2>4, RemoveBegins
    <3> QED BY <2>2, <2>4, <3>1
  <2>5. ASSUME NEW u \in Users, NEW p \in DOMAIN db.posts,
               Publishing!_live_post(s, p, "remove", LAMBDA d : Publishing!delete_own(d, p, u))
        PROVE  PubStep
    <3>1. Publishing!ServeHolding(s, "remove", Publishing!PostLock(p),
              IF db.posts[p].removed # None THEN {} ELSE Publishing!delete_own(db, p, u), Publishing!Settle)
      BY <2>5 DEF Publishing!_live_post
    <3>2. \A new \in Publishing!delete_own(db, p, u) : new = [db EXCEPT !.posts[p].removed = u]
      BY DEF Publishing!delete_own
    <3> QED BY <2>4, <3>1, <3>2
  <2>6. ASSUME NEW p \in DOMAIN db.posts,
               Publishing!_live_post(s, p, "remove", LAMBDA d : Publishing!remove(d, p))
        PROVE  PubStep
    <3>1. Publishing!ServeHolding(s, "remove", Publishing!PostLock(p),
              IF db.posts[p].removed # None THEN {} ELSE Publishing!remove(db, p), Publishing!Settle)
      BY <2>6 DEF Publishing!_live_post
    <3>2. \A new \in Publishing!remove(db, p) : new = [db EXCEPT !.posts[p].removed = "ADMIN"]
      BY DEF Publishing!remove
    <3> QED BY <2>4, <3>1, <3>2
  <2> QED BY <1>4, <2>1, <2>3, <2>5, <2>6 DEF Publishing!Community
<1>5. ASSUME NEW s \in Clerks, Publishing!Reviewing(s) PROVE PubStep
  <2>1. PICK o \in Orders, stars \in {1, 5} :
            Publishing!Do(s, "review", Publishing!create_review(db, s, o, stars))
    BY <1>5 DEF Publishing!Reviewing
  <2>2. \A new \in Publishing!create_review(db, s, o, stars) : PubBegins(new, {})
    BY <1>1, ReviewBegins
  <2> QED BY <1>2, <2>1, <2>2
<1>6. ASSUME NEW s \in Clerks, Publishing!Reels(s) PROVE PubStep
  <2>1. ASSUME NEW dish, Publishing!Do(s, "reel", Publishing!create_reel(db, dish)) PROVE PubStep
    BY <1>1, <1>2, <2>1, ReelCreated
  <2>2. ASSUME NEW r \in DOMAIN db.reels, NEW hidden, NEW reason, NEW dish, NEW results,
               results \in {Publishing!delete_reel(db, r), Publishing!hide(db, r, hidden, reason),
                            Publishing!explain(db, r, reason), Publishing!link(db, r, dish)},
               Publishing!Do(s, "reel", results)
        PROVE  PubStep
    <3>1. \A new \in results : PubBegins(new, {})
      BY <1>1, <2>2, ReelChanged
    <3> QED BY <1>2, <2>2, <3>1
  <2>3. CASE \E dish \in {None, 1} : Publishing!Do(s, "reel", Publishing!create_reel(db, dish))
    BY <2>1, <2>3
  <2>4. CASE \E r \in DOMAIN db.reels :
                \/ Publishing!Do(s, "reel", Publishing!delete_reel(db, r))
                \/ \E reason \in {None, "why"} :
                      \/ \E hidden \in BOOLEAN : Publishing!Do(s, "reel", Publishing!hide(db, r, hidden, reason))
                      \/ Publishing!Do(s, "reel", Publishing!explain(db, r, reason))
                \/ \E dish \in {None, 1} : Publishing!Do(s, "reel", Publishing!link(db, r, dish))
    BY <2>2, <2>4
  <2> QED BY <1>6, <2>3, <2>4 DEF Publishing!Reels
<1>7. ASSUME NEW s \in Clerks, Publishing!Banners(s) PROVE PubStep
  <2>1. ASSUME NEW b \in [active : BOOLEAN, starts : Publishing!Instants \cup {None},
                          ends : Publishing!Instants \cup {None}],
               Publishing!Do(s, "banner", Publishing!create_banner(db, b))
        PROVE  PubStep
    <3>1. b \in BannerRow
      BY <1>3, <2>1 DEF BannerRow
    <3>2. \A new \in Publishing!create_banner(db, b) : PubBegins(new, {})
      BY <1>1, <3>1, BannerCreated
    <3> QED BY <1>2, <2>1, <3>2
  <2>2. ASSUME NEW b \in DOMAIN db.banners, NEW field, NEW value,
               \/ field \in {"starts", "ends"} /\ value \in Int \cup {None}
               \/ field = "active" /\ value \in BOOLEAN,
               Publishing!Do(s, "banner", Publishing!update_banner(db, b, field, value))
        PROVE  PubStep
    <3>1. \A new \in Publishing!update_banner(db, b, field, value) : PubBegins(new, {})
      BY <1>1, <2>2, BannerUpdated
    <3> QED BY <1>2, <2>2, <3>1
  <2>3. ASSUME NEW b \in DOMAIN db.banners, Publishing!Do(s, "banner", Publishing!delete_banner(db, b)) PROVE PubStep
    BY <1>1, <1>2, <2>3, BannerDeleted
  <2>4. ASSUME NEW b \in DOMAIN db.banners, NEW at \in Publishing!Instants \cup {None},
               NEW field \in {"starts", "ends"},
               Publishing!Do(s, "banner", Publishing!update_banner(db, b, field, at))
        PROVE  PubStep
    <3>1. at \in Int \cup {None}
      BY <1>3
    <3> QED BY <2>2, <2>4, <3>1
  <2>5. ASSUME NEW b \in DOMAIN db.banners, NEW active \in BOOLEAN,
               Publishing!Do(s, "banner", Publishing!update_banner(db, b, "active", active))
        PROVE  PubStep
    <3>1. PICK field : field = "active"
      OBVIOUS
    <3>2. Publishing!Do(s, "banner", Publishing!update_banner(db, b, field, active))
      BY <2>5, <3>1
    <3> QED BY <2>2, <2>5, <3>1, <3>2
  <2> QED BY <1>7, <2>1, <2>3, <2>4, <2>5 DEF Publishing!Banners
<1>8. ASSUME NEW s \in Clerks, Publishing!Ads(s) PROVE PubStep
  <2>1. ASSUME NEW from, NEW until \in Publishing!Instants,
               Publishing!Do(s, "promo", Publishing!launch(db, from, until))
        PROVE  PubStep
    <3>1. until \in Int
      BY <1>3
    <3>2. \A new \in Publishing!launch(db, from, until) : PubBegins(new, {})
      BY <1>1, <3>1, PromoLaunched
    <3> QED BY <1>2, <2>1, <3>2
  <2>2. ASSUME NEW p \in DOMAIN db.promos, NEW status, NEW holds,
               Publishing!ServeHolding(s, "promo", holds, Publishing!set_status(db, p, status), Publishing!Settle)
        PROVE  PubStep
    <3>1. \A new \in Publishing!set_status(db, p, status) : PubBegins(new, holds)
      BY <1>1, PromoSwitched
    <3> QED BY <2>2, <3>1, PubServed
  <2>3. ASSUME NEW p \in DOMAIN db.promos, NEW status,
               Publishing!Do(s, "promo", Publishing!set_status(db, p, status))
        PROVE  PubStep
    BY <2>2, <2>3 DEF Publishing!Do, Publishing!Serve
  <2> QED BY <1>8, <2>1, <2>2, <2>3 DEF Publishing!Ads
<1>9. CASE \E s \in Clerks :
              Publishing!Commit(s, Publishing!Settle) \/ Publishing!Abort(s)
  BY <1>9, PubCommitted, PubAborted
<1>10. CASE \E u \in Users : Publishing!At("remove", Publishing!delete_posts(db, u))
  BY <1>10, PostsDeleted DEF Publishing!At
<1>11. CASE \/ \E o \in Orders : Publishing!At("review", Publishing!deliver(db, o))
            \/ Publishing!At("reel", Publishing!delete_dish(db))
            \/ Publishing!At("reel", Publishing!switch_store(db))
  BY <1>11, AroundIt DEF Publishing!At
<1>12. CASE \/ Publishing!At("promo", Publishing!receive_events(db))
            \/ \E b \in DOMAIN db.batches : Publishing!At("promo", Publishing!record_events(db, b))
            \/ Publishing!At("promo", Publishing!tick(db)) \/ Publishing!At("banner", Publishing!tick(db))
  BY <1>12, EventsReceived, EventsRecorded, ClockTicks DEF Publishing!At
<1> QED BY <1>4, <1>5, <1>6, <1>7, <1>8, <1>9, <1>10, <1>11, <1>12 DEF Publishing!Next

\* A banner's row and the hour say in which of the console's lists it is.
LEMMA OneList ==
    ASSUME PubTables(db)
    PROVE  Publishing!EveryBannerInOneList
<1> SUFFICES ASSUME NEW b \in DOMAIN db.banners
             PROVE  LET lists == {st \in {"LIVE", "SCHEDULED", "EXPIRED", "INACTIVE"} :
                                     Publishing!_status_clause(st, db.banners[b], Publishing!Now(db))}
                    IN  /\ lists = {Publishing!_status_of(db.banners[b], Publishing!Now(db))}
                        /\ (b \in Publishing!live_banners(db)) = (lists = {"LIVE"})
  BY DEF Publishing!EveryBannerInOneList
<1> DEFINE row == db.banners[b]
           now == Publishing!Now(db)
           lists == {st \in {"LIVE", "SCHEDULED", "EXPIRED", "INACTIVE"} : Publishing!_status_clause(st, row, now)}
<1>1. /\ row.active \in BOOLEAN /\ row.starts \in Int \cup {None} /\ row.ends \in Int \cup {None}
      /\ now \in Int
  BY DEF PubTables, BannerRow, ClockShape, Publishing!Now
<1>2. b \in Publishing!live_banners(db) <=> Publishing!_live_clause(row, now)
  BY DEF Publishing!live_banners
<1> HIDE DEF row, now
<1>3. /\ Publishing!_status_clause("LIVE", row, now) <=> Publishing!_live_clause(row, now)
      /\ Publishing!_status_clause("SCHEDULED", row, now) <=>
            row.active /\ row.starts # None /\ row.starts > now /\ (row.ends = None \/ row.ends > now)
      /\ Publishing!_status_clause("EXPIRED", row, now) <=> row.active /\ row.ends # None /\ row.ends <= now
      /\ Publishing!_status_clause("INACTIVE", row, now) <=> ~row.active
  BY DEF Publishing!_status_clause
<1>4. CASE ~row.active
  <2>1. lists = {"INACTIVE"} /\ ~Publishing!_live_clause(row, now)
    BY <1>3, <1>4 DEF Publishing!_live_clause
  <2>2. Publishing!_status_of(row, now) = "INACTIVE"
    BY <1>4 DEF Publishing!_status_of
  <2> QED BY <1>2, <2>1, <2>2 DEF row, now
<1>5. CASE row.active /\ row.ends # None /\ row.ends <= now
  <2>1. lists = {"EXPIRED"} /\ ~Publishing!_live_clause(row, now)
    BY <1>1, <1>3, <1>5 DEF Publishing!_live_clause
  <2>2. Publishing!_status_of(row, now) = "EXPIRED"
    BY <1>5 DEF Publishing!_status_of
  <2> QED BY <1>2, <2>1, <2>2 DEF row, now
<1>6. CASE row.active /\ ~(row.ends # None /\ row.ends <= now) /\ row.starts # None /\ row.starts > now
  <2>1. lists = {"SCHEDULED"} /\ ~Publishing!_live_clause(row, now)
    BY <1>1, <1>3, <1>6 DEF Publishing!_live_clause
  <2>2. Publishing!_status_of(row, now) = "SCHEDULED"
    BY <1>6 DEF Publishing!_status_of
  <2> QED BY <1>2, <2>1, <2>2 DEF row, now
<1>7. CASE row.active /\ ~(row.ends # None /\ row.ends <= now) /\ ~(row.starts # None /\ row.starts > now)
  <2>1. lists = {"LIVE"} /\ Publishing!_live_clause(row, now)
    BY <1>1, <1>3, <1>7 DEF Publishing!_live_clause
  <2>2. Publishing!_status_of(row, now) = "LIVE"
    BY <1>7 DEF Publishing!_status_of
  <2> QED BY <1>2, <2>1, <2>2 DEF row, now
<1> QED BY <1>1, <1>4, <1>5, <1>6, <1>7

LEMMA TalliesMean ==
    ASSUME PubInv
    PROVE  Publishing!TalliesAreTrue /\ Publishing!EveryBannerInOneList
<1>1. PubTables(db) /\ (InTurn => Rated(db))
  BY DEF PubInv
<1>2. \A p \in DOMAIN db.posts : db.posts[p].count = Cardinality({r \in DOMAIN db.reports : r[1] = p})
  BY <1>1 DEF PubTables, Counted, Reports
<1>3. Publishing!TalliesAreTrue
  BY <1>1, <1>2, PublishingIsDesk DEF Rated, Publishing!TalliesAreTrue
<1> QED BY <1>1, <1>3, OneList

(***************************************************************************)
(* One order, and the screens, cards and phones that follow it             *)
(***************************************************************************)
LEMMA LiveIsDesk ==
    /\ \A table, id, row : Live!Add(table, id, row) = Add(table, id, row)
    /\ \A ids : Live!Least(ids) = Least(ids)
    /\ \A t, ids : Live!Fresh(t, ids) = Fresh(t, ids)
    /\ \A table, seen, new : Live!Merged(table, seen, new) = Merged(table, seen, new)
    /\ Live!InTurn <=> InTurn
BY DEF Live!Add, Live!Joined, Live!Only, Add, Joined, Only, Live!Least, Least, Live!Fresh, Live!Open,
       Fresh, Open, Live!Merged, Merged, Live!InTurn, InTurn

LEMMA SomebodySomething ==
    /\ \A r \in Riders : r # None
    /\ \A m \in Live!Moves : m[2] # None
    /\ \A st \in Live!Trackable : st # None
BY LiveAssumption DEF LiveAssumption, Live!Moves, Live!Trackable

LEMMA ScreenShown ==
    ASSUME NEW d, LiveTables(d), NEW x \in {"vendor", "customer"}, NEW sc,
           sc = [state |-> sc.state, shows |-> sc.shows, rider |-> sc.rider, dot |-> sc.dot],
           sc.shows \in DOMAIN d.history,
           sc.state = d.screens[x].state \/ (x = "customer" /\ sc.state \in {"open", "snapped", "closed"}),
           NEW e, e = Displayed(d, x, sc)
    PROVE  /\ LiveTables(e) /\ Underneath(d, e) /\ e.tasks = d.tasks /\ e.cards = d.cards
           /\ e.screens[x] = sc
           /\ \A y \in {"vendor", "customer"} : y # x => e.screens[y] = d.screens[y]
<1>1. LiveRecord(d) /\ DOMAIN d.screens = {"vendor", "customer"}
  BY DEF LiveTables, LiveShape
<1>2. /\ LiveRecord(e) /\ Underneath(d, e) /\ e.tasks = d.tasks /\ e.cards = d.cards
      /\ e.screens = [d.screens EXCEPT ![x] = sc]
  BY <1>1 DEF LiveRecord, Underneath, Displayed
<1>3. /\ DOMAIN e.screens = {"vendor", "customer"} /\ e.screens[x] = sc
      /\ \A y \in {"vendor", "customer"} : y # x => e.screens[y] = d.screens[y]
  BY <1>1, <1>2
<1> QED BY <1>2, <1>3 DEF LiveTables, LiveShape, Underneath

LEMMA TaskMoved ==
    ASSUME NEW d, LiveTables(d), NEW t \in DOMAIN d.tasks, NEW to, NEW e, e = Passed(d, t, to)
    PROVE  /\ LiveTables(e) /\ Underneath(d, e) /\ e.screens = d.screens /\ e.cards = d.cards
           /\ DOMAIN e.tasks = DOMAIN d.tasks
           /\ e.tasks[t] = [to |-> to, status |-> d.tasks[t].status, rider |-> d.tasks[t].rider]
<1>1. /\ LiveRecord(d)
      /\ d.tasks[t] = [to |-> d.tasks[t].to, status |-> d.tasks[t].status, rider |-> d.tasks[t].rider]
  BY DEF LiveTables, LiveShape
<1> DEFINE row == [d.tasks[t] EXCEPT !.to = to]
<1>2. row = [to |-> to, status |-> d.tasks[t].status, rider |-> d.tasks[t].rider]
  BY <1>1
<1>3. e = [d EXCEPT !.tasks = [d.tasks EXCEPT ![t] = row]]
  BY <1>1 DEF LiveRecord, Passed
<1> HIDE DEF row
<1>4. /\ LiveRecord(e) /\ Underneath(d, e) /\ e.screens = d.screens /\ e.cards = d.cards
      /\ e.tasks = [d.tasks EXCEPT ![t] = row]
  BY <1>1, <1>3 DEF LiveRecord, Underneath
<1>5. /\ DOMAIN e.tasks = DOMAIN d.tasks /\ e.tasks[t] = row
      /\ \A u \in DOMAIN d.tasks : u # t => e.tasks[u] = d.tasks[u]
  BY <1>4
<1>6. \A u \in DOMAIN d.tasks :
          /\ d.tasks[u] = [to |-> d.tasks[u].to, status |-> d.tasks[u].status, rider |-> d.tasks[u].rider]
          /\ d.tasks[u].status # None => d.tasks[u].status \in DOMAIN d.history
  BY DEF LiveTables, LiveShape
<1>7. ASSUME NEW u \in DOMAIN e.tasks
      PROVE  /\ e.tasks[u] = [to |-> e.tasks[u].to, status |-> e.tasks[u].status, rider |-> e.tasks[u].rider]
             /\ e.tasks[u].status # None => e.tasks[u].status \in DOMAIN d.history
  <2>1. CASE u = t
    <3>1. row.to = to /\ row.status = d.tasks[t].status /\ row.rider = d.tasks[t].rider
      BY <1>2
    <3> QED BY <1>2, <1>5, <1>6, <2>1, <3>1
  <2>2. CASE u # t
    BY <1>5, <1>6, <1>7, <2>2
  <2> QED BY <2>1, <2>2
<1>8. e.orders = d.orders /\ e.history = d.history
  BY <1>4 DEF Underneath
<1>9. LiveShape(e)
  BY <1>4, <1>7, <1>8 DEF LiveTables, LiveShape
<1>10. LiveTables(e)
  BY <1>4, <1>7, <1>8, <1>9 DEF LiveTables
<1> QED BY <1>2, <1>4, <1>5, <1>10

LEMMA TaskDone ==
    ASSUME NEW d, LiveTables(d), NEW t
    PROVE  /\ LiveTables(Live!Done(d, t)) /\ Underneath(d, Live!Done(d, t))
           /\ Live!Done(d, t).screens = d.screens /\ Live!Done(d, t).cards = d.cards
           /\ DOMAIN Live!Done(d, t).tasks = DOMAIN d.tasks \ {t}
<1> DEFINE e == Live!Done(d, t)
<1>1. LiveRecord(d)
  BY DEF LiveTables, LiveShape
<1>2. /\ LiveRecord(e) /\ Underneath(d, e) /\ e.screens = d.screens /\ e.cards = d.cards
      /\ e.tasks = [k \in DOMAIN d.tasks \ {t} |-> d.tasks[k]]
  BY <1>1 DEF LiveRecord, Underneath, Live!Done, Live!Drop
<1> HIDE DEF e
<1>3. DOMAIN e.tasks = DOMAIN d.tasks \ {t} /\ \A u \in DOMAIN e.tasks : e.tasks[u] = d.tasks[u]
  BY <1>2
<1>4. LiveTables(e)
  BY <1>2, <1>3 DEF LiveTables, LiveShape, Underneath
<1> QED BY <1>2, <1>3, <1>4 DEF e

LEMMA CardPut ==
    ASSUME NEW d, LiveTables(d), NEW up, NEW e, e = CardsAt(d, up)
    PROVE  /\ LiveTables(e) /\ Underneath(d, e) /\ e.screens = d.screens /\ e.tasks = d.tasks
           /\ LiveTurn(d) => e.cards = OneCard(up)
<1>1. LiveRecord(d)
  BY DEF LiveTables, LiveShape
<1>2. /\ LiveRecord(e) /\ Underneath(d, e) /\ e.screens = d.screens /\ e.tasks = d.tasks
      /\ e.cards = [d.cards EXCEPT ![1] = [d.cards[1] EXCEPT !.up = up]]
  BY <1>1 DEF LiveRecord, Underneath, CardsAt
<1>3. LiveTurn(d) => e.cards = OneCard(up)
  <2> SUFFICES ASSUME LiveTurn(d) PROVE e.cards = OneCard(up)
    OBVIOUS
  <2> DEFINE old == d.cards[1].up
  <2>1. d.cards = OneCard(old)
    BY DEF LiveTurn
  <2> HIDE DEF old
  <2> QED BY <1>2, <2>1 DEF OneCard
<1> QED BY <1>2, <1>3 DEF LiveTables, LiveShape, Underneath

\* A handler leaves an announcement behind.
LEMMA TaskAdded ==
    ASSUME IdsAssumption, LiveTables(db), Fresh("tasks", Tasks) # {},
           NEW task, task = [to |-> task.to, status |-> task.status, rider |-> task.rider],
           NEW d, LiveRecord(d), d.tasks = db.tasks, NEW new,
           new = [d EXCEPT !.tasks = Add(db.tasks, Least(Fresh("tasks", Tasks)), task)]
    PROVE  /\ LiveRecord(new) /\ Underneath(d, new) /\ new.screens = d.screens /\ new.cards = d.cards
           /\ \A t \in DOMAIN db.tasks : t \in DOMAIN new.tasks /\ new.tasks[t] = db.tasks[t]
           /\ \A t \in DOMAIN new.tasks : t \notin DOMAIN db.tasks => new.tasks[t] = task
           /\ DOMAIN db.tasks = {} => \A t \in DOMAIN new.tasks : DOMAIN new.tasks = {t}
           /\ DOMAIN new.tasks # {}
<1> DEFINE t == Least(Fresh("tasks", Tasks))
<1>1. "tasks" \in DOMAIN db
  BY DEF LiveTables, LiveShape, LiveRecord
<1>2. t \in Fresh("tasks", Tasks)
  BY LeastIn DEF IdsAssumption, Fresh
<1>3. t \notin DOMAIN db.tasks
  BY <1>1, <1>2, FreshIds
<1> HIDE DEF t
<1>4. new = [d EXCEPT !.tasks = Add(db.tasks, t, task)]
  BY DEF t, LiveRecord
<1>5. /\ LiveRecord(new) /\ Underneath(d, new) /\ new.screens = d.screens /\ new.cards = d.cards
      /\ new.tasks = Add(db.tasks, t, task)
  BY <1>4 DEF LiveRecord, Underneath
<1>6. IsAdd(new.tasks, db.tasks, t, task)
  BY <1>3, <1>5, AddedRow
<1>7. /\ \A u \in DOMAIN db.tasks : u \in DOMAIN new.tasks /\ new.tasks[u] = db.tasks[u]
      /\ \A u \in DOMAIN new.tasks : u \notin DOMAIN db.tasks => new.tasks[u] = task
      /\ DOMAIN new.tasks = DOMAIN db.tasks \cup {t}
  BY <1>6 DEF IsAdd
<1>8. DOMAIN db.tasks = {} => \A u \in DOMAIN new.tasks : DOMAIN new.tasks = {u}
  BY <1>7
<1>9. DOMAIN new.tasks # {}
  BY <1>7
<1> QED BY <1>5, <1>7, <1>8, <1>9

\* A status that follows an offer, and one that does not.
LEMMA CardsAfter ==
    ASSUME NEW d, CardTrue(d), NEW m \in Live!Moves, d.orders[1].status = m[1],
           m[2] = "PICKED_UP" => d.orders[1].rider # None,
           NEW e, e.orders[1].status = m[2], e.orders[1].rider = d.orders[1].rider, e.cards = d.cards
    PROVE  CardTrue(e)
BY DEF CardTrue, Live!Moves, Live!_open, Live!OFFERABLE

LEMMA OrderMoves ==
    ASSUME IdsAssumption, LiveTables(db), AllTold, NEW m \in Live!Moves, NEW new \in Live!move(db, m)
    PROVE  LiveBegins(new)
<1> DEFINE o == db.orders[1]
           task == [to |-> "vendor", status |-> m[2], rider |-> None]
           d == [db EXCEPT !.orders[1].status = m[2], !.orders[1].by = m[3],
                           !.history = Live!Add(@, m[2], [at |-> TRUE])]
<1>1. /\ o.status = m[1] /\ (m[2] = "PICKED_UP" => o.rider # None)
      /\ new \in Live!Announcing(d, m[2])
  BY DEF Live!move
<1>2. Fresh("tasks", Tasks) # {} /\ new = [d EXCEPT !.tasks = Add(@, Least(Fresh("tasks", Tasks)), task)]
  BY <1>1, LiveIsDesk DEF Live!Announcing
<1>3. LiveRecord(db) /\ o = [status |-> o.status, rider |-> o.rider, by |-> o.by] /\ DOMAIN db.orders = {1}
  BY DEF LiveTables, LiveShape
<1>4. /\ LiveRecord(d) /\ DOMAIN d.orders = {1}
      /\ d.orders[1] = [status |-> m[2], rider |-> o.rider, by |-> m[3]]
      /\ d.history = Add(db.history, m[2], [at |-> TRUE])
      /\ d.tasks = db.tasks /\ d.screens = db.screens /\ d.cards = db.cards /\ d.told = db.told
  <2> DEFINE row == [[o EXCEPT !.status = m[2]] EXCEPT !.by = m[3]]
  <2>1. row = [status |-> m[2], rider |-> o.rider, by |-> m[3]]
    <3> DEFINE half == [o EXCEPT !.status = m[2]]
    <3>1. half = [status |-> m[2], rider |-> o.rider, by |-> o.by]
      BY <1>3
    <3> HIDE DEF half
    <3>2. [half EXCEPT !.by = m[3]] = [status |-> m[2], rider |-> o.rider, by |-> m[3]]
      BY <3>1
    <3> QED BY <3>2 DEF half
  <2>2. d = [db EXCEPT !.orders = [db.orders EXCEPT ![1] = row],
                       !.history = Add(db.history, m[2], [at |-> TRUE])]
    BY <1>3, LiveIsDesk DEF LiveRecord
  <2> HIDE DEF row, d
  <2>3. /\ LiveRecord(d) /\ d.orders = [db.orders EXCEPT ![1] = row]
        /\ d.history = Add(db.history, m[2], [at |-> TRUE])
        /\ d.tasks = db.tasks /\ d.screens = db.screens /\ d.cards = db.cards /\ d.told = db.told
    BY <1>3, <2>2 DEF LiveRecord
  <2> QED BY <1>3, <2>1, <2>3
<1>5. /\ LiveRecord(new) /\ Underneath(d, new) /\ new.screens = d.screens /\ new.cards = d.cards
      /\ \A t \in DOMAIN db.tasks : t \in DOMAIN new.tasks /\ new.tasks[t] = db.tasks[t]
      /\ \A t \in DOMAIN new.tasks : t \notin DOMAIN db.tasks => new.tasks[t] = task
      /\ DOMAIN db.tasks = {} => \A t \in DOMAIN new.tasks : DOMAIN new.tasks = {t}
      /\ DOMAIN new.tasks # {}
  <2>1. PICK e, row : e = d /\ row = task
    OBVIOUS
  <2>2. new = [e EXCEPT !.tasks = Add(db.tasks, Least(Fresh("tasks", Tasks)), row)]
    BY <1>2, <1>4, <2>1 DEF LiveRecord
  <2>3. LiveRecord(e) /\ e.tasks = db.tasks
    BY <1>4, <2>1
  <2>4. row = [to |-> row.to, status |-> row.status, rider |-> row.rider]
    BY <2>1
  <2> HIDE DEF d, task
  <2> QED BY <1>2, <2>1, <2>2, <2>3, <2>4, TaskAdded
<1> HIDE DEF d
<1>6. DOMAIN new.history = DOMAIN db.history \cup {m[2]}
  BY <1>4, <1>5 DEF Underneath, Add, Joined, Only
<1>7. LiveTables(new)
  BY <1>4, <1>5, <1>6 DEF LiveTables, LiveShape, Underneath
<1>8. LiveWork(db, new)
  BY <1>4, <1>5, <1>6, <1>7 DEF LiveWork
<1>9. ASSUME InTurn PROVE LiveTurn(new)
  <2>1. LiveTurn(db) /\ Quiet(db) /\ DOMAIN db.tasks = {} /\ \A x \in {"vendor", "customer"} : db.screens[x].state # "snapped"
    BY <1>9 DEF AllTold, LiveTurn
  <2>2. new.orders = d.orders /\ new.screens = db.screens /\ new.cards = db.cards
    BY <1>4, <1>5 DEF Underneath
  <2>3. CardTrue(new)
    BY <1>1, <1>4, <2>1, <2>2, CardsAfter DEF Quiet
  <2>4. NamesRight(new, "vendor") /\ NamesRight(new, "customer")
    BY <1>4, <2>1, <2>2 DEF Quiet, NamesRight
  <2>5. Moving(new, task)
    BY <1>4, <2>2, <2>3, <2>4, SomebodySomething DEF Moving
  <2>6. \A t \in DOMAIN new.tasks : DOMAIN new.tasks = {t} /\ Telling(new, new.tasks[t])
    BY <1>5, <2>1, <2>5 DEF Telling
  <2>7. \A x \in DOMAIN new.screens : new.screens[x].state # "snapped"
    BY <2>1, <2>2 DEF LiveTables, LiveShape
  <2> QED BY <1>5, <2>1, <2>2, <2>6, <2>7 DEF LiveTurn
<1> QED BY <1>8, <1>9 DEF LiveBegins

LEMMA RiderAssigned ==
    ASSUME IdsAssumption, LiveTables(db), AllTold, NEW r \in Riders, NEW new \in Live!assign_rider(db, r)
    PROVE  LiveBegins(new)
<1> DEFINE o == db.orders[1]
           task == [to |-> "taken", status |-> None, rider |-> r]
           d == [db EXCEPT !.orders[1].rider = r]
<1>1. /\ o.status \in {"PENDING", "PREPARING", "READY"} /\ Fresh("tasks", Tasks) # {}
      /\ new = [db EXCEPT !.orders[1].rider = r, !.tasks = Add(@, Least(Fresh("tasks", Tasks)), task)]
  BY LiveIsDesk DEF Live!assign_rider
<1>2. LiveRecord(db) /\ o = [status |-> o.status, rider |-> o.rider, by |-> o.by] /\ DOMAIN db.orders = {1}
  BY DEF LiveTables, LiveShape
<1>3. /\ LiveRecord(d) /\ DOMAIN d.orders = {1}
      /\ d.orders[1] = [status |-> o.status, rider |-> r, by |-> o.by]
      /\ d.history = db.history /\ d.tasks = db.tasks /\ d.screens = db.screens /\ d.cards = db.cards
      /\ d.told = db.told
  <2> DEFINE row == [o EXCEPT !.rider = r]
  <2>1. row = [status |-> o.status, rider |-> r, by |-> o.by]
    BY <1>2
  <2>2. d = [db EXCEPT !.orders = [db.orders EXCEPT ![1] = row]]
    BY <1>2 DEF LiveRecord
  <2> HIDE DEF row, d
  <2>3. /\ LiveRecord(d) /\ d.orders = [db.orders EXCEPT ![1] = row] /\ d.history = db.history
        /\ d.tasks = db.tasks /\ d.screens = db.screens /\ d.cards = db.cards /\ d.told = db.told
    BY <1>2, <2>2 DEF LiveRecord
  <2> QED BY <1>2, <2>1, <2>3
<1>4. new = [d EXCEPT !.tasks = Add(db.tasks, Least(Fresh("tasks", Tasks)), task)]
  BY <1>1, <1>2, Zenon DEF LiveRecord
<1> HIDE DEF d
<1>5. /\ LiveRecord(new) /\ Underneath(d, new) /\ new.screens = d.screens /\ new.cards = d.cards
      /\ \A t \in DOMAIN db.tasks : t \in DOMAIN new.tasks /\ new.tasks[t] = db.tasks[t]
      /\ \A t \in DOMAIN new.tasks : t \notin DOMAIN db.tasks => new.tasks[t] = task
      /\ DOMAIN db.tasks = {} => \A t \in DOMAIN new.tasks : DOMAIN new.tasks = {t}
      /\ DOMAIN new.tasks # {}
  BY <1>1, <1>3, <1>4, TaskAdded, ZenonT(60)
<1>6. LiveTables(new)
  BY <1>3, <1>5 DEF LiveTables, LiveShape, Underneath
<1>7. LiveWork(db, new)
  BY <1>3, <1>5, <1>6 DEF LiveWork, Underneath
<1>8. ASSUME InTurn PROVE LiveTurn(new)
  <2>1. LiveTurn(db) /\ Quiet(db) /\ DOMAIN db.tasks = {} /\ \A x \in {"vendor", "customer"} : db.screens[x].state # "snapped"
    BY <1>8 DEF AllTold, LiveTurn
  <2>2. new.orders = d.orders /\ new.screens = db.screens /\ new.cards = db.cards
    BY <1>3, <1>5 DEF Underneath
  <2>3. ShowsRight(new, "vendor") /\ ShowsRight(new, "customer")
    BY <1>3, <2>1, <2>2 DEF Quiet, ShowsRight
  <2>4. Assigning(new, task)
    BY <1>1, <1>3, <2>2, <2>3, SomebodySomething DEF Assigning
  <2>5. \A t \in DOMAIN new.tasks : DOMAIN new.tasks = {t} /\ Telling(new, new.tasks[t])
    BY <1>5, <2>1, <2>4 DEF Telling
  <2>6. \A x \in DOMAIN new.screens : new.screens[x].state # "snapped"
    BY <2>1, <2>2 DEF LiveTables, LiveShape
  <2> QED BY <1>5, <2>1, <2>2, <2>5, <2>6 DEF LiveTurn
<1> QED BY <1>7, <1>8 DEF LiveBegins

LEMMA OrderDispatched ==
    ASSUME IdsAssumption, LiveTables(db), AllTold, NEW new \in Live!dispatch(db)
    PROVE  LiveBegins(new)
<1>1. PICK r \in Live!_pick_rider(db) : new \in Live!assign_rider(db, r)
  BY DEF Live!dispatch
<1>2. r \in Riders
  BY DEF Live!_pick_rider, Live!_pick_nearest, Live!_available_riders, Live!find_nearby_riders
<1> QED BY <1>1, <1>2, RiderAssigned

\* What screens, cards and announcements do not depend on.
LEMMA QuietSame ==
    ASSUME NEW d, NEW e, LiveTurn(d), Underneath(d, e), e.tasks = d.tasks, e.screens = d.screens,
           e.cards = d.cards
    PROVE  LiveTurn(e)
<1>1. e.orders = d.orders /\ e.told = d.told
  BY DEF Underneath
<1>2. \A x : (ShowsRight(e, x) <=> ShowsRight(d, x)) /\ (NamesRight(e, x) <=> NamesRight(d, x))
  BY <1>1 DEF ShowsRight, NamesRight
<1>3. (CardTrue(e) <=> CardTrue(d)) /\ (CardThere(e) <=> CardThere(d)) /\ (Heard(e) <=> Heard(d))
  BY <1>1 DEF CardTrue, CardThere, Heard, Live!_open
<1>4. (Live!_open(e) <=> Live!_open(d)) /\ (Quiet(e) <=> Quiet(d))
  BY <1>1, <1>2, <1>3 DEF Quiet, Live!_open
<1>5. \A task : Mapping(d, task) => Mapping(e, task)
  BY <1>1, <1>4 DEF Mapping
<1>6. \A task : Moving(d, task) => Moving(e, task)
  BY <1>1, <1>2, <1>3, <1>4 DEF Moving
<1>7. \A task : Assigning(d, task) => Assigning(e, task)
  BY <1>1, <1>2, <1>3 DEF Assigning
<1>8. \A task : Telling(d, task) => Telling(e, task)
  BY <1>5, <1>6, <1>7 DEF Telling
<1> QED BY <1>4, <1>8 DEF LiveTurn

LEMMA ShiftSet ==
    ASSUME LiveTables(db), AllTold, NEW r, NEW new \in Live!set_shift(db, r)
    PROVE  LiveBegins(new)
<1>1. LiveRecord(db)
  BY DEF LiveTables, LiveShape
<1>2. /\ LiveRecord(new) /\ Underneath(db, new) /\ new.tasks = db.tasks /\ new.screens = db.screens
      /\ new.cards = db.cards
  BY <1>1 DEF LiveRecord, Underneath, Live!set_shift
<1>3. LiveTables(new)
  BY <1>2 DEF LiveTables, LiveShape, Underneath
<1> QED BY <1>2, <1>3, QuietSame DEF LiveBegins, LiveWork, AllTold, Underneath

LEMMA PublishedBoth ==
    ASSUME LiveNow, NEW t \in DOMAIN db.tasks, db.tasks[t].to \in {"vendor", "customer"},
           NEW new \in Live!_publish_both(db, t)
    PROVE  LiveSays(new)
<1> DEFINE task == db.tasks[t]
           x == task.to
           o == db.orders[1]
           shown == IF task.status = None THEN [db.screens[x] EXCEPT !.rider = o.rider]
                    ELSE [db.screens[x] EXCEPT !.shows = task.status]
           next == IF x = "vendor" THEN "customer"
                   ELSE IF task.status \in Live!OFFERABLE THEN "offers" ELSE "push"
<1>1. PICK d : /\ \/ db.screens[x].state = "open" /\ d = Displayed(db, x, shown)
                  \/ (db.screens[x].state # "open" \/ ~InTurn) /\ d = db
               /\ new = IF x = "customer" /\ task.status = None THEN Live!Done(d, t)
                        ELSE Passed(d, t, next)
  BY ZenonT(30) DEF Live!_publish_both, Live!publish, Live!Reaches, InTurn, Displayed, Passed
<1>2. /\ db.screens[x] = [state |-> db.screens[x].state, shows |-> db.screens[x].shows,
                          rider |-> db.screens[x].rider, dot |-> db.screens[x].dot]
      /\ db.screens[x].shows \in DOMAIN db.history
      /\ db.screens[x].state \in {"open", "snapped", "closed"}
      /\ task.status # None => task.status \in DOMAIN db.history
      /\ LiveTables(db) /\ DOMAIN db.screens = {"vendor", "customer"}
  BY DEF LiveNow, LiveTables, LiveShape
<1>3. /\ shown = [state |-> shown.state, shows |-> shown.shows, rider |-> shown.rider, dot |-> shown.dot]
      /\ shown.shows \in DOMAIN db.history /\ shown.state = db.screens[x].state
      /\ shown.dot = db.screens[x].dot
      /\ shown.rider = IF task.status = None THEN o.rider ELSE db.screens[x].rider
      /\ shown.shows = IF task.status = None THEN db.screens[x].shows ELSE task.status
  BY <1>2, ZenonT(30)
<1> HIDE DEF shown
<1>4. /\ LiveTables(d) /\ Underneath(db, d) /\ d.tasks = db.tasks /\ d.cards = db.cards
      /\ d.screens[x] = shown \/ ((db.screens[x].state # "open" \/ ~InTurn) /\ d.screens[x] = db.screens[x])
      /\ \A y \in {"vendor", "customer"} : y # x => d.screens[y] = db.screens[y]
  <2>1. CASE db.screens[x].state = "open" /\ d = Displayed(db, x, shown)
    <3>1. PICK z \in {"vendor", "customer"} : z = x
      OBVIOUS
    <3>2. shown.state = db.screens[z].state /\ d = Displayed(db, z, shown)
      BY <1>3, <2>1, <3>1
    <3>3. PICK sc : /\ sc = shown
                    /\ sc = [state |-> sc.state, shows |-> sc.shows, rider |-> sc.rider, dot |-> sc.dot]
      BY <1>3
    <3>4. sc.shows \in DOMAIN db.history /\ sc.state = db.screens[z].state /\ d = Displayed(db, z, sc)
      BY <1>3, <3>2, <3>3
    <3>5. /\ LiveTables(d) /\ Underneath(db, d) /\ d.tasks = db.tasks /\ d.cards = db.cards
          /\ d.screens[z] = sc
          /\ \A y \in {"vendor", "customer"} : y # z => d.screens[y] = db.screens[y]
      <4>1. LiveTables(db) /\ sc = [state |-> sc.state, shows |-> sc.shows, rider |-> sc.rider, dot |-> sc.dot]
        BY <1>2, <3>3
      <4> HIDE DEF shown
      <4> QED BY <3>4, <4>1, ScreenShown
    <3> QED BY <3>1, <3>3, <3>5
  <2>2. CASE (db.screens[x].state # "open" \/ ~InTurn) /\ d = db
    BY <1>2, <2>2 DEF Underneath
  <2> QED BY <1>1, <2>1, <2>2
<1>5. /\ LiveTables(new) /\ Underneath(d, new) /\ new.screens = d.screens /\ new.cards = d.cards
      /\ IF x = "customer" /\ task.status = None THEN DOMAIN new.tasks = DOMAIN db.tasks \ {t}
         ELSE /\ DOMAIN new.tasks = DOMAIN db.tasks
              /\ new.tasks[t] = [to |-> next, status |-> task.status, rider |-> task.rider]
  <2>1. CASE x = "customer" /\ task.status = None
    BY <1>1, <1>4, <2>1, TaskDone
  <2>2. CASE ~(x = "customer" /\ task.status = None)
    <3>1. new = Passed(d, t, next)
      BY <1>1, <2>2
    <3> HIDE DEF next
    <3> QED BY <1>4, <2>2, <3>1, TaskMoved
  <2> QED BY <2>1, <2>2
<1>6. new.orders = db.orders /\ new.history = db.history /\ new.cards = db.cards
  BY <1>4, <1>5 DEF Underneath
<1>7. ASSUME InTurn PROVE LiveTurn(new) /\ DotTrue(new)
  <2>1. /\ LiveTurn(db) /\ Telling(db, task) /\ DOMAIN db.tasks = {t}
        /\ \A y \in {"vendor", "customer"} : db.screens[y].state # "snapped"
    BY <1>2, <1>7 DEF LiveNow, LiveTurn
  <2>2. /\ \A y \in {"vendor", "customer"} : new.screens[y].state = db.screens[y].state
        /\ \A y \in {"vendor", "customer"} : new.screens[y].dot = db.screens[y].dot
        /\ \A y \in {"vendor", "customer"} : y # x => new.screens[y] = db.screens[y]
        /\ new.screens[x].state # "closed" => new.screens[x] = shown
    <3>1. \A y \in {"vendor", "customer"} : y # x => new.screens[y] = db.screens[y]
      BY <1>4, <1>5
    <3>2. \/ new.screens[x] = shown
          \/ new.screens[x] = db.screens[x] /\ db.screens[x].state # "open"
      BY <1>4, <1>5, <1>7
    <3>3. shown.state = db.screens[x].state /\ shown.dot = db.screens[x].dot
      BY <1>3
    <3>4. db.screens[x].state # "open" => db.screens[x].state = "closed"
      BY <1>2, <2>1
    <3> HIDE DEF x
    <3> QED BY <3>1, <3>2, <3>3, <3>4
  <2>3. DotTrue(new)
    BY <2>2 DEF DotTrue
  <2>4. \A y \in {"vendor", "customer"} :
            /\ NamesRight(db, y) => NamesRight(new, y)
            /\ task.status # None /\ ShowsRight(db, y) /\ task.status = o.status => ShowsRight(new, y)
            /\ task.status = None /\ ShowsRight(db, y) => ShowsRight(new, y)
    BY <1>3, <1>6, <2>2, ZenonT(60) DEF NamesRight, ShowsRight
  <2>5. /\ task.status = None => NamesRight(new, x)
        /\ task.status # None /\ task.status = o.status => ShowsRight(new, x)
    BY <1>3, <1>6, <2>2, ZenonT(60) DEF NamesRight, ShowsRight
  <2>6. (CardTrue(db) => CardTrue(new)) /\ (CardThere(db) => CardThere(new))
    BY <1>6 DEF CardTrue, CardThere, Live!_open
  <2>7. DOMAIN new.screens = {"vendor", "customer"}
    BY <1>5 DEF LiveTables, LiveShape
  <2>8. CASE Moving(db, task)
    <3>1. task.status # None /\ new.tasks[t] = [to |-> next, status |-> task.status, rider |-> task.rider]
          /\ DOMAIN new.tasks = {t}
      BY <1>5, <2>1, <2>8 DEF Moving
    <3>2. x = "customer" /\ task.status \notin Live!OFFERABLE => CardThere(new)
      BY <1>6, <2>8 DEF Moving, CardThere, Live!_open
    <3>3. Moving(new, new.tasks[t])
      BY <1>6, <2>4, <2>5, <2>6, <2>8, <3>1, <3>2 DEF Moving
    <3> QED BY <1>6, <2>1, <2>2, <2>3, <2>7, <3>1, <3>3 DEF LiveTurn, Telling
  <2>9. CASE Assigning(db, task)
    <3>1. CASE x = "vendor"
      <4>1. DOMAIN new.tasks = {t} /\ new.tasks[t] = [to |-> "customer", status |-> None, rider |-> task.rider]
        BY <1>5, <2>1, <2>9, <3>1 DEF Assigning
      <4>2. Assigning(new, new.tasks[t])
        BY <1>6, <2>4, <2>5, <2>6, <2>9, <3>1, <4>1 DEF Assigning
      <4> QED BY <1>6, <2>1, <2>2, <2>3, <2>7, <4>1, <4>2 DEF LiveTurn, Telling
    <3>2. CASE x = "customer"
      <4>1. DOMAIN new.tasks = {}
        BY <1>5, <2>1, <2>9, <3>2 DEF Assigning
      <4>2. \A y \in {"vendor", "customer"} : ShowsRight(new, y) /\ NamesRight(new, y)
        BY <2>4, <2>5, <2>9, <3>2 DEF Assigning
      <4>3. CardTrue(new) /\ CardThere(new) /\ Heard(new)
        BY <1>6, <2>6, <2>9, <3>2 DEF Assigning, CardThere, Heard, Live!_open
      <4> QED BY <1>6, <2>1, <2>3, <4>1, <4>2, <4>3 DEF LiveTurn, Quiet
    <3> QED BY <3>1, <3>2
  <2> QED BY <2>1, <2>8, <2>9 DEF Telling, Mapping
<1> QED BY <1>5, <1>6, <1>7 DEF LiveSays

\* In turn an announcement is the only thing going on.
LEMMA OneAtATime ==
    ASSUME LiveNow, NEW t \in DOMAIN db.tasks
    PROVE  /\ LiveTables(db) /\ LiveRecord(db)
           /\ InTurn => /\ LiveTurn(db) /\ Telling(db, db.tasks[t]) /\ DOMAIN db.tasks = {t}
                        /\ \A x \in {"vendor", "customer"} : db.screens[x].state # "snapped"
                        /\ db.cards[1].up \in BOOLEAN
BY DEF LiveNow, LiveTurn, LiveTables, LiveShape

\* The task is passed on and the screens stay as they are.
LEMMA PassedOn ==
    ASSUME LiveNow, NEW t \in DOMAIN db.tasks, NEW to, NEW put \in BOOLEAN, NEW up \in BOOLEAN,
           NEW d, d = IF put THEN CardsAt(db, up) ELSE db, NEW new, new = Passed(d, t, to),
           InTurn => \A e : /\ Underneath(db, e) /\ e.screens = db.screens
                            /\ e.cards[1].up = (IF put THEN up ELSE db.cards[1].up)
                            => Telling(e, [to |-> to, status |-> db.tasks[t].status, rider |-> db.tasks[t].rider])
    PROVE  LiveSays(new)
<1>1. /\ LiveTables(d) /\ Underneath(db, d) /\ d.screens = db.screens /\ d.tasks = db.tasks
      /\ LiveTurn(db) => d.cards = IF put THEN OneCard(up) ELSE db.cards
  <2>1. CASE put
    <3>1. d = CardsAt(db, up) /\ LiveTables(db)
      BY <2>1 DEF LiveNow
    <3>2. /\ LiveTables(d) /\ Underneath(db, d) /\ d.screens = db.screens /\ d.tasks = db.tasks
          /\ LiveTurn(db) => d.cards = OneCard(up)
      BY <3>1, CardPut
    <3> QED BY <2>1, <3>2
  <2>2. CASE ~put
    BY <2>2 DEF LiveNow, Underneath
  <2> QED BY <2>1, <2>2
<1>2. /\ LiveTables(new) /\ Underneath(d, new) /\ new.screens = d.screens /\ new.cards = d.cards
      /\ DOMAIN new.tasks = DOMAIN d.tasks
      /\ new.tasks[t] = [to |-> to, status |-> d.tasks[t].status, rider |-> d.tasks[t].rider]
  BY <1>1, TaskMoved
<1>3. Underneath(db, new)
  BY <1>1, <1>2 DEF Underneath
<1>4. ASSUME InTurn PROVE LiveTurn(new) /\ DotTrue(new)
  <2>1. /\ LiveTurn(db) /\ DOMAIN db.tasks = {t}
        /\ \A x \in {"vendor", "customer"} : db.screens[x].state # "snapped"
    BY <1>4, OneAtATime
  <2>2. /\ new.cards = OneCard(new.cards[1].up) /\ new.cards[1].up \in BOOLEAN
        /\ new.cards[1].up = (IF put THEN up ELSE db.cards[1].up)
    <3>1. CASE ~put
      BY <1>1, <1>2, <2>1, <3>1 DEF LiveTurn
    <3>2. CASE put
      BY <1>1, <1>2, <2>1, <3>2 DEF OneCard
    <3> QED BY <3>1, <3>2
  <2>3. Telling(new, new.tasks[t])
    BY <1>1, <1>2, <1>3, <1>4, <2>2
  <2>4. DOMAIN new.screens = {"vendor", "customer"}
    BY <1>2 DEF LiveTables, LiveShape
  <2> QED BY <1>1, <1>2, <2>1, <2>2, <2>3, <2>4 DEF LiveTurn, DotTrue
<1> QED BY <1>2, <1>3, <1>4 DEF LiveSays, Underneath

LEMMA Announced ==
    ASSUME LiveNow, NEW t \in DOMAIN db.tasks, db.tasks[t].to = "offers", NEW new \in Live!announce(db, t)
    PROVE  LiveSays(new)
<1>1. PICK to : to = IF Live!_open(db) THEN "card" ELSE "push"
  OBVIOUS
<1>2. new = Passed(db, t, to)
  BY <1>1 DEF Live!announce, Passed
<1>3. ASSUME InTurn, NEW e, Underneath(db, e), e.screens = db.screens, e.cards[1].up = db.cards[1].up
      PROVE  Telling(e, [to |-> to, status |-> db.tasks[t].status, rider |-> db.tasks[t].rider])
  <2>1. Moving(db, db.tasks[t])
    BY <1>3, OneAtATime DEF Telling, Mapping, Assigning
  <2> QED BY <1>1, <1>3, <2>1 DEF Telling, Moving, Underneath, ShowsRight, NamesRight, CardTrue, CardThere,
                                  Live!_open
<1> QED BY <1>2, <1>3, PassedOn

\* The riders' cards, on every phone or, in an overlap, on none.
LEMMA CardShown ==
    ASSUME LiveNow, NEW t \in DOMAIN db.tasks, db.tasks[t].to = "card", NEW new \in Live!ShowCard(db, t)
    PROVE  LiveSays(new)
<1>1. PICK put \in BOOLEAN : (InTurn => put) /\ new = Passed(IF put THEN CardsAt(db, TRUE) ELSE db, t, "push")
  <2>1. PICK d \in Live!Carded(db, TRUE) : new = Passed(d, t, "push")
    BY DEF Live!ShowCard, Passed
  <2>2. d = CardsAt(db, TRUE) \/ (~InTurn /\ d = db)
    BY DEF Live!Carded, CardsAt, InTurn
  <2> QED BY <2>1, <2>2
<1>2. ASSUME InTurn, NEW e, Underneath(db, e), e.screens = db.screens,
             e.cards[1].up = (IF put THEN TRUE ELSE db.cards[1].up)
      PROVE  Telling(e, [to |-> "push", status |-> db.tasks[t].status, rider |-> db.tasks[t].rider])
  <2>1. Moving(db, db.tasks[t])
    BY <1>2, OneAtATime DEF Telling, Mapping, Assigning
  <2>2. e.cards[1].up
    BY <1>1, <1>2
  <2> QED BY <1>2, <2>1, <2>2 DEF Telling, Moving, Underneath, ShowsRight, NamesRight, CardTrue, CardThere,
                                  Live!_open
<1> QED BY <1>1, <1>2, PassedOn

LEMMA CardTaken ==
    ASSUME LiveNow, NEW t \in DOMAIN db.tasks, db.tasks[t].to = "taken", NEW new \in Live!announce_taken(db, t)
    PROVE  LiveSays(new)
<1>1. PICK put \in BOOLEAN : (InTurn => put) /\ new = Passed(IF put THEN CardsAt(db, FALSE) ELSE db, t, "vendor")
  <2>1. PICK d \in Live!Carded(db, FALSE) : new = Passed(d, t, "vendor")
    BY DEF Live!announce_taken, Passed
  <2>2. d = CardsAt(db, FALSE) \/ (~InTurn /\ d = db)
    BY DEF Live!Carded, CardsAt, InTurn
  <2> QED BY <2>1, <2>2
<1>2. ASSUME InTurn, NEW e, Underneath(db, e), e.screens = db.screens,
             e.cards[1].up = (IF put THEN FALSE ELSE db.cards[1].up)
      PROVE  Telling(e, [to |-> "vendor", status |-> db.tasks[t].status, rider |-> db.tasks[t].rider])
  <2>1. Assigning(db, db.tasks[t])
    BY <1>2, OneAtATime DEF Telling, Mapping, Moving
  <2>2. ~e.cards[1].up
    BY <1>1, <1>2
  <2> QED BY <1>2, <2>1, <2>2 DEF Telling, Assigning, Underneath, ShowsRight, CardTrue
<1> QED BY <1>1, <1>2, PassedOn

\* The push: whoever is to hear of a cancellation and is still there hears of it.
LEMMA Delivered ==
    ASSUME LiveNow, NEW t \in DOMAIN db.tasks, db.tasks[t].to = "push", NEW new \in Live!_deliver(db, t)
    PROVE  LiveSays(new)
<1> DEFINE o == db.orders[1]
           status == db.tasks[t].status
           told == {<<who, status>> : who \in Live!plan_status(o, status)}
           e == Live!Done(db, t)
<1>1. new = [e EXCEPT !.told = Live!Joined(@, [x \in told |-> [told |-> TRUE]])]
  BY DEF Live!_deliver
<1>2. /\ LiveTables(e) /\ Underneath(db, e) /\ e.screens = db.screens /\ e.cards = db.cards
      /\ DOMAIN e.tasks = DOMAIN db.tasks \ {t}
  BY TaskDone DEF LiveNow
<1> HIDE DEF e
<1>3. LiveRecord(e)
  BY <1>2 DEF LiveTables, LiveShape
<1>4. /\ LiveRecord(new) /\ new.orders = db.orders /\ new.history = db.history /\ new.tasks = e.tasks
      /\ new.screens = db.screens /\ new.cards = db.cards
      /\ DOMAIN new.told = DOMAIN db.told \cup told
  <2>1. /\ LiveRecord(new) /\ new.orders = db.orders /\ new.history = db.history /\ new.tasks = e.tasks
        /\ new.screens = db.screens /\ new.cards = db.cards
        /\ new.told = Live!Joined(db.told, [x \in told |-> [told |-> TRUE]])
    BY <1>1, <1>2, <1>3 DEF LiveRecord, Underneath
  <2> QED BY <2>1 DEF Live!Joined
<1>5. LiveTables(new)
  BY <1>2, <1>4 DEF LiveTables, LiveShape, Underneath
<1>6. ASSUME InTurn PROVE LiveTurn(new)
  <2>1. LiveTurn(db) /\ Moving(db, db.tasks[t]) /\ DOMAIN db.tasks = {t}
    BY <1>6, OneAtATime DEF Telling, Mapping, Assigning
  <2>2. Heard(new)
    <3>1. SUFFICES ASSUME o.status = "CANCELLED", o.by = "ADMIN" \/ o.rider = None,
                          NEW who \in Live!Holding(o)
                   PROVE  <<who, "CANCELLED">> \in DOMAIN new.told
      BY <1>4, Zenon DEF Heard
    <3>2. status = "CANCELLED"
      BY <2>1, <3>1 DEF Moving
    <3>3. who \in Live!_cancelled(o)
      BY <3>1 DEF Live!Holding, Live!_cancelled
    <3>4. <<who, "CANCELLED">> \in told
      BY <3>2, <3>3 DEF Live!plan_status
    <3> QED BY <1>4, <3>4
  <2>3. CardTrue(new) /\ CardThere(new) /\ \A x \in {"vendor", "customer"} : ShowsRight(new, x) /\ NamesRight(new, x)
    BY <1>4, <2>1 DEF Moving, CardTrue, CardThere, ShowsRight, NamesRight, Live!_open
  <2> QED BY <1>2, <1>4, <2>1, <2>2, <2>3 DEF LiveTurn, Quiet
<1> QED BY <1>4, <1>5, <1>6 DEF LiveSays, DotTrue

\* What is left of a quiet order when nothing is to be told of it any more.
LEMMA QuietLeft ==
    ASSUME NEW d, NEW e, LiveTurn(d), Quiet(d), e.orders = d.orders, e.told = d.told, e.cards = d.cards,
           DOMAIN e.tasks = {},
           \A x \in {"vendor", "customer"} : /\ e.screens[x].state # "closed" => ShowsRight(e, x)
                                             /\ e.screens[x].state # "closed" => NamesRight(e, x)
    PROVE  LiveTurn(e)
BY DEF LiveTurn, Quiet, ShowsRight, NamesRight, CardTrue, CardThere, Heard, Live!_open

\* The frame of a rider's position.
LEMMA Framed ==
    ASSUME LiveAssumption, LiveNow, NEW t \in DOMAIN db.tasks, db.tasks[t].to = "map", NEW new \in Live!Frame(db, t)
    PROVE  LiveSays(new)
<1> DEFINE task == db.tasks[t]
           old == db.screens["customer"]
           row == [old EXCEPT !.dot = [rider |-> task.rider, status |-> task.status]]
<1>1. PICK d : /\ d = db \/ (task.status # None /\ d = Displayed(db, "customer", row))
               /\ new = Live!Done(d, t)
  BY DEF Live!Frame, Live!publish, Displayed
<1>2. /\ LiveTables(db)
      /\ old = [state |-> old.state, shows |-> old.shows, rider |-> old.rider, dot |-> old.dot]
      /\ old.shows \in DOMAIN db.history /\ old.state \in {"open", "snapped", "closed"}
  BY DEF LiveNow, LiveTables, LiveShape
<1>3. row = [state |-> old.state, shows |-> old.shows, rider |-> old.rider,
             dot |-> [rider |-> task.rider, status |-> task.status]]
  BY <1>2
<1> HIDE DEF row
<1>4. /\ LiveTables(d) /\ Underneath(db, d) /\ d.tasks = db.tasks /\ d.cards = db.cards
      /\ d.screens["vendor"] = db.screens["vendor"]
      /\ d.screens["customer"] = old \/ (task.status # None /\ d.screens["customer"] = row)
  <2>1. CASE d = db
    BY <1>2, <2>1 DEF Underneath
  <2>2. CASE task.status # None /\ d = Displayed(db, "customer", row)
    BY <1>2, <1>3, <2>2, ScreenShown
  <2> QED BY <1>1, <2>1, <2>2
<1>5. /\ LiveTables(new) /\ Underneath(d, new) /\ new.screens = d.screens /\ new.cards = d.cards
      /\ DOMAIN new.tasks = DOMAIN d.tasks \ {t}
  BY <1>1, <1>4, TaskDone
<1>6. new.orders = db.orders /\ new.history = db.history /\ new.told = db.told
  BY <1>4, <1>5 DEF Underneath
<1>7. ASSUME InTurn PROVE LiveTurn(new) /\ DotTrue(new)
  <2>1. LiveTurn(db) /\ Mapping(db, task) /\ DOMAIN db.tasks = {t}
    BY <1>7, OneAtATime DEF Telling, Moving, Assigning
  <2>2. \A x \in {"vendor", "customer"} : ShowsRight(new, x) /\ NamesRight(new, x)
    BY <1>3, <1>4, <1>5, <1>6, <2>1 DEF Mapping, Quiet, ShowsRight, NamesRight
  <2>3. DotTrue(new)
    BY <1>3, <1>4, <1>5, <2>1 DEF Mapping, DotTrue
  <2> QED BY <1>4, <1>5, <1>6, <2>1, <2>2, <2>3, QuietLeft DEF Mapping
<1> QED BY <1>5, <1>6, <1>7 DEF LiveSays

\* A process that dies before it has told everything.
LEMMA Died ==
    ASSUME LiveNow, ~InTurn, NEW t
    PROVE  LiveSays(Live!Done(db, t))
BY TaskDone DEF LiveNow, LiveSays, Underneath

\* The customer's screen opens with the order as it is, when nothing is left to tell.
LEMMA Snapped ==
    ASSUME LiveNow, AllTold, NEW new \in Live!snapshot(db)
    PROVE  LiveSays(new)
<1> DEFINE o == db.orders[1]
           row == [state |-> "snapped", shows |-> o.status, rider |-> o.rider,
                   dot |-> Live!position_for_order(db)]
<1>1. new = Displayed(db, "customer", row)
  BY DEF Live!snapshot, Displayed
<1>2. LiveTables(db) /\ o.status \in DOMAIN db.history
  BY DEF LiveNow, LiveTables
<1>3. /\ row = [state |-> row.state, shows |-> row.shows, rider |-> row.rider, dot |-> row.dot]
      /\ row.state = "snapped" /\ row.shows = o.status /\ row.rider = o.rider
      /\ row.dot = Live!position_for_order(db)
  OBVIOUS
<1> HIDE DEF row
<1>4. /\ LiveTables(new) /\ Underneath(db, new) /\ new.tasks = db.tasks /\ new.cards = db.cards
      /\ new.screens["customer"] = row /\ new.screens["vendor"] = db.screens["vendor"]
  BY <1>1, <1>2, <1>3, ScreenShown
<1>5. ASSUME InTurn PROVE LiveTurn(new) /\ DotTrue(new)
  <2>1. LiveTurn(db) /\ Quiet(db) /\ DOMAIN new.tasks = {}
    BY <1>4, <1>5 DEF AllTold, LiveTurn
  <2>2. \A x \in {"vendor", "customer"} : ShowsRight(new, x) /\ NamesRight(new, x)
    BY <1>3, <1>4, <2>1 DEF Quiet, ShowsRight, NamesRight, Underneath
  <2>3. DotTrue(new)
    BY <1>3, <1>4 DEF DotTrue, Live!position_for_order
  <2> QED BY <1>4, <2>1, <2>2, <2>3, QuietLeft DEF Underneath
<1> QED BY <1>4, <1>5 DEF LiveSays, Underneath

\* What is being told does not depend on a screen that nobody looks at any more, nor on
\* one that is now subscribed.
LEMMA Watched ==
    ASSUME LiveNow, NEW new \in Live!subscribe(db) \cup Live!disconnect(db)
    PROVE  LiveSays(new)
<1> DEFINE old == db.screens["customer"]
           state == IF new \in Live!subscribe(db) THEN "open" ELSE "closed"
           row == [old EXCEPT !.state = state]
<1>1. LiveTables(db) /\ LiveRecord(db)
      /\ old = [state |-> old.state, shows |-> old.shows, rider |-> old.rider, dot |-> old.dot]
      /\ old.shows \in DOMAIN db.history
  BY DEF LiveNow, LiveTables, LiveShape
<1>2. row = [state |-> state, shows |-> old.shows, rider |-> old.rider, dot |-> old.dot]
  BY <1>1
<1>3. /\ new = Displayed(db, "customer", row)
      /\ state = "open" => old.state = "snapped"
  <2>1. CASE new \in Live!subscribe(db)
    BY <1>1, <2>1 DEF Live!subscribe, Displayed, LiveRecord
  <2>2. CASE new \notin Live!subscribe(db)
    BY <1>1, <2>2 DEF Live!disconnect, Displayed, LiveRecord
  <2> QED BY <2>1, <2>2
<1>4. state \in {"open", "closed"}
  OBVIOUS
<1> HIDE DEF row, state
<1>5. /\ LiveTables(new) /\ Underneath(db, new) /\ new.tasks = db.tasks /\ new.cards = db.cards
      /\ new.screens["customer"] = row /\ new.screens["vendor"] = db.screens["vendor"]
      /\ DOMAIN new.screens = {"vendor", "customer"}
  <2>1. /\ LiveTables(new) /\ Underneath(db, new) /\ new.tasks = db.tasks /\ new.cards = db.cards
        /\ new.screens["customer"] = row /\ new.screens["vendor"] = db.screens["vendor"]
    BY <1>1, <1>2, <1>3, <1>4, ScreenShown
  <2> QED BY <2>1 DEF LiveTables, LiveShape
<1>6. ASSUME InTurn PROVE LiveTurn(new)
  <2>1. LiveTurn(db) /\ DOMAIN db.screens = {"vendor", "customer"}
    BY <1>1, <1>6 DEF LiveNow, LiveTables, LiveShape
  <2>2. \A x \in {"vendor", "customer"} : /\ ShowsRight(db, x) => ShowsRight(new, x)
                                          /\ NamesRight(db, x) => NamesRight(new, x)
    <3>1. row.state = state /\ row.shows = old.shows /\ row.rider = old.rider
      BY <1>2
    <3>2. new.orders = db.orders /\ new.screens["customer"] = row /\ new.screens["vendor"] = db.screens["vendor"]
      BY <1>5 DEF Underneath
    <3>3. /\ ShowsRight(db, "vendor") => ShowsRight(new, "vendor")
          /\ NamesRight(db, "vendor") => NamesRight(new, "vendor")
      BY <3>2 DEF ShowsRight, NamesRight
    <3>4. state # "closed" => old.state # "closed"
      BY <1>3, <1>4
    <3>5. /\ ShowsRight(db, "customer") => ShowsRight(new, "customer")
          /\ NamesRight(db, "customer") => NamesRight(new, "customer")
      BY <3>1, <3>2, <3>4 DEF ShowsRight, NamesRight
    <3> QED BY <3>3, <3>5
  <2>3. /\ CardTrue(db) => CardTrue(new)
        /\ CardThere(db) => CardThere(new)
        /\ Heard(db) => Heard(new)
    BY <1>5 DEF CardTrue, CardThere, Heard, Underneath, Live!_open
  <2>4. Quiet(db) => Quiet(new)
    BY <2>2, <2>3 DEF Quiet
  <2>5. ASSUME NEW t \in DOMAIN db.tasks PROVE Telling(new, db.tasks[t])
    <3>1. CASE Mapping(db, db.tasks[t])
      BY <1>5, <2>4, <3>1 DEF Telling, Mapping, Underneath
    <3>2. CASE Moving(db, db.tasks[t])
      BY <1>5, <2>2, <2>3, <3>2 DEF Telling, Moving, Underneath, Live!_open
    <3>3. CASE Assigning(db, db.tasks[t])
      BY <1>5, <2>2, <2>3, <3>3 DEF Telling, Assigning, Underneath
    <3> QED BY <2>1, <3>1, <3>2, <3>3 DEF LiveTurn, Telling
  <2>6. \A t \in DOMAIN db.tasks : \A x \in DOMAIN new.screens : new.screens[x].state # "snapped"
    BY <1>2, <1>4, <1>5, <2>1 DEF LiveTurn
  <2> QED BY <1>5, <2>1, <2>4, <2>5, <2>6 DEF LiveTurn
<1> QED BY <1>2, <1>5, <1>6 DEF LiveSays, DotTrue, Underneath

\* The riders' list is read again.
LEMMA OffersListed ==
    ASSUME LiveNow, NEW new \in Live!list_offers(db)
    PROVE  LiveSays(new)
<1>1. new = CardsAt(db, Live!_open(db)) /\ LiveTables(db)
  BY DEF LiveNow, Live!list_offers, CardsAt
<1>2. /\ LiveTables(new) /\ Underneath(db, new) /\ new.screens = db.screens /\ new.tasks = db.tasks
      /\ LiveTurn(db) => new.cards = OneCard(Live!_open(db))
  BY <1>1, CardPut
<1>3. ASSUME InTurn PROVE LiveTurn(new)
  <2>1. LiveTurn(db) /\ new.cards[1].up = Live!_open(db) /\ new.cards = OneCard(new.cards[1].up)
    BY <1>2, <1>3 DEF LiveNow, OneCard
  <2>2. Live!_open(new) <=> Live!_open(db)
    BY <1>2 DEF Underneath, Live!_open
  <2>3. CardTrue(new) /\ CardThere(new) /\ new.cards[1].up \in BOOLEAN
    BY <2>1, <2>2 DEF CardTrue, CardThere, Live!_open
  <2>4. \A x : (ShowsRight(db, x) => ShowsRight(new, x)) /\ (NamesRight(db, x) => NamesRight(new, x))
    BY <1>2 DEF ShowsRight, NamesRight, Underneath
  <2>5. Quiet(db) => Quiet(new)
    BY <1>2, <2>3, <2>4 DEF Quiet, Heard, Underneath
  <2>6. ASSUME NEW t \in DOMAIN db.tasks PROVE Telling(new, db.tasks[t])
    <3>1. CASE Mapping(db, db.tasks[t])
      BY <1>2, <2>5, <3>1 DEF Telling, Mapping, Underneath
    <3>2. CASE Moving(db, db.tasks[t])
      BY <1>2, <2>2, <2>3, <2>4, <3>2 DEF Telling, Moving, Underneath
    <3>3. CASE Assigning(db, db.tasks[t])
      BY <1>2, <2>3, <2>4, <3>3 DEF Telling, Assigning, Underneath
    <3> QED BY <2>1, <3>1, <3>2, <3>3 DEF LiveTurn, Telling
  <2> QED BY <1>2, <2>1, <2>3, <2>5, <2>6 DEF LiveTurn
<1> QED BY <1>2, <1>3 DEF LiveSays, DotTrue, Underneath

\* A rider's hash runs out.
LEMMA Expired ==
    ASSUME LiveNow, NEW r, NEW new \in Live!Expiring(db, r)
    PROVE  LiveSays(new)
<1>1. LiveTables(db) /\ LiveRecord(db)
  BY DEF LiveNow, LiveTables, LiveShape
<1>2. /\ LiveRecord(new) /\ Underneath(db, new) /\ new.tasks = db.tasks /\ new.screens = db.screens
      /\ new.cards = db.cards
  BY <1>1 DEF LiveRecord, Underneath, Live!Expiring
<1>3. LiveTables(new)
  BY <1>1, <1>2 DEF LiveTables, LiveShape, Underneath
<1> QED BY <1>2, <1>3, QuietSame DEF LiveSays, LiveNow, DotTrue, Underneath

\* A rider's position, for the order that is on its way with them, if any.
LEMMA Pinged ==
    ASSUME IdsAssumption, LiveAssumption, LiveNow, AllTold, NEW r, NEW new \in Live!record_ping(db, r)
    PROVE  LiveSays(new)
<1> DEFINE o == db.orders[1]
           task == [to |-> "map", rider |-> r,
                    status |-> IF Live!_live_orders(db, r) = {} THEN None
                               ELSE CHOOSE s \in Live!_live_orders(db, r) : TRUE]
<1>1. PICK d : d = Live!set_rider_location(db, r)
  OBVIOUS
<1>2. /\ Fresh("tasks", Tasks) # {}
      /\ new = [d EXCEPT !.tasks = Live!Add(@, Least(Fresh("tasks", Tasks)), task)]
  BY <1>1, LiveIsDesk DEF Live!record_ping
<1>3. LiveTables(db) /\ LiveRecord(db)
  BY DEF LiveNow, LiveTables, LiveShape
<1>4. /\ LiveRecord(d) /\ Underneath(db, d) /\ d.tasks = db.tasks /\ d.screens = db.screens /\ d.cards = db.cards
  BY <1>1, <1>3 DEF LiveRecord, Underneath, Live!set_rider_location
<1>5. task.status # None => /\ o.rider = r /\ task.status = o.status /\ o.status \in Live!Trackable
  BY DEF Live!_live_orders
<1>6. PICK row : row = task
  OBVIOUS
<1>7. row = [to |-> row.to, status |-> row.status, rider |-> row.rider]
  BY <1>6
<1>8. new = [d EXCEPT !.tasks = Add(db.tasks, Least(Fresh("tasks", Tasks)), row)]
  BY <1>2, <1>4, <1>6, LiveIsDesk DEF LiveRecord
<1>9. /\ row.to = "map" /\ row.rider = r
      /\ row.status # None => /\ o.rider = r /\ row.status = o.status /\ o.status \in Live!Trackable
  BY <1>5, <1>6
<1> HIDE DEF task
<1>10. /\ LiveRecord(new) /\ Underneath(d, new) /\ new.screens = d.screens /\ new.cards = d.cards
       /\ \A t \in DOMAIN db.tasks : t \in DOMAIN new.tasks /\ new.tasks[t] = db.tasks[t]
       /\ \A t \in DOMAIN new.tasks : t \notin DOMAIN db.tasks => new.tasks[t] = row
       /\ DOMAIN db.tasks = {} => \A t \in DOMAIN new.tasks : DOMAIN new.tasks = {t}
       /\ DOMAIN new.tasks # {}
  BY <1>2, <1>3, <1>4, <1>7, <1>8, TaskAdded
<1>11. LiveTables(new)
  BY <1>3, <1>4, <1>7, <1>9, <1>10 DEF LiveTables, LiveShape, Underneath
<1>12. ASSUME InTurn PROVE LiveTurn(new)
  <2>1. LiveTurn(db) /\ Quiet(db) /\ DOMAIN db.tasks = {} /\ \A x \in {"vendor", "customer"} : db.screens[x].state # "snapped"
    BY <1>12 DEF AllTold, LiveTurn
  <2>2. Underneath(db, new) /\ new.screens = db.screens /\ new.cards = db.cards
    BY <1>4, <1>10 DEF Underneath
  <2>3. Quiet(new)
    BY <2>1, <2>2 DEF Quiet, ShowsRight, NamesRight, CardTrue, CardThere, Heard, Underneath, Live!_open
  <2>4. Telling(new, row)
    BY <1>9, <2>2, <2>3 DEF Telling, Mapping, Underneath
  <2>5. \A x \in DOMAIN new.screens : new.screens[x].state # "snapped"
    BY <1>11, <2>1, <2>2 DEF LiveTables, LiveShape
  <2> QED BY <1>10, <2>1, <2>2, <2>3, <2>4, <2>5 DEF LiveTurn
<1> QED BY <1>4, <1>10, <1>11, <1>12 DEF LiveSays, DotTrue, Underneath

\* ---- What a flush makes of the order ----
LEMMA LiveMerged ==
    ASSUME LiveRecord(db), NEW r, LiveRecord(r.seen), LiveRecord(r.new)
    PROVE  /\ LiveRecord(Flushed(r))
           /\ \A t \in {"orders", "history", "tasks", "screens"} :
                  IsMerge(Flushed(r)[t], db[t], r.seen[t], r.new[t])
<1> DEFINE d == Flushed(r)
           table == {"orders", "history", "riders", "redis", "tasks", "screens", "cards", "told"}
<1>1. DOMAIN db = table
  BY DEF LiveRecord
<1>2. d = [t \in table |-> Merged(db[t], r.seen[t], r.new[t])]
  BY <1>1 DEF Flushed
<1>3. LiveRecord(d)
  BY <1>2 DEF LiveRecord
<1>4. \A t \in table : d[t] = Merged(db[t], r.seen[t], r.new[t])
  BY <1>2
<1> QED BY <1>3, <1>4, MergedRows

LEMMA LiveFlushed ==
    ASSUME LiveTables(db), NEW r, LiveWork(r.seen, r.new), LiveStands(r, db)
    PROVE  LiveTables(Flushed(r)) /\ DOMAIN db.history \subseteq DOMAIN Flushed(r).history
<1> DEFINE d == Flushed(r)
<1>1. LiveTables(r.seen) /\ LiveTables(r.new)
  BY DEF LiveWork
<1>2. /\ LiveRecord(d)
      /\ IsMerge(d.orders, db.orders, r.seen.orders, r.new.orders)
      /\ IsMerge(d.history, db.history, r.seen.history, r.new.history)
      /\ IsMerge(d.tasks, db.tasks, r.seen.tasks, r.new.tasks)
      /\ IsMerge(d.screens, db.screens, r.seen.screens, r.new.screens)
  <2>1. LiveRecord(db) /\ LiveRecord(r.seen) /\ LiveRecord(r.new)
    BY <1>1, Zenon DEF LiveTables, LiveShape
  <2> QED BY <2>1, LiveMerged
<1> HIDE DEF d
<1>3. DOMAIN db.history \subseteq DOMAIN d.history /\ DOMAIN r.new.history \subseteq DOMAIN d.history
  BY <1>2 DEF IsMerge, LiveWork, LiveStands
<1>4. /\ DOMAIN d.orders = {1}
      /\ d.orders[1] = [status |-> d.orders[1].status, rider |-> d.orders[1].rider, by |-> d.orders[1].by]
      /\ d.orders[1].status \in {db.orders[1].status, r.new.orders[1].status}
  <2>1. /\ DOMAIN db.orders = {1} /\ DOMAIN r.seen.orders = {1} /\ DOMAIN r.new.orders = {1}
        /\ db.orders[1] = [status |-> db.orders[1].status, rider |-> db.orders[1].rider, by |-> db.orders[1].by]
    BY <1>1, Zenon DEF LiveTables, LiveShape
  <2>2. DOMAIN d.orders = {1} /\ d.orders[1] = Column(db.orders[1], r.seen.orders[1], r.new.orders[1])
    BY <1>2, <2>1 DEF IsMerge
  <2>3. DOMAIN db.orders[1] = {"status", "rider", "by"}
    BY <2>1
  <2> QED BY <2>2, <2>3 DEF Column
<1>5. DOMAIN d.screens = DOMAIN db.screens /\ \A x \in DOMAIN db.screens : d.screens[x] = db.screens[x]
  <2>1. r.new.screens = r.seen.screens
    BY DEF LiveWork
  <2>2. ASSUME NEW x \in DOMAIN db.screens
        PROVE  db.screens[x] = [c \in DOMAIN db.screens[x] |-> db.screens[x][c]]
    BY DEF LiveTables, LiveShape
  <2>3. \A x \in DOMAIN db.screens : x \in DOMAIN d.screens /\ d.screens[x] = db.screens[x]
    <3> SUFFICES ASSUME NEW x \in DOMAIN db.screens
                 PROVE  x \in DOMAIN d.screens /\ d.screens[x] = db.screens[x]
      OBVIOUS
    <3>1. IsMerge(d.screens, db.screens, r.seen.screens, r.new.screens)
      BY <1>2
    <3>2. db.screens[x] = [c \in DOMAIN db.screens[x] |-> db.screens[x][c]]
      BY <2>2
    <3> QED BY <2>1, <3>1, <3>2, UnwrittenRows
  <2>4. \A x \in DOMAIN d.screens : x \in DOMAIN db.screens
    BY <1>2, <2>1 DEF IsMerge
  <2> QED BY <2>3, <2>4
<1>6. ASSUME NEW t \in DOMAIN d.tasks
      PROVE  /\ d.tasks[t] = [to |-> d.tasks[t].to, status |-> d.tasks[t].status, rider |-> d.tasks[t].rider]
             /\ d.tasks[t].status # None => d.tasks[t].status \in DOMAIN d.history
  <2>1. CASE t \in DOMAIN db.tasks /\ (t \in DOMAIN r.seen.tasks \/ t \notin DOMAIN r.new.tasks)
    <3>1. /\ db.tasks[t] = [to |-> db.tasks[t].to, status |-> db.tasks[t].status, rider |-> db.tasks[t].rider]
          /\ db.tasks[t].status # None => db.tasks[t].status \in DOMAIN db.history
      BY <2>1 DEF LiveTables, LiveShape
    <3>2. db.tasks[t] = [c \in DOMAIN db.tasks[t] |-> db.tasks[t][c]]
      BY <3>1
    <3>3. t \in DOMAIN r.seen.tasks => t \in DOMAIN r.new.tasks /\ r.new.tasks[t] = r.seen.tasks[t]
      BY DEF LiveWork
    <3>4. d.tasks[t] = db.tasks[t]
      BY <1>2, <2>1, <3>2, <3>3, UnwrittenRows
    <3> QED BY <1>3, <3>1, <3>4
  <2>2. CASE t \in DOMAIN r.new.tasks /\ t \notin DOMAIN r.seen.tasks
    <3>1. d.tasks[t] = r.new.tasks[t]
      BY <1>2, <2>2 DEF IsMerge
    <3> QED BY <1>1, <1>3, <2>2, <3>1, ZenonT(60) DEF LiveTables, LiveShape
  <2> QED BY <1>2, <2>1, <2>2 DEF IsMerge
<1>7. LiveShape(d)
  BY <1>2, <1>4, <1>5, <1>6 DEF LiveTables, LiveShape
<1>8. LiveTables(d)
  BY <1>1, <1>3, <1>4, <1>5, <1>6, <1>7 DEF LiveTables
<1> QED BY <1>3, <1>8 DEF d

LEMMA LiveServed ==
    ASSUME LiveInv, NEW s \in Clerks, NEW call, NEW results,
           AllTold => \A new \in results : LiveBegins(new),
           Live!Do(s, call, results)
    PROVE  LiveStep
<1>1. /\ txn = [u \in Clerks |-> txn[u]] /\ LiveTables(db) /\ LiveOpen
      /\ InTurn => NoneOpen /\ LiveTurn(db)
  BY DEF LiveInv
<1>2. AllTold
  <2>1. InTurn => DOMAIN db.tasks = {} /\ db.screens["customer"].state # "snapped"
    BY LiveIsDesk DEF Live!Do, Live!Calm, Live!Nothing
  <2>2. db.screens["vendor"].state = "open"
    BY <1>1 DEF LiveTables, LiveShape
  <2> QED BY <1>1, <2>1, <2>2 DEF AllTold
<1>3. /\ script' = script
      /\ \/ /\ ~InTurn /\ db' = db
            /\ \E new \in results : txn' = [txn EXCEPT ![s] = [seen |-> db, new |-> new, holds |-> {}]]
         \/ /\ InTurn /\ txn' = txn
            /\ \E new \in results : db' \in Live!Settle(new)
  BY LiveIsDesk DEF Live!Do, Live!Serve, Live!ServeHolding, InTurn
<1>4. InTurn' <=> InTurn
  BY <1>3 DEF InTurn
<1>5. CASE InTurn
  <2>1. db' \in results /\ txn' = txn /\ NoneOpen
    BY <1>1, <1>3, <1>5 DEF Live!Settle
  <2>2. LiveTables(db') /\ LiveTurn(db') /\ db'.screens = db.screens
    BY <1>2, <1>5, <2>1 DEF LiveBegins, LiveWork
  <2>3. NoneOpen' /\ LiveOpen' /\ (txn = [u \in Clerks |-> txn[u]])'
    BY <1>1, <2>1 DEF NoneOpen, LiveOpen
  <2> QED BY <2>2, <2>3 DEF LiveStep, LiveInv, DotTrue
<1>6. CASE ~InTurn
  <2>1. PICK new \in results : txn' = [txn EXCEPT ![s] = [seen |-> db, new |-> new, holds |-> {}]]
    BY <1>3, <1>6
  <2>2. LiveWork(db, new) /\ db' = db
    BY <1>2, <1>3, <1>6 DEF LiveBegins
  <2> DEFINE r == [seen |-> db, new |-> new, holds |-> {}]
  <2>3. /\ txn' = [u \in Clerks |-> txn'[u]] /\ txn'[s] = r
        /\ \A u \in Clerks : u # s => txn'[u] = txn[u]
    BY <1>1, <2>1
  <2>4. r.seen = db /\ r.new = new
    OBVIOUS
  <2> HIDE DEF r
  <2>5. LiveOpen'
    BY <1>1, <2>2, <2>3, <2>4 DEF LiveOpen, LiveStands
  <2> QED BY <1>1, <1>4, <1>6, <2>2, <2>3, <2>5 DEF LiveStep, LiveInv
<1> QED BY <1>5, <1>6

LEMMA LiveStated ==
    ASSUME LiveInv, NEW call, NEW results, \A new \in results : LiveSays(new), Live!At(call, results)
    PROVE  LiveStep
<1>1. /\ txn = [u \in Clerks |-> txn[u]] /\ LiveTables(db) /\ LiveOpen
      /\ InTurn => NoneOpen /\ LiveTurn(db)
  BY DEF LiveInv
<1>2. script' = script /\ txn' = txn /\ db' \in results
  BY DEF Live!At, Live!Statement, Live!Settle
<1>3. LiveSays(db')
  BY <1>2
<1>4. LiveOpen' /\ (NoneOpen => NoneOpen') /\ (InTurn' <=> InTurn)
  BY <1>1, <1>2, <1>3 DEF LiveOpen, LiveStands, LiveSays, NoneOpen, InTurn
<1> QED BY <1>1, <1>2, <1>3, <1>4 DEF LiveStep, LiveInv, LiveSays

LEMMA LiveCommitted ==
    ASSUME LiveInv, NEW s \in Clerks, Live!Commit(s, Live!Settle) \/ Live!Abort(s)
    PROVE  LiveStep
<1>1. /\ txn = [u \in Clerks |-> txn[u]] /\ LiveTables(db) /\ LiveOpen
      /\ InTurn => NoneOpen /\ LiveTurn(db)
  BY DEF LiveInv
<1>2. /\ script' = script /\ txn' = [txn EXCEPT ![s] = None] /\ txn[s] # None
      /\ db' = Flushed(txn[s]) \/ db' = db
  BY LiveIsDesk DEF Live!Commit, Live!Abort, Live!Settle, Flushed
<1>3. ~InTurn /\ ~InTurn'
  BY <1>1, <1>2 DEF NoneOpen, InTurn
<1>4. LiveTables(db') /\ DOMAIN db.history \subseteq DOMAIN db'.history
  BY <1>1, <1>2, LiveFlushed DEF LiveOpen
<1>5. /\ txn' = [u \in Clerks |-> txn'[u]] /\ txn'[s] = None
      /\ \A u \in Clerks : u # s => txn'[u] = txn[u]
  BY <1>1, <1>2
<1>6. LiveOpen'
  BY <1>1, <1>4, <1>5 DEF LiveOpen, LiveStands
<1> QED BY <1>3, <1>4, <1>5, <1>6 DEF LiveStep, LiveInv

LEMMA LiveInit ==
    ASSUME Live!Init
    PROVE  LiveInv
<1>1. /\ LiveRecord(db)
      /\ db.orders = [k \in {1} |-> [status |-> "PENDING", rider |-> None, by |-> None]]
      /\ db.history = [st \in {"PENDING"} |-> [at |-> TRUE]]
      /\ db.screens = [x \in {"vendor", "customer"} |->
                          [state |-> IF x = "vendor" THEN "open" ELSE "closed", shows |-> "PENDING",
                           rider |-> None, dot |-> Live!NoDot]]
      /\ db.cards = [k \in {1} |-> [up |-> FALSE]]
      /\ DOMAIN db.tasks = {}
      /\ txn = [s \in Clerks |-> None]
  BY DEF Live!Init, Live!Opens, Live!Only, Live!Nothing, LiveRecord
<1>2. LiveTables(db)
  BY <1>1 DEF LiveTables, LiveShape
<1>3. Quiet(db)
  BY <1>1 DEF Quiet, ShowsRight, NamesRight, CardTrue, CardThere, Heard, Live!_open, Live!OFFERABLE
<1>4. LiveTurn(db)
  <2>1. db.cards[1].up = FALSE
    BY <1>1
  <2> QED BY <1>1, <1>3, <2>1 DEF LiveTurn, OneCard
<1> QED BY <1>1, <1>2, <1>4 DEF LiveInv, LiveOpen, NoneOpen

LEMMA LiveNext ==
    ASSUME IdsAssumption, LiveAssumption, LiveInv, Live!Next
    PROVE  LiveStep
<1>1. LiveNow /\ LiveTables(db)
  BY DEF LiveInv, LiveNow
<1>2. Live!Calm => AllTold
  <2>1. Live!Calm /\ InTurn => DOMAIN db.tasks = {} /\ db.screens["customer"].state # "snapped"
    BY LiveIsDesk DEF Live!Calm, Live!Nothing
  <2>2. db.screens["vendor"].state = "open"
    BY <1>1 DEF LiveTables, LiveShape
  <2> QED BY <1>1, <2>1, <2>2 DEF AllTold, LiveNow
<1>3. ASSUME NEW s \in Clerks,
             \/ \E m \in Live!Moves : Live!Move(s, m)
             \/ \E r \in Riders : \/ Live!Do(s, "assign", Live!assign_rider(db, r))
                                  \/ Live!Do(s, "shift", Live!set_shift(db, r))
             \/ Live!Do(s, "dispatch", Live!dispatch(db))
      PROVE  LiveStep
  <2>1. ASSUME NEW m \in Live!Moves, Live!Move(s, m) PROVE LiveStep
    BY <1>1, <2>1, OrderMoves, LiveServed DEF Live!Move
  <2>2. ASSUME NEW r \in Riders, Live!Do(s, "assign", Live!assign_rider(db, r)) PROVE LiveStep
    BY <1>1, <2>2, RiderAssigned, LiveServed
  <2>3. ASSUME NEW r \in Riders, Live!Do(s, "shift", Live!set_shift(db, r)) PROVE LiveStep
    BY <1>1, <2>3, ShiftSet, LiveServed
  <2>4. CASE Live!Do(s, "dispatch", Live!dispatch(db))
    BY <1>1, <2>4, OrderDispatched, LiveServed
  <2> QED BY <1>3, <2>1, <2>2, <2>3, <2>4
<1>4. ASSUME NEW t \in DOMAIN db.tasks,
             \/ /\ db.tasks[t].to \in {"vendor", "customer"}
                /\ \E call \in {"move", "assign"} : Live!At(call, Live!_publish_both(db, t))
             \/ db.tasks[t].to = "offers" /\ Live!At("move", Live!announce(db, t))
             \/ db.tasks[t].to = "card" /\ Live!At("move", Live!ShowCard(db, t))
             \/ db.tasks[t].to = "taken" /\ Live!At("assign", Live!announce_taken(db, t))
             \/ db.tasks[t].to = "push" /\ Live!At("move", Live!_deliver(db, t))
             \/ db.tasks[t].to = "map" /\ Live!At("ping", Live!Frame(db, t))
             \/ script.overlap /\ Live!At("move", {Live!Done(db, t)})
      PROVE  LiveStep
  <2>1. ASSUME db.tasks[t].to \in {"vendor", "customer"},
               NEW call, Live!At(call, Live!_publish_both(db, t))
        PROVE  LiveStep
    BY <1>1, <2>1, PublishedBoth, LiveStated
  <2>2. CASE db.tasks[t].to = "offers" /\ Live!At("move", Live!announce(db, t))
    BY <1>1, <2>2, Announced, LiveStated
  <2>3. CASE db.tasks[t].to = "card" /\ Live!At("move", Live!ShowCard(db, t))
    BY <1>1, <2>3, CardShown, LiveStated
  <2>4. CASE db.tasks[t].to = "taken" /\ Live!At("assign", Live!announce_taken(db, t))
    BY <1>1, <2>4, CardTaken, LiveStated
  <2>5. CASE db.tasks[t].to = "push" /\ Live!At("move", Live!_deliver(db, t))
    BY <1>1, <2>5, Delivered, LiveStated
  <2>6. CASE db.tasks[t].to = "map" /\ Live!At("ping", Live!Frame(db, t))
    BY <1>1, <2>6, Framed, LiveStated
  <2>7. CASE script.overlap /\ Live!At("move", {Live!Done(db, t)})
    <3>1. \A new \in {Live!Done(db, t)} : LiveSays(new)
      BY <1>1, <2>7, Died DEF InTurn
    <3> QED BY <2>7, <3>1, LiveStated
  <2> QED BY <1>4, <2>1, <2>2, <2>3, <2>4, <2>5, <2>6, <2>7
<1>5. CASE Live!Calm /\ Live!At("watch", Live!snapshot(db))
  BY <1>1, <1>2, <1>5, Snapped, LiveStated
<1>6. CASE Live!At("watch", Live!subscribe(db)) \/ Live!At("watch", Live!disconnect(db))
  <2>1. \A new \in Live!subscribe(db) : LiveSays(new)
    BY <1>1, Watched
  <2>2. \A new \in Live!disconnect(db) : LiveSays(new)
    BY <1>1, Watched
  <2> QED BY <1>6, <2>1, <2>2, LiveStated
<1>7. CASE Live!At("watch", Live!list_offers(db))
  BY <1>1, <1>7, OffersListed, LiveStated
<1>8. ASSUME NEW r \in Riders, Live!Calm /\ Live!At("ping", Live!record_ping(db, r)) PROVE LiveStep
  BY <1>1, <1>2, <1>8, Pinged, LiveStated
<1>9. ASSUME NEW r \in Riders, Live!At("ping", Live!Expiring(db, r)) PROVE LiveStep
  BY <1>1, <1>9, Expired, LiveStated
<1> QED BY <1>3, <1>4, <1>5, <1>6, <1>7, <1>8, <1>9, LiveCommitted DEF Live!Next

LEMMA LiveKept ==
    ASSUME desk = "live" => LiveInv, [Next]_<<db, txn, script, desk>>, desk' = "live"
    PROVE  LiveStep
<1>1. CASE Next
  BY <1>1, IdsAssumption, LiveAssumption, LiveNext DEF Next
<1>2. CASE UNCHANGED <<db, txn, script, desk>>
  BY <1>2 DEF LiveStep, LiveInv, LiveOpen, LiveStands, NoneOpen, InTurn, DotTrue
<1> QED BY <1>1, <1>2

LEMMA DotsFollow ==
    ASSUME desk = "live" => LiveInv, [Next]_<<db, txn, script, desk>>, desk' = "live"
    PROVE  Live!MapFollowsTheOrder
<1>1. InTurn => DotTrue(db')
  BY LiveKept DEF LiveStep
<1> QED BY <1>1, LiveIsDesk DEF DotTrue, Live!MapFollowsTheOrder

(***************************************************************************)
(* What is signalled is true                                               *)
(***************************************************************************)
\* A behaviour keeps its script.
LEMMA CampaignsScript ==
    ASSUME Campaigns!Next
    PROVE  script' = script
<1>1. ASSUME NEW s, NEW call, NEW d, NEW cs, NEW holds, Campaigns!Sending(s, call, d, cs, holds)
      PROVE  script' = script
  BY <1>1 DEF Campaigns!Sending, Campaigns!ServeHolding
<1>2. ASSUME NEW s, NEW call, NEW holds, NEW results,
             Campaigns!ServeHolding(s, call, holds, results, Campaigns!Settle)
      PROVE  script' = script
  BY <1>2 DEF Campaigns!ServeHolding
<1>3. ASSUME NEW call, NEW results, Campaigns!Statement(call, results, Campaigns!Settle)
      PROVE  script' = script
  BY <1>3 DEF Campaigns!Statement
<1>4. ASSUME NEW s \in Clerks, Campaigns!Console(s) PROVE script' = script
  <2>1. ASSUME NEW audience, NEW later \in BOOLEAN, Campaigns!create(s, audience, later) PROVE script' = script
    BY <1>1, <1>2, <2>1 DEF Campaigns!create, Campaigns!Serve
  <2>2. ASSUME NEW c, Campaigns!cancel(s, c) PROVE script' = script
    BY <1>2, <2>2 DEF Campaigns!cancel
  <2>3. ASSUME Campaigns!send_due(s) PROVE script' = script
    BY <1>1, <2>3 DEF Campaigns!send_due
  <2> QED BY <1>4, <2>1, <2>2, <2>3 DEF Campaigns!Console
<1>5. ASSUME NEW s \in Clerks, Campaigns!Arriving(s) PROVE script' = script
  BY <1>2, <1>5 DEF Campaigns!Arriving, Campaigns!register_device, Campaigns!Serve
<1>6. ASSUME Campaigns!Inbox PROVE script' = script
  BY <1>3, <1>6, Zenon DEF Campaigns!Inbox, Campaigns!mark_read, Campaigns!unregister_device
<1>7. ASSUME NEW s \in Clerks, Campaigns!Commit(s, Campaigns!Settle) \/ Campaigns!Abort(s)
      PROVE  script' = script
  BY <1>7 DEF Campaigns!Commit, Campaigns!Abort
<1>8. ASSUME NEW x, \/ Campaigns!come_due(x) \/ Campaigns!set_active(x)
                    \/ Campaigns!uninstall(x) \/ Campaigns!delete_account(x)
      PROVE  script' = script
  BY <1>3, <1>8, Zenon DEF Campaigns!come_due, Campaigns!set_active, Campaigns!uninstall, Campaigns!delete_account
<1> QED BY <1>4, <1>5, <1>6, <1>7, <1>8 DEF Campaigns!Next

LEMMA BuzzStep ==
    ASSUME desk = "campaigns" => CampaignsTurn, [Next]_<<db, txn, script, desk>>, desk' = "campaigns"
    PROVE  CampaignsTurn' /\ [Campaigns!BuzzesItsAudience]_db
<1>1. CASE Next
  <2>1. CampaignsInv /\ (InTurn => BuzzKept(db)) /\ Campaigns!Next
    BY <1>1 DEF Next, CampaignsTurn
  <2>2. CampaignsInv'
    BY <2>1, IdsAssumption, UsersAssumption, CampaignsNext DEF CampaignStep
  <2>3. InTurn => Buzzes(db, db')
    BY <2>1, IdsAssumption, UsersAssumption, CampaignsNext DEF CampaignStep
  <2>4. InTurn' <=> InTurn
    BY <2>1, CampaignsScript DEF InTurn
  <2>5. InTurn' => BuzzKept(db')
    BY <2>3, <2>4 DEF Buzzes
  <2>6. CampaignsTurn'
    BY <2>2, <2>5 DEF CampaignsTurn
  <2> QED BY <2>3, <2>6, BuzzesIts
<1>2. CASE UNCHANGED <<db, txn, script, desk>>
  BY <1>2 DEF CampaignsTurn, CampaignsInv, CampaignsOpen, NoneOpen, InTurn
<1> QED BY <1>1, <1>2

(***************************************************************************)
(* One default, and in turn one as soon as there are any                   *)
(***************************************************************************)
LEMMA AtMostOne ==
    ASSUME NEW S, \A x, y \in S : x = y
    PROVE  Cardinality(S) <= 1
<1>1. CASE S = {}
  BY <1>1, FS_EmptySet
<1>2. CASE S # {}
  <2>1. PICK x : S = {x}
    BY <1>2
  <2> QED BY <2>1, FS_Singleton
<1> QED BY <1>1, <1>2

\* Whatever changes the accounts went through their unique index.
LEMMA AccountsSettled ==
    ASSUME Accounts!Next
    PROVE  db' = db \/ \E d : db' \in Accounts!Settle(d)
<1> DEFINE Settled == db' = db \/ \E d : db' \in Accounts!Settle(d)
<1>1. \A s, call, holds, results : Accounts!ServeHolding(s, call, holds, results, Accounts!Settle) => Settled
  BY DEF Accounts!ServeHolding
<1>2. \A call, results : Accounts!At(call, results) => Settled
  BY DEF Accounts!At, Accounts!Statement
<1>3. \A s : Accounts!Commit(s, Accounts!Settle) \/ Accounts!Abort(s) => Settled
  BY DEF Accounts!Commit, Accounts!Abort
<1> HIDE DEF Settled
<1>4. \A s, u, call, results : Accounts!As(s, u, call, results) => Settled
  BY <1>1 DEF Accounts!As, Accounts!Serve
<1>5. \A s : Accounts!AddressBook(s) => Settled
  BY <1>4 DEF Accounts!AddressBook
<1>6. \A s : Accounts!Trading(s) \/ Accounts!Operator(s) => Settled
  BY <1>1, <1>4 DEF Accounts!Trading, Accounts!Operator, Accounts!Serve
<1>7. \A s, u : Accounts!Leave(s, u) \/ Accounts!set_status(s, u) => Settled
  BY <1>1 DEF Accounts!Leave, Accounts!set_status
<1>8. Settled
  BY <1>2, <1>3, <1>5, <1>6, <1>7 DEF Accounts!Next
<1> QED BY <1>8 DEF Settled

LEMMA OneAddressKept ==
    ASSUME OneAddress(db), Accounts!Next
    PROVE  OneAddress(db')
BY AccountsSettled DEF OneAddress, Accounts!Settle

LEMMA OneAddressMeans ==
    ASSUME AccountsInv, OneAddress(db)
    PROVE  Accounts!OneDefaultAddress
<1> DEFINE defaults == {a \in DOMAIN db.addresses : db.addresses[a].default}
<1>1. Cardinality(defaults) <= 1
  BY AtMostOne DEF OneAddress
<1>2. ASSUME InTurn, db.addresses # Nothing PROVE defaults # {}
  <2>1. AddressBook(db.addresses)
    BY <1>2 DEF AccountsInv, AccountsKept, AccountShape
  <2>2. DOMAIN db.addresses # {}
    BY <1>2, <2>1 DEF AddressBook, Nothing
  <2> QED BY <2>1, <2>2 DEF AddressBook
<1>3. /\ Accounts!Cardinality(defaults) <= 1
      /\ Accounts!InTurn /\ db.addresses # Accounts!Nothing => defaults # {}
  <2>1. \A S : Accounts!Cardinality(S) = Cardinality(S)
    BY DEF Accounts!Cardinality, Cardinality
  <2> HIDE DEF defaults
  <2> QED BY <1>1, <1>2, <2>1, AccountsIsDesk
<1> QED BY <1>3 DEF Accounts!OneDefaultAddress

\* ---- What each request makes of the sizes ----
LEMMA CatalogIsDesk ==
    /\ \A table, id, row : Catalog!Add(table, id, row) = Add(table, id, row)
    /\ \A table, ids : Catalog!Drop(table, ids) = Drop(table, ids)
    /\ \A ids : Catalog!Least(ids) = Least(ids)
    /\ \A t, ids : Catalog!Fresh(t, ids) = Fresh(t, ids)
    /\ Catalog!Nothing = Nothing
    /\ Catalog!InTurn <=> InTurn
BY DEF Catalog!Add, Catalog!Joined, Catalog!Only, Add, Joined, Only, Catalog!Drop, Drop, Catalog!Least,
       Least, Catalog!Fresh, Catalog!Open, Fresh, Open, Catalog!Nothing, Nothing, Catalog!InTurn, InTurn

LEMMA SameSizesKept ==
    ASSUME NEW d, CatalogTrue(d), NEW new, SameSizes(new, d)
    PROVE  CatalogTrue(new)
BY DEF SameSizes, CatalogTrue

\* A category that a name resolves to is looked up or made.
LEMMA ResolvedSizes ==
    ASSUME NEW d, CatalogRecord(d), NEW n, NEW p \in Catalog!_platform_for(d, n)
    PROVE  SameSizes(p.in, d)
<1>1. \A q \in Catalog!get_active(d) : q.in = d
  BY DEF Catalog!get_active
<1>2. ASSUME NEW q \in Catalog!resolve(d, n) PROVE q.in = d \/ \E x : q.in = [d EXCEPT !.categories = x]
  <2> DEFINE New(k) == Catalog!Add(d.categories, k, [name |-> n, slug |-> SlugOf[n], aliases |-> {},
                                                      active |-> FALSE, reviewed |-> FALSE])
  <2>1. CASE Catalog!find_by_name(d, n) # {}
    BY <2>1 DEF Catalog!resolve
  <2>2. CASE Catalog!find_by_name(d, n) = {}
    <3>1. PICK k : q = [id |-> k, in |-> [d EXCEPT !.categories = New(k)]]
      BY <2>2 DEF Catalog!resolve
    <3> HIDE DEF New
    <3> QED BY <3>1
  <2> QED BY <2>1, <2>2
<1>3. \A x : SameSizes([d EXCEPT !.categories = x], d)
  BY DEF SameSizes, CatalogRecord
<1> QED BY <1>1, <1>2, <1>3 DEF SameSizes, Catalog!_platform_for

LEMMA SectionSizes ==
    ASSUME NEW d, CatalogRecord(d), NEW r, NEW c, NEW p \in Catalog!_section_for(d, r, c)
    PROVE  SameSizes(p.in, d)
<1>1. p.in = d \/ \E x : p.in = [d EXCEPT !.sections = x]
  <2> DEFINE there == {k \in Catalog!Linked(d, c) : d.sections[k].restaurant = r}
             more == Catalog!Add(d.sections, Catalog!Least(Catalog!Fresh("sections", Sections)),
                 [restaurant |-> r, name |-> d.categories[c].name, active |-> TRUE, category |-> c])
  <2>1. \/ \E x \in there : p = [id |-> x, in |-> d]
        \/ \E k : p = [id |-> k, in |-> [d EXCEPT !.sections = more]]
    BY DEF Catalog!_section_for
  <2> HIDE DEF there, more
  <2>2. ASSUME NEW x, p = [id |-> x, in |-> d] PROVE p.in = d
    BY <2>2
  <2>3. ASSUME NEW k, p = [id |-> k, in |-> [d EXCEPT !.sections = more]]
        PROVE  p.in = [d EXCEPT !.sections = more]
    BY <2>3
  <2> QED BY <2>1, <2>2, <2>3
<1>2. \A x : SameSizes([d EXCEPT !.sections = x], d)
  BY DEF SameSizes, CatalogRecord
<1> QED BY <1>1, <1>2 DEF SameSizes

LEMMA SectioningSizes ==
    ASSUME NEW d, CatalogRecord(d), NEW k, NEW r, NEW n, NEW new,
           \/ new \in Catalog!create_category(d, r, n)
           \/ new \in Catalog!update_category(d, k)
           \/ new \in Catalog!unlink_category(d, k)
           \/ new \in Catalog!delete_category(d, k)
    PROVE  SameSizes(new, d)
<1>1. \A e, x : SameSizes(e, d) => SameSizes([e EXCEPT !.sections = x], d)
  BY DEF SameSizes, CatalogRecord
<1>2. CASE new \in Catalog!create_category(d, r, n)
  <2>1. PICK p \in Catalog!_platform_for(d, n) : \E x : new = [p.in EXCEPT !.sections = x]
    BY <1>2 DEF Catalog!create_category
  <2>2. SameSizes(p.in, d)
    BY ResolvedSizes
  <2> QED BY <1>1, <2>1, <2>2
<1>3. CASE new \in Catalog!unlink_category(d, k)
  BY <1>3 DEF Catalog!unlink_category, SameSizes, CatalogRecord
<1>4. CASE new \in Catalog!delete_category(d, k)
  BY <1>4 DEF Catalog!delete_category, SameSizes, CatalogRecord
<1>5. CASE new \in Catalog!update_category(d, k)
  <2>1. ASSUME NEW m, new \in Catalog!Renamed(d, k, m) PROVE SameSizes(new, d)
    <3>1. PICK e : e = [d EXCEPT !.sections[k].name = m]
      OBVIOUS
    <3>2. SameSizes(e, d)
      BY <3>1 DEF SameSizes, CatalogRecord
    <3>3. new = e \/ \E p \in Catalog!resolve(e, m) : new = [p.in EXCEPT !.sections[k].category = p.id]
      BY <2>1, <3>1 DEF Catalog!Renamed
    <3>4. CASE new # e
      <4>1. PICK p \in Catalog!resolve(e, m) : new = [p.in EXCEPT !.sections[k].category = p.id]
        BY <3>3, <3>4
      <4>2. SameSizes(p.in, d)
        BY <3>2, ResolvedSizes DEF SameSizes, Catalog!_platform_for
      <4> QED BY <4>1, <4>2 DEF SameSizes, CatalogRecord
    <3> QED BY <3>2, <3>4
  <2>2. CASE new = [d EXCEPT !.sections[k].active = ~@]
    BY <2>2 DEF SameSizes, CatalogRecord
  <2>3. ASSUME NEW p, new = [d EXCEPT !.sections[k].category = p.id] PROVE SameSizes(new, d)
    BY <2>3 DEF SameSizes, CatalogRecord
  <2> DEFINE A == UNION {Catalog!Renamed(d, k, m) : m \in script.names \ {d.sections[k].name}}
             B == {[d EXCEPT !.sections[k].active = ~@]}
             C == {[d EXCEPT !.sections[k].category = p.id] : p \in Catalog!get_active(d)}
  <2>4. Catalog!update_category(d, k) = A \cup B \cup C
    BY DEF Catalog!update_category
  <2>5. CASE new \in A
    BY <2>1, <2>5
  <2>6. CASE new \in B
    BY <2>2, <2>6
  <2>7. CASE new \in C
    BY <2>3, <2>7
  <2> HIDE DEF A, B, C
  <2> QED BY <1>5, <2>4, <2>5, <2>6, <2>7
<1> QED BY <1>2, <1>3, <1>4, <1>5

LEMMA EditingSizes ==
    ASSUME NEW d, CatalogRecord(d), NEW i, NEW c, NEW keep, NEW n, NEW k, NEW new,
           \/ new \in Catalog!update_item(d, i) \cup Catalog!set_item_status(d, i)
           \/ new \in Catalog!delete_item(d, i) \cup Catalog!hide_item(d, i)
           \/ new \in Catalog!update_product(d, i, c)
           \/ new \in Catalog!add_add_on(d, i, n) \cup Catalog!update_add_on(d, k)
           \/ new \in Catalog!delete_add_on(d, k) \cup Catalog!_sync_add_ons(d, i, keep)
    PROVE  SameSizes(new, d)
<1>1. CASE new \in Catalog!update_product(d, i, c)
  <2>1. PICK p \in Catalog!_section_for(d, Catalog!SellerOf(d, i), c) :
            new = [p.in EXCEPT !.items[i].section = p.id]
    BY <1>1 DEF Catalog!update_product
  <2>2. SameSizes(p.in, d)
    BY SectionSizes
  <2> QED BY <2>1, <2>2 DEF SameSizes, CatalogRecord
<1>2. CASE \/ new \in Catalog!update_item(d, i) \cup Catalog!set_item_status(d, i)
           \/ new \in Catalog!delete_item(d, i) \cup Catalog!hide_item(d, i)
  BY <1>2 DEF Catalog!update_item, Catalog!set_item_status, Catalog!delete_item, Catalog!hide_item,
              SameSizes, CatalogRecord
<1>3. CASE \/ new \in Catalog!add_add_on(d, i, n) \cup Catalog!update_add_on(d, k)
           \/ new \in Catalog!delete_add_on(d, k) \cup Catalog!_sync_add_ons(d, i, keep)
  BY <1>3 DEF Catalog!add_add_on, Catalog!update_add_on, Catalog!delete_add_on, Catalog!_sync_add_ons,
              SameSizes, CatalogRecord
<1> QED BY <1>1, <1>2, <1>3

LEMMA CuratingSizes ==
    ASSUME NEW d, CatalogRecord(d), NEW n, NEW aliases, NEW active, NEW k, NEW into, NEW new,
           \/ new \in Catalog!admin_create(d, n, aliases, active) \cup Catalog!admin_rename(d, k, n)
           \/ new \in Catalog!admin_review(d, k, active) \cup Catalog!admin_alias(d, k, aliases)
           \/ new \in Catalog!admin_delete(d, k) \cup Catalog!admin_merge(d, k, into)
    PROVE  SameSizes(new, d)
<1>1. CASE new \in Catalog!admin_merge(d, k, into)
  <2>1. \E x, y : new = [d EXCEPT !.sections = x, !.categories = y]
    BY <1>1, Zenon DEF Catalog!admin_merge
  <2> QED BY <2>1 DEF SameSizes, CatalogRecord
<1>2. CASE \/ new \in Catalog!admin_create(d, n, aliases, active) \cup Catalog!admin_rename(d, k, n)
           \/ new \in Catalog!admin_review(d, k, active) \cup Catalog!admin_alias(d, k, aliases)
           \/ new \in Catalog!admin_delete(d, k)
  BY <1>2 DEF Catalog!admin_create, Catalog!admin_rename, Catalog!admin_review, Catalog!admin_alias,
              Catalog!admin_delete, SameSizes, CatalogRecord
<1> QED BY <1>1, <1>2

LEMMA TradingSizes ==
    ASSUME NEW d, CatalogRecord(d), NEW r, NEW p, NEW new,
           \/ new \in Catalog!switch(d, r) \cup Catalog!launch(d, p, r)
           \/ new \in Catalog!pause(d, p) \cup Catalog!elapse(d, p)
    PROVE  SameSizes(new, d)
BY DEF Catalog!switch, Catalog!launch, Catalog!pause, Catalog!elapse, SameSizes, CatalogRecord

\* A default of item i takes it from the others of i, and from nobody else.
LEMMA PromotedSize ==
    ASSUME NEW d, CatalogRecord(d), NEW i, SizesBut(d.variants, i),
           NEW k \in DOMAIN d.variants, d.variants[k].item = i
    PROVE  CatalogTrue(Catalog!OnlyDefault(d, i, k))
<1> DEFINE sizes == [v \in DOMAIN d.variants |->
               IF d.variants[v].item = i THEN [d.variants[v] EXCEPT !.default = v = k] ELSE d.variants[v]]
           new == Catalog!OnlyDefault(d, i, k)
<1>1. CatalogRecord(new) /\ new.variants = sizes
  BY DEF Catalog!OnlyDefault, CatalogRecord
<1>2. ASSUME NEW v \in DOMAIN d.variants
      PROVE  /\ SizeRow(sizes[v]) /\ sizes[v].item = d.variants[v].item
             /\ sizes[v].default <=> IF d.variants[v].item = i THEN v = k ELSE d.variants[v].default
  <2>1. d.variants[v] = [item |-> d.variants[v].item, name |-> d.variants[v].name,
                         default |-> d.variants[v].default]
    BY DEF SizesBut, SizeRow
  <2> QED BY <2>1 DEF SizeRow
<1>3. DOMAIN sizes = DOMAIN d.variants
  OBVIOUS
<1> HIDE DEF sizes, new
<1>4. \A v \in DOMAIN sizes : sizes[v].item = d.variants[v].item /\ SizeRow(sizes[v])
  BY <1>2, <1>3
<1>5. ASSUME NEW v \in DOMAIN sizes PROVE HasDefault(sizes, sizes[v].item)
  <2>1. CASE sizes[v].item = i
    BY <1>2, <1>3, <1>4, <2>1 DEF HasDefault
  <2>2. CASE sizes[v].item # i
    <3>1. PICK w \in DOMAIN d.variants : d.variants[w].item = sizes[v].item /\ d.variants[w].default
      BY <1>3, <1>4, <2>2 DEF SizesBut, HasDefault
    <3> QED BY <1>2, <1>3, <1>4, <2>2, <3>1 DEF HasDefault
  <2> QED BY <2>1, <2>2
<1> QED BY <1>1, <1>4, <1>5 DEF CatalogTrue, new

LEMMA NewSizeId ==
    ASSUME IdsAssumption, CatalogRecord(db), Fresh("variants", Variants) # {}
    PROVE  Least(Fresh("variants", Variants)) \notin DOMAIN db.variants
<1>1. Fresh("variants", Variants) \subseteq Nat
  BY DEF Fresh, IdsAssumption
<1>2. "variants" \in DOMAIN db /\ db["variants"] = db.variants
  BY DEF CatalogRecord
<1> QED BY <1>1, <1>2, LeastIn, FreshIds

LEMMA PutRow ==
    ASSUME NEW table, NEW id, NEW row
    PROVE  IsPut(Add(table, id, row), table, id, row)
BY DEF Add, Joined, Only, IsPut

\* A size is put among those of an item.
LEMMA PutSize ==
    ASSUME NEW sizes, NEW row, SizesBut(sizes, row.item), SizeRow(row),
           NEW A, NEW k, IsPut(A, sizes, k, row)
    PROVE  SizesBut(A, row.item)
<1> DEFINE i == row.item
<1>1. /\ DOMAIN A = DOMAIN sizes \cup {k}
      /\ \A v \in DOMAIN sizes : A[v] = sizes[v]
      /\ k \notin DOMAIN sizes => A[k] = row
  BY DEF IsPut
<1>2. \A j : HasDefault(sizes, j) => HasDefault(A, j)
  BY <1>1 DEF HasDefault
<1>3. \A v \in DOMAIN A : SizeRow(A[v]) /\ (A[v].item # i => HasDefault(A, A[v].item))
  BY <1>1, <1>2 DEF SizesBut
<1> QED BY <1>3 DEF SizesBut

\* It keeps the tables true as a default, or beside one.
LEMMA AddedSize ==
    ASSUME NEW d, CatalogTrue(d), NEW k, NEW row, SizeRow(row),
           NEW new, CatalogRecord(new), IsPut(new.variants, d.variants, k, row)
    PROVE  /\ SizesBut(new.variants, row.item)
           /\ row.default \/ HasDefault(d.variants, row.item) => CatalogTrue(new)
<1> DEFINE A == new.variants
           i == row.item
<1>1. SizesBut(d.variants, i)
  BY DEF CatalogTrue, SizesBut
<1>2. SizesBut(A, i)
  BY <1>1, PutSize
<1>3. ASSUME row.default \/ HasDefault(d.variants, i) PROVE CatalogTrue(new)
  <2>1. \A v \in DOMAIN A : A[v].item = i => HasDefault(A, i)
    BY <1>3 DEF HasDefault, IsPut, CatalogTrue
  <2> QED BY <1>2, <2>1 DEF CatalogTrue, SizesBut
<1> QED BY <1>2, <1>3

LEMMA DroppedSizes ==
    ASSUME NEW d, CatalogTrue(d), NEW i, NEW gone, NEW left, Without(left, d.variants, gone, i)
    PROVE  SizesBut(left, i)
<1>1. ASSUME NEW j, j # i, HasDefault(d.variants, j) PROVE HasDefault(left, j)
  BY <1>1 DEF HasDefault, Without
<1> QED BY <1>1 DEF SizesBut, CatalogTrue, Without

LEMMA SizesMean ==
    ASSUME NEW new, CatalogRecord(new), NEW i, SizesBut(new.variants, i),
           Catalog!OptionsOf(new.variants, i) = {} \/ HasDefault(new.variants, i)
    PROVE  CatalogTrue(new)
BY DEF SizesBut, CatalogTrue, Catalog!OptionsOf

LEMMA NewItemKept ==
    ASSUME NEW d, CatalogTrue(d), NEW k, NEW new \in Catalog!create_item(d, k)
    PROVE  CatalogTrue(new)
<1>1. PICK i, x, m : \/ new = [d EXCEPT !.items = x]
                     \/ \E n : new = [[d EXCEPT !.items = x] EXCEPT
                            !.variants = Add(d.variants, m, [item |-> i, name |-> n, default |-> TRUE])]
  <2> DEFINE i == Catalog!Least(Catalog!Fresh("items", Items))
             x == Catalog!Add(d.items, i, [section |-> k, live |-> TRUE, available |-> TRUE, hidden |-> FALSE])
             m == Catalog!Least(Catalog!Fresh("variants", Variants))
             bare == [d EXCEPT !.items = x]
  <2>1. \/ new = bare
        \/ \E n : new = [bare EXCEPT !.variants = Catalog!Add(@, m, [item |-> i, name |-> n, default |-> TRUE])]
    BY Zenon DEF Catalog!create_item
  <2> HIDE DEF i, x, m
  <2>2. bare.variants = d.variants
    BY DEF CatalogTrue, CatalogRecord
  <2>3. CASE new # bare
    <3>1. PICK n : new = [bare EXCEPT !.variants =
              Catalog!Add(bare.variants, m, [item |-> i, name |-> n, default |-> TRUE])]
      BY <2>1, <2>3, Zenon
    <3>2. new = [bare EXCEPT !.variants = Add(d.variants, m, [item |-> i, name |-> n, default |-> TRUE])]
      BY <2>2, <3>1, CatalogIsDesk
    <3> QED BY <3>2, Zenon
  <2> QED BY <2>3, Zenon
<1>2. CASE new = [d EXCEPT !.items = x]
  BY <1>2, SameSizesKept DEF SameSizes, CatalogTrue, CatalogRecord
<1>3. ASSUME NEW n, new = [[d EXCEPT !.items = x] EXCEPT
                            !.variants = Add(d.variants, m, [item |-> i, name |-> n, default |-> TRUE])]
      PROVE  CatalogTrue(new)
  <2>1. PICK row : row = [item |-> i, name |-> n, default |-> TRUE]
    OBVIOUS
  <2>2. CatalogRecord(new) /\ new.variants = Add(d.variants, m, row)
    BY <1>3, <2>1 DEF CatalogTrue, CatalogRecord
  <2>3. SizeRow(row) /\ row.default
    BY <2>1 DEF SizeRow
  <2>4. IsPut(new.variants, d.variants, m, row)
    BY <2>2, PutRow
  <2> QED BY <2>2, <2>3, <2>4, AddedSize
<1> QED BY <1>1, <1>2, <1>3, Zenon

LEMMA PlainSizeRow == \A i, n : SizeRow(PlainSize(i, n)) /\ PlainSize(i, n).item = i
BY DEF PlainSize, SizeRow

LEMMA SizeAddedKept ==
    ASSUME IdsAssumption, CatalogTrue(db), NEW i, NEW n, NEW wanted \in BOOLEAN,
           NEW new \in Catalog!add_variant(db, i, n, wanted)
    PROVE  CatalogTrue(new)
<1> DEFINE mine == Catalog!OptionsOf(db.variants, i)
           k == Least(Fresh("variants", Variants))
           added == [db EXCEPT !.variants = Add(db.variants, k, PlainSize(i, n))]
<1>1. /\ Fresh("variants", Variants) # {}
      /\ \/ new = Catalog!OnlyDefault(added, i, k)
         \/ mine # {} /\ new = added
  BY CatalogIsDesk DEF Catalog!add_variant, PlainSize
<1>2. CatalogRecord(db) /\ CatalogRecord(added) /\ added.variants = Add(db.variants, k, PlainSize(i, n))
  BY DEF CatalogTrue, CatalogRecord
<1>3. k \notin DOMAIN db.variants
  BY <1>1, <1>2, NewSizeId
<1> HIDE DEF k, added
<1>4. PICK row : row = PlainSize(i, n)
  OBVIOUS
<1>5. SizeRow(row) /\ row.item = i /\ IsPut(added.variants, db.variants, k, row)
  BY <1>2, <1>4, PlainSizeRow, PutRow
<1>8. SizesBut(added.variants, i) /\ (HasDefault(db.variants, i) => CatalogTrue(added))
  BY <1>2, <1>5, AddedSize
<1>6. k \in DOMAIN added.variants /\ added.variants[k].item = i
  BY <1>3, <1>5 DEF IsPut
<1>7. mine # {} => HasDefault(db.variants, i)
  BY DEF Catalog!OptionsOf, CatalogTrue
<1> QED BY <1>1, <1>2, <1>6, <1>7, <1>8, PromotedSize

LEMMA SizeEditedKept ==
    ASSUME NEW d, CatalogTrue(d), NEW k \in DOMAIN d.variants, NEW new \in Catalog!update_variant(d, k)
    PROVE  CatalogTrue(new)
<1>1. CASE new = Catalog!OnlyDefault(d, d.variants[k].item, k)
  <2>1. CatalogRecord(d) /\ SizesBut(d.variants, d.variants[k].item)
    BY DEF CatalogTrue, SizesBut
  <2> QED BY <1>1, <2>1, PromotedSize
<1>2. ASSUME NEW n, new = [d EXCEPT !.variants[k].name = n] PROVE CatalogTrue(new)
  <2>1. PICK row : row = [item |-> d.variants[k].item, name |-> n, default |-> d.variants[k].default]
    OBVIOUS
  <2>2. [d.variants[k] EXCEPT !.name = n] = row
    <3>1. d.variants[k] = [item |-> d.variants[k].item, name |-> d.variants[k].name,
                           default |-> d.variants[k].default]
      BY DEF CatalogTrue, SizeRow
    <3> QED BY <2>1, <3>1
  <2>3. CatalogRecord(new) /\ new.variants = [d.variants EXCEPT ![k] = row]
    BY <1>2, <2>2 DEF CatalogTrue, CatalogRecord
  <2>4. SizeRow(row) /\ row.item = d.variants[k].item /\ row.default = d.variants[k].default
    BY <2>1 DEF SizeRow
  <2>5. /\ DOMAIN new.variants = DOMAIN d.variants /\ new.variants[k] = row
        /\ \A v \in DOMAIN d.variants : v # k => new.variants[v] = d.variants[v]
    BY <2>3
  <2>6. \A v \in DOMAIN d.variants : /\ SizeRow(new.variants[v]) /\ new.variants[v].item = d.variants[v].item
                                     /\ new.variants[v].default = d.variants[v].default
    BY <2>4, <2>5 DEF CatalogTrue
  <2> QED BY <2>3, <2>5, <2>6 DEF CatalogTrue, HasDefault
<1> QED BY <1>1, <1>2 DEF Catalog!update_variant

LEMMA SizeDeletedKept ==
    ASSUME NEW d, CatalogTrue(d), NEW k \in DOMAIN d.variants, NEW new \in Catalog!delete_variant(d, k)
    PROVE  CatalogTrue(new)
<1> DEFINE i == d.variants[k].item
           left == [d EXCEPT !.variants = Drop(d.variants, {k})]
           others == Catalog!OptionsOf(left.variants, i)
<1>1. \/ \E m \in others : new = Catalog!OnlyDefault(left, i, m)
      \/ new = left /\ (~d.variants[k].default \/ others = {})
  BY CatalogIsDesk DEF Catalog!delete_variant
<1>3. PICK gone : gone = {k}
  OBVIOUS
<1>2. CatalogRecord(left) /\ left.variants = Drop(d.variants, gone)
  BY <1>3 DEF CatalogTrue, CatalogRecord
<1> HIDE DEF left
<1>7. Without(left.variants, d.variants, gone, i)
  BY <1>2, <1>3 DEF Without, Drop
<1>4. /\ DOMAIN left.variants = DOMAIN d.variants \ {k}
      /\ \A v \in DOMAIN left.variants : left.variants[v] = d.variants[v]
      /\ SizesBut(left.variants, i)
  BY <1>3, <1>7, DroppedSizes DEF Without
<1>5. CASE \E m \in others : new = Catalog!OnlyDefault(left, i, m)
  BY <1>2, <1>4, <1>5, PromotedSize DEF Catalog!OptionsOf
<1>6. CASE new = left /\ (~d.variants[k].default \/ others = {})
  <2>1. ~d.variants[k].default => HasDefault(left.variants, i)
    BY <1>4 DEF CatalogTrue, HasDefault
  <2> QED BY <1>2, <1>4, <1>6, <2>1, SizesMean
<1> QED BY <1>1, <1>5, <1>6

\* The replaced set of an item: what stays, and what is new.
LEMMA SizesReplacedKept ==
    ASSUME IdsAssumption, CatalogTrue(db), NEW i, NEW keep, NEW n, NEW wants \in BOOLEAN,
           NEW new \in Catalog!_sync_variants(db, i, keep, n, wants)
    PROVE  CatalogTrue(new)
<1> DEFINE mine == Catalog!OptionsOf(db.variants, i)
           k == Least(Fresh("variants", Variants))
           kept == [db EXCEPT !.variants = Drop(db.variants, mine \ keep)]
           next == IF ~wants THEN kept
                   ELSE [kept EXCEPT !.variants = Add(kept.variants, k, PlainSize(i, n))]
<1>1. \/ new = next /\ Catalog!OptionsOf(next.variants, i) = {}
      \/ \E m \in Catalog!OptionsOf(next.variants, i) : new = Catalog!OnlyDefault(next, i, m)
  BY CatalogIsDesk DEF Catalog!_sync_variants, PlainSize
<1>3. PICK gone : gone = mine \ keep
  OBVIOUS
<1>2. CatalogRecord(kept) /\ kept.variants = Drop(db.variants, gone)
  BY <1>3 DEF CatalogTrue, CatalogRecord
<1> HIDE DEF kept
<1>4. Without(kept.variants, db.variants, gone, i)
  BY <1>2, <1>3 DEF Catalog!OptionsOf, Without, Drop
<1>5. SizesBut(kept.variants, i)
  BY <1>4, DroppedSizes
<1>6. CatalogRecord(next) /\ SizesBut(next.variants, i)
  <2>1. CASE ~wants
    BY <1>2, <1>5, <2>1
  <2>2. CASE wants
    <3>1. CatalogRecord(next) /\ next.variants = Add(kept.variants, k, PlainSize(i, n))
      BY <1>2, <2>2 DEF CatalogRecord
    <3> HIDE DEF k, next
    <3>2. IsPut(next.variants, kept.variants, k, PlainSize(i, n))
      BY <3>1, PutRow
    <3> QED BY <1>5, <3>1, <3>2, PlainSizeRow, PutSize
  <2> QED BY <2>1, <2>2
<1> HIDE DEF next
<1> QED BY <1>1, <1>6, PromotedSize, SizesMean DEF Catalog!OptionsOf

\* ---- The steps ----
\* A commit refuses a second default; with an item go all its sizes.
LEMMA CascadedKept ==
    ASSUME NEW d, CatalogRecord(d), NEW new \in Catalog!Settle(d)
    PROVE  CatalogLaws(new) /\ (CatalogTrue(d) => CatalogTrue(new))
<1>1. Catalog!Lawful(d) /\ new = Catalog!Cascaded(d)
  BY DEF Catalog!Settle
<1> DEFINE items == {i \in DOMAIN d.items : d.items[i].section \in DOMAIN d.sections}
<1>2. CatalogRecord(new) /\ new.variants = Drop(d.variants, {k \in DOMAIN d.variants : d.variants[k].item \notin items})
  BY <1>1, CatalogIsDesk, Zenon DEF Catalog!Cascaded, CatalogRecord
<1> HIDE DEF items
<1>3. /\ \A v : v \in DOMAIN new.variants <=> v \in DOMAIN d.variants /\ d.variants[v].item \in items
      /\ \A v \in DOMAIN new.variants : new.variants[v] = d.variants[v]
  BY <1>2 DEF Drop
<1>4. OneSize(new)
  BY <1>1, <1>3 DEF Catalog!Lawful, OneSize
<1>5. ASSUME CatalogTrue(d) PROVE CatalogTrue(new)
  <2>1. ASSUME NEW v \in DOMAIN new.variants PROVE HasDefault(new.variants, new.variants[v].item)
    <3>1. PICK w \in DOMAIN d.variants : d.variants[w].item = d.variants[v].item /\ d.variants[w].default
      BY <1>3, <1>5 DEF CatalogTrue, HasDefault
    <3> QED BY <1>3, <3>1 DEF HasDefault
  <2> QED BY <1>2, <1>3, <1>5, <2>1 DEF CatalogTrue
<1>6. SectionsFiled(new)
  <2>1. /\ new.categories = d.categories /\ DOMAIN new.sections = DOMAIN d.sections
        /\ \A k \in DOMAIN d.sections :
              new.sections[k] = IF d.sections[k].category \in DOMAIN d.categories THEN d.sections[k]
                                ELSE [restaurant |-> d.sections[k].restaurant, name |-> d.sections[k].name,
                                      active |-> d.sections[k].active, category |-> 0]
    BY <1>1, Zenon DEF Catalog!Cascaded, Catalog!Change, CatalogRecord
  <2>2. 0 \notin DOMAIN d.categories /\ \A c \in DOMAIN d.categories : d.categories[c].slug # None
    BY <1>1 DEF Catalog!Lawful
  <2>3. ASSUME NEW k \in DOMAIN d.sections PROVE new.sections[k].category \in {0} \cup DOMAIN d.categories
    <3>1. CASE d.sections[k].category \in DOMAIN d.categories
      BY <2>1, <2>3, <3>1
    <3>2. CASE d.sections[k].category \notin DOMAIN d.categories
      <4>1. PICK r, n, a : new.sections[k] = [restaurant |-> r, name |-> n, active |-> a, category |-> 0]
        BY <2>1, <2>3, <3>2
      <4> QED BY <4>1
    <3> QED BY <3>1, <3>2
  <2> QED BY <2>1, <2>2, <2>3 DEF SectionsFiled
<1> QED BY <1>2, <1>4, <1>5, <1>6 DEF CatalogLaws

LEMMA CatalogServed ==
    ASSUME CatalogInv, NEW s \in Clerks, NEW call, NEW results,
           InTurn => \A new \in results : CatalogTrue(new),
           Catalog!Do(s, call, results)
    PROVE  CatalogInv'
<1>1. /\ script' = script
      /\ ~InTurn => db' = db
      /\ InTurn => txn' = txn /\ \E new \in results : db' \in Catalog!Settle(new)
  BY DEF Catalog!Do, Catalog!Serve, Catalog!ServeHolding, InTurn
<1>2. CASE ~InTurn
  BY <1>1, <1>2 DEF CatalogInv, InTurn
<1>3. CASE InTurn
  <2>1. PICK new \in results : db' \in Catalog!Settle(new)
    BY <1>1, <1>3
  <2>2. CatalogLaws(db') /\ CatalogTrue(db')
    BY <1>3, <2>1, CascadedKept DEF CatalogTrue
  <2> QED BY <1>1, <1>3, <2>2 DEF CatalogInv, InTurn, NoneOpen
<1> QED BY <1>2, <1>3

LEMMA CatalogStated ==
    ASSUME CatalogInv, NEW call, NEW results, \A new \in results : SameSizes(new, db),
           Catalog!At(call, results)
    PROVE  CatalogInv'
<1>1. script' = script /\ txn' = txn
  BY DEF Catalog!At, Catalog!Statement
<1>2. PICK new \in results : db' \in Catalog!Settle(new)
  BY DEF Catalog!At, Catalog!Statement
<1>3. CatalogRecord(new) /\ (CatalogTrue(db) => CatalogTrue(new))
  BY SameSizesKept DEF SameSizes
<1>4. CatalogLaws(db') /\ (CatalogTrue(db) => CatalogTrue(db'))
  BY <1>2, <1>3, CascadedKept
<1> QED BY <1>1, <1>4 DEF CatalogInv, InTurn, NoneOpen

LEMMA CatalogCommitted ==
    ASSUME CatalogInv, NEW s \in Clerks, Catalog!Commit(s, Catalog!Settle)
    PROVE  CatalogInv'
<1> DEFINE d == [t \in DOMAIN db |-> Catalog!Merged(db[t], txn[s].seen[t], txn[s].new[t])]
<1>1. txn[s] # None /\ db' \in Catalog!Settle(d) /\ script' = script
  BY DEF Catalog!Commit
<1>2. CatalogRecord(d)
  <2>1. DOMAIN db = {"stores", "promos", "sections", "items", "variants", "addons", "categories"}
    BY DEF CatalogInv, CatalogLaws, CatalogRecord
  <2> DEFINE M(t) == Catalog!Merged(db[t], txn[s].seen[t], txn[s].new[t])
  <2>2. d = [t \in {"stores", "promos", "sections", "items", "variants", "addons", "categories"} |-> M(t)]
    BY <2>1
  <2> HIDE DEF M, d
  <2> QED BY <2>2 DEF CatalogRecord
<1> HIDE DEF d
<1>3. CatalogLaws(db')
  BY <1>1, <1>2, CascadedKept
<1>4. ~InTurn
  BY <1>1 DEF CatalogInv, NoneOpen
<1> QED BY <1>1, <1>3, <1>4 DEF CatalogInv, InTurn

LEMMA CatalogInit ==
    ASSUME Catalog!Init
    PROVE  CatalogInv
<1>1. /\ db = [stores |-> db.stores, promos |-> Nothing, sections |-> Nothing, items |-> Nothing,
               variants |-> Nothing, addons |-> Nothing, categories |-> Nothing]
      /\ txn = [s \in Clerks |-> None]
  BY CatalogIsDesk DEF Catalog!Init, Catalog!Opens
<1>2. DOMAIN Nothing = {}
  BY DEF Nothing
<1> QED BY <1>1, <1>2 DEF CatalogInv, CatalogLaws, CatalogRecord, CatalogTrue, OneSize, SectionsFiled, NoneOpen

LEMMA CatalogNext ==
    ASSUME IdsAssumption, CatalogInv, Catalog!Browsing
    PROVE  CatalogInv'
<1>1. CatalogRecord(db) /\ (InTurn => CatalogTrue(db))
  BY DEF CatalogInv, CatalogLaws
<1>2. ASSUME NEW s \in Clerks, NEW call, NEW results, \A new \in results : SameSizes(new, db),
             Catalog!Do(s, call, results)
      PROVE  CatalogInv'
  BY <1>1, <1>2, SameSizesKept, CatalogServed
<1>3. ASSUME NEW s \in Clerks, Catalog!Sectioning(s) PROVE CatalogInv'
  <2>1. ASSUME NEW r, NEW n, Catalog!Do(s, "create_category", Catalog!create_category(db, r, n)) PROVE CatalogInv'
    BY <1>1, <1>2, <2>1, SectioningSizes
  <2>2. ASSUME NEW k, Catalog!Do(s, "update_category", Catalog!update_category(db, k)) PROVE CatalogInv'
    BY <1>1, <1>2, <2>2, SectioningSizes
  <2>3. ASSUME NEW k, Catalog!Do(s, "unlink_category", Catalog!unlink_category(db, k)) PROVE CatalogInv'
    BY <1>1, <1>2, <2>3, SectioningSizes
  <2>4. ASSUME NEW k, Catalog!Do(s, "delete_category", Catalog!delete_category(db, k)) PROVE CatalogInv'
    BY <1>1, <1>2, <2>4, SectioningSizes
  <2> QED BY <1>3, <2>1, <2>2, <2>3, <2>4 DEF Catalog!Sectioning
<1>4. ASSUME NEW s \in Clerks, Catalog!Editing(s) PROVE CatalogInv'
  <2>1. ASSUME NEW k, Catalog!Do(s, "create_item", Catalog!create_item(db, k)) PROVE CatalogInv'
    BY <1>1, <2>1, NewItemKept, CatalogServed
  <2>2. ASSUME NEW r, NEW c, Catalog!Do(s, "create_product", Catalog!create_product(db, r, c)) PROVE CatalogInv'
    <3>1. ASSUME InTurn, NEW new \in Catalog!create_product(db, r, c) PROVE CatalogTrue(new)
      <4>1. PICK p \in Catalog!_section_for(db, r, c) : new \in Catalog!create_item(p.in, p.id)
        BY <3>1 DEF Catalog!create_product
      <4>2. CatalogTrue(p.in)
        BY <1>1, <3>1, SectionSizes, SameSizesKept
      <4> QED BY <4>1, <4>2, NewItemKept
    <3> QED BY <2>2, <3>1, CatalogServed
  <2>3. ASSUME NEW i, \/ Catalog!Do(s, "update_item", Catalog!update_item(db, i))
                      \/ Catalog!Do(s, "set_item_status", Catalog!set_item_status(db, i))
                      \/ Catalog!Do(s, "delete_item", Catalog!delete_item(db, i))
                      \/ Catalog!Do(s, "hide_item", Catalog!hide_item(db, i))
        PROVE  CatalogInv'
    <3>1. \A new : new \in Catalog!update_item(db, i) \/ new \in Catalog!set_item_status(db, i)
                   \/ new \in Catalog!delete_item(db, i) \/ new \in Catalog!hide_item(db, i) => SameSizes(new, db)
      BY <1>1, EditingSizes
    <3> QED BY <1>2, <2>3, <3>1
  <2>4. ASSUME NEW i, NEW c, Catalog!Do(s, "update_product", Catalog!update_product(db, i, c)) PROVE CatalogInv'
    <3>1. \A new \in Catalog!update_product(db, i, c) : SameSizes(new, db)
      BY <1>1, EditingSizes
    <3> QED BY <1>2, <2>4, <3>1
  <2>5. ASSUME NEW i, NEW keep, NEW n, NEW wants \in BOOLEAN,
               Catalog!Do(s, "_sync_variants", Catalog!_sync_variants(db, i, keep, n, wants))
        PROVE  CatalogInv'
    BY <1>1, <2>5, SizesReplacedKept, CatalogServed
  <2>6. ASSUME NEW i, NEW keep, Catalog!Do(s, "_sync_add_ons", Catalog!_sync_add_ons(db, i, keep)) PROVE CatalogInv'
    <3>1. \A new \in Catalog!_sync_add_ons(db, i, keep) : SameSizes(new, db)
      BY <1>1, EditingSizes
    <3> QED BY <1>2, <2>6, <3>1
  <2> QED BY <1>4, <2>1, <2>2, <2>3, <2>4, <2>5, <2>6 DEF Catalog!Editing
<1>5. ASSUME NEW s \in Clerks, Catalog!Pricing(s) PROVE CatalogInv'
  <2>1. ASSUME NEW i, NEW n, NEW wanted \in BOOLEAN,
               Catalog!Do(s, "add_variant", Catalog!add_variant(db, i, n, wanted))
        PROVE  CatalogInv'
    BY <1>1, <2>1, SizeAddedKept, CatalogServed
  <2>2. ASSUME NEW i, NEW n, NEW k, \/ Catalog!Do(s, "add_add_on", Catalog!add_add_on(db, i, n))
                                    \/ Catalog!Do(s, "update_add_on", Catalog!update_add_on(db, k))
                                    \/ Catalog!Do(s, "delete_add_on", Catalog!delete_add_on(db, k))
        PROVE  CatalogInv'
    <3>1. \A new : new \in Catalog!add_add_on(db, i, n) \/ new \in Catalog!update_add_on(db, k)
                   \/ new \in Catalog!delete_add_on(db, k) => SameSizes(new, db)
      BY <1>1, EditingSizes
    <3> QED BY <1>2, <2>2, <3>1
  <2>3. ASSUME NEW k \in DOMAIN db.variants, Catalog!Do(s, "update_variant", Catalog!update_variant(db, k))
        PROVE  CatalogInv'
    BY <1>1, <2>3, SizeEditedKept, CatalogServed
  <2>4. ASSUME NEW k \in DOMAIN db.variants, Catalog!Do(s, "delete_variant", Catalog!delete_variant(db, k))
        PROVE  CatalogInv'
    BY <1>1, <2>4, SizeDeletedKept, CatalogServed
  <2> QED BY <1>5, <2>1, <2>2, <2>3, <2>4 DEF Catalog!Pricing
<1>6. ASSUME NEW s \in Clerks, Catalog!Curating(s) PROVE CatalogInv'
  <2>1. ASSUME NEW n, NEW aliases, NEW active,
               Catalog!Do(s, "admin_create", Catalog!admin_create(db, n, aliases, active))
        PROVE  CatalogInv'
    <3>1. \A new \in Catalog!admin_create(db, n, aliases, active) : SameSizes(new, db)
      BY <1>1, CuratingSizes
    <3> QED BY <1>2, <2>1, <3>1
  <2>2. ASSUME NEW k, NEW n, NEW aliases, NEW active, NEW into,
               \/ Catalog!Do(s, "admin_rename", Catalog!admin_rename(db, k, n))
               \/ Catalog!Do(s, "admin_review", Catalog!admin_review(db, k, active))
               \/ Catalog!Do(s, "admin_alias", Catalog!admin_alias(db, k, aliases))
               \/ Catalog!Do(s, "admin_delete", Catalog!admin_delete(db, k))
               \/ Catalog!Do(s, "admin_merge", Catalog!admin_merge(db, k, into))
        PROVE  CatalogInv'
    <3>1. \A new : new \in Catalog!admin_rename(db, k, n) \/ new \in Catalog!admin_review(db, k, active)
                   \/ new \in Catalog!admin_alias(db, k, aliases) \/ new \in Catalog!admin_delete(db, k)
                   \/ new \in Catalog!admin_merge(db, k, into) => SameSizes(new, db)
      BY <1>1, CuratingSizes
    <3> QED BY <1>2, <2>2, <3>1
  <2> QED BY <1>6, <2>1, <2>2 DEF Catalog!Curating
<1>7. ASSUME NEW s \in Clerks, Catalog!Abort(s) PROVE CatalogInv'
  BY <1>7 DEF Catalog!Abort, CatalogInv, InTurn, NoneOpen
<1>8. CASE Catalog!Trading
  <2>1. ASSUME NEW call, NEW r, NEW p, \/ Catalog!At(call, Catalog!switch(db, r))
                             \/ Catalog!At(call, Catalog!launch(db, p, r))
                             \/ Catalog!At(call, Catalog!pause(db, p))
                             \/ Catalog!At(call, Catalog!elapse(db, p))
        PROVE  CatalogInv'
    <3>1. \A new : new \in Catalog!switch(db, r) \/ new \in Catalog!launch(db, p, r)
                   \/ new \in Catalog!pause(db, p) \/ new \in Catalog!elapse(db, p) => SameSizes(new, db)
      BY <1>1, TradingSizes
    <3> QED BY <2>1, <3>1, CatalogStated
  <2> QED BY <1>8, <2>1 DEF Catalog!Trading
<1> QED BY <1>3, <1>4, <1>5, <1>6, <1>7, <1>8, CatalogCommitted DEF Catalog!Browsing, Catalog!Next

LEMMA OneSizeMeans ==
    ASSUME CatalogInv
    PROVE  Catalog!OneDefault
<1> SUFFICES ASSUME NEW i \in DOMAIN db.items
             PROVE  LET mine == Catalog!OptionsOf(db.variants, i)
                        defaults == {v \in mine : db.variants[v].default}
                    IN  /\ Catalog!Cardinality(defaults) <= 1
                        /\ Catalog!InTurn /\ mine # {} => defaults # {}
  BY DEF Catalog!OneDefault
<1> DEFINE mine == {v \in DOMAIN db.variants : db.variants[v].item = i}
           defaults == {v \in mine : db.variants[v].default}
<1>1. Catalog!Cardinality(defaults) <= 1
  <2>1. Cardinality(defaults) <= 1
    BY AtMostOne DEF CatalogInv, CatalogLaws, OneSize
  <2>2. \A S : Catalog!Cardinality(S) = Cardinality(S)
    BY DEF Catalog!Cardinality, Cardinality
  <2> HIDE DEF defaults
  <2> QED BY <2>1, <2>2
<1>2. Catalog!InTurn /\ mine # {} => defaults # {}
  BY CatalogIsDesk DEF CatalogInv, CatalogTrue, HasDefault
<1>3. mine = Catalog!OptionsOf(db.variants, i)
  BY DEF Catalog!OptionsOf
<1> QED BY <1>1, <1>2, <1>3

\* Counting, listing and filling a chip come to the same sections.
LEMMA ChipsKept ==
    ASSUME SectionsFiled(db), NEW c \in DOMAIN db.categories, db.categories[c].active
    PROVE  Catalog!Kept(c)
<1> DEFINE slug == db.categories[c].slug
           counted == Catalog!restaurant_counts(db, c)
           Dishes(here) == Catalog!category_items(db, c, here)
           Sells(r) == \E k \in DOMAIN db.sections :
                          /\ db.sections[k].category = c /\ db.sections[k].restaurant = r /\ db.sections[k].active
                          /\ Catalog!_section_has_live_item(db, k)
<1>1. c \in Catalog!_active_category(db, slug)
  BY DEF Catalog!_active_category, Catalog!by_slug
<1>2. \A r : r \in counted <=> r \in Catalog!Visible(db) /\ Sells(r)
  BY DEF Catalog!restaurant_counts, Catalog!Linked
<1>3. \A r : Sells(r) => Catalog!sells_under(db, slug, r)
  BY DEF Catalog!sells_under, Catalog!by_slug, SectionsFiled
<1>4. \A r : ~Catalog!Shadowed(c) /\ Catalog!sells_under(db, slug, r) => Sells(r)
  BY DEF Catalog!sells_under, Catalog!Shadowed, SectionsFiled
<1>5. ASSUME NEW here \in BOOLEAN, NEW i \in Dishes(here)
      PROVE  /\ Catalog!SellerOf(db, i) \in counted \cap (IF here THEN Near ELSE Restaurants)
             /\ i \in Catalog!restaurant_menu(db, Catalog!SellerOf(db, i))
  <2>1. /\ i \in Catalog!Live(db) /\ ~db.items[i].hidden
        /\ db.items[i].section \in Catalog!Linked(db, c) /\ db.sections[db.items[i].section].active
        /\ Catalog!SellerOf(db, i) \in Catalog!Visible(db) \cap (IF here THEN Near ELSE Restaurants)
    BY <1>5 DEF Catalog!category_items
  <2>2. Sells(Catalog!SellerOf(db, i))
    BY <2>1 DEF Catalog!Linked, Catalog!SellerOf, Catalog!_section_has_live_item, Catalog!LiveIn, Catalog!Live
  <2> QED BY <1>2, <2>1, <2>2 DEF Catalog!restaurant_menu
<1>6. ASSUME NEW here \in BOOLEAN, NEW r \in counted, here => r \in Near
      PROVE  \E i \in Dishes(here) : Catalog!SellerOf(db, i) = r
  <2>1. PICK k \in DOMAIN db.sections :
              /\ db.sections[k].category = c /\ db.sections[k].restaurant = r /\ db.sections[k].active
              /\ Catalog!_section_has_live_item(db, k)
    BY <1>2
  <2>2. PICK i \in DOMAIN db.items : db.items[i].section = k /\ db.items[i].live /\ ~db.items[i].hidden
    BY <2>1 DEF Catalog!_section_has_live_item, Catalog!LiveIn
  <2>3. r \in Restaurants /\ r \in Catalog!Visible(db)
    BY <1>2 DEF Catalog!Visible
  <2> QED BY <1>6, <2>1, <2>2, <2>3 DEF Catalog!category_items, Catalog!Live, Catalog!Linked, Catalog!SellerOf
<1>7. \A here : \A r : r \in Catalog!list_restaurants(db, slug, FALSE, here) <=>
          /\ r \in Catalog!Visible(db) /\ r \in (IF here THEN Near ELSE Restaurants)
          /\ slug # None => Catalog!sells_under(db, slug, r)
  BY DEF Catalog!list_restaurants
<1>9. slug # None
  BY DEF SectionsFiled
<1>8. \A here \in BOOLEAN : Catalog!Sellers(Dishes(here)) = counted \cap (IF here THEN Near ELSE Restaurants)
  BY <1>2, <1>5, <1>6 DEF Catalog!Sellers, Catalog!Visible
<1> QED BY <1>1, <1>2, <1>3, <1>4, <1>5, <1>7, <1>8, <1>9 DEF Catalog!Kept, Catalog!Visible

LEMMA CardsAllOpen == Catalog!CardsOpen
<1>1. \A slug, open, here : Catalog!list_restaurants(db, slug, open, here) \subseteq Catalog!Visible(db)
  BY DEF Catalog!list_restaurants
<1>2. Catalog!list_restaurants(db, None, FALSE, TRUE) = Catalog!Visible(db) \cap Near
  BY DEF Catalog!list_restaurants
<1>3. Catalog!Sellers(Catalog!search(db).items) \subseteq Catalog!Visible(db)
  BY DEF Catalog!Sellers, Catalog!search
<1> QED BY <1>1, <1>2, <1>3 DEF Catalog!CardsOpen, Catalog!home_feed, Catalog!restaurant_detail,
          Catalog!validate, Catalog!_load_visible

(***************************************************************************)
(* The machines together                                                   *)
(***************************************************************************)
LEMMA DeskInit == Init => DeskInv
<1>1. Accounts!Init => OneAddress(db)
  BY AccountsIsDesk DEF Accounts!Init, Accounts!Opens, OneAddress, Nothing
<1> QED BY <1>1, UsersAssumption, CatalogInit, OnInit, HelpInit, LiveInit, CampaignsInit, BuzzInit,
           PubInit, AccountsInit DEF Init, DeskInv, CampaignsTurn

LEMMA DeskStep == DeskInv /\ [Next]_<<db, txn, script, desk>> => DeskInv' /\ [Lasts]_db /\ [Signals]_db
<1> SUFFICES ASSUME DeskInv, [Next]_<<db, txn, script, desk>>
             PROVE  DeskInv' /\ [Lasts]_db /\ [Signals]_db
  OBVIOUS
<1>1. CASE UNCHANGED <<db, txn, script, desk>>
  <2>1. (CatalogInv => CatalogInv') /\ (HelpInv => HelpInv')
    BY <1>1 DEF CatalogInv, HelpInv, HelpOpen, NoneOpen, InTurn
  <2>2. (OnInv => OnInv') /\ (PubInv => PubInv')
    BY <1>1 DEF OnInv, OnOpen, PubInv, PubOpen, NoneOpen, InTurn, Asked
  <2>3. LiveInv => LiveInv'
    BY <1>1 DEF LiveInv, LiveOpen, LiveStands, NoneOpen, InTurn
  <2>4. CampaignsTurn => CampaignsTurn'
    BY <1>1 DEF CampaignsTurn, CampaignsInv, CampaignsOpen, NoneOpen, InTurn
  <2>5. AccountsInv /\ OneAddress(db) => (AccountsInv /\ OneAddress(db))'
    BY <1>1 DEF AccountsInv, OneAddress, NoneOpen, InTurn
  <2> QED BY <1>1, <2>1, <2>2, <2>3, <2>4, <2>5 DEF DeskInv
<1>2. CASE Next
  <2>1. desk' = desk
    BY <1>2 DEF Next
  <2>2. desk = "catalog" => CatalogInv'
    BY <1>2, IdsAssumption, CatalogNext DEF Next, DeskInv
  <2>3. desk = "onboarding" => OnStep
    BY <1>2, IdsAssumption, OnNext DEF Next, DeskInv
  <2>4. desk = "helpdesk" => HelpStep
    BY <1>2, IdsAssumption, HelpNext DEF Next, DeskInv
  <2>5. desk = "live" => LiveInv' /\ Live!MapFollowsTheOrder
    BY <2>1, DotsFollow, LiveKept DEF LiveStep, DeskInv
  <2>6. desk = "campaigns" => CampaignsTurn' /\ [Campaigns!BuzzesItsAudience]_db
    BY <2>1, BuzzStep DEF DeskInv
  <2>7. desk = "publishing" => PubStep
    BY <1>2, IdsAssumption, HorizonAssumption, PubNext DEF Next, DeskInv
  <2>8. desk = "accounts" => AccountsInv' /\ OneAddress(db')
    BY <1>2, IdsAssumption, AccountsNext, OneAddressKept DEF Next, DeskInv
  <2>9. DeskInv'
    BY <2>1, <2>2, <2>3, <2>4, <2>5, <2>6, <2>7, <2>8 DEF DeskInv, OnStep, HelpStep, PubStep, OneAddress
  <2>10. [Lasts]_db /\ [Signals]_db
    BY <2>3, <2>4, <2>5, <2>6, <2>7 DEF Lasts, Signals, OnStep, HelpStep, PubStep
  <2> QED BY <2>9, <2>10
<1> QED BY <1>1, <1>2

\* Whatever part of the back office runs, and whichever requests, sweeps and phones
\* overlap in it, every step keeps what is always true of its tables and flushes.
THEOREM DeskInvariant == Spec => []DeskInv
BY DeskInit, DeskStep, PTL DEF Spec

\* A support message that nobody was shown keeps its flag up, whoever reads, answers or
\* updates the ticket meanwhile, and in turn a chat message is read only if it was shown
\* (support.py, customer/chat.py).
THEOREM NothingUnread == Spec => []NothingUnreadIsLost
<1>1. DeskInv => NothingUnreadIsLost
  <2> SUFFICES ASSUME HelpInv PROVE Helpdesk!NothingUnreadIsLost
    BY DEF NothingUnreadIsLost, DeskInv
  <2>1. HelpTables(db) /\ (InTurn => ChatTables(db)) /\ (Helpdesk!InTurn <=> InTurn)
    BY HelpdeskIsDesk DEF HelpInv
  <2> QED BY <2>1 DEF HelpTables, ChatTables, Flag, Helpdesk!NothingUnreadIsLost
<1> QED BY <1>1, DeskInvariant, PTL

\* In turn, a deleted account is on no order under way, but for one scheduled later at
\* its store, and is owed nothing and has nothing open unless an operator wrote that row
\* afterwards: no order, delivery, payout or worker's minute brings it about
\* (account_deletion.py, rider/earnings.py, rider/roster.py, admin/vendors.py).
THEOREM NothingLeftOpen == Spec => []LeavesNothingOpen
<1>1. DeskInv => LeavesNothingOpen
  <2> SUFFICES ASSUME AccountsInv PROVE Accounts!LeavesNothingOpen
    BY DEF LeavesNothingOpen, DeskInv
  <2>1. CASE ~InTurn
    BY <2>1, AccountsIsDesk DEF Accounts!LeavesNothingOpen
  <2>2. CASE InTurn
    <3>1. AccountsKept(db)
      BY <2>2 DEF AccountsInv
    <3> QED BY <3>1, PeopleKnown, AccountsIsDesk
            DEF AccountsKept, CustomerLeft, RiderLeft, VendorLeft, NothingOwed, OffShift, ShutDown,
                Accounts!Whose, Accounts!LeavesNothingOpen
  <2> QED BY <2>1, <2>2
<1> QED BY <1>1, DeskInvariant, PTL

\* However sweeps, cancellations, requests and deleted accounts overlap, a campaign is in
\* an inbox at most once, in none that was not sent, and reached as many accounts as it
\* says, each of which has it or is deleted (notifications.py, account_deletion.py).
THEOREM CampaignsSentOnce == Spec => []SentOnce
<1>1. DeskInv => SentOnce
  <2> SUFFICES ASSUME CampaignsInv PROVE Campaigns!SentOnce
    BY DEF SentOnce, DeskInv, CampaignsTurn
  <2>1. CampaignsTrue(db) /\ \A c : Campaigns!Received(c) = Received(db, c)
    BY DEF CampaignsInv, Received, Campaigns!Received
  <2> QED BY <2>1, CampaignsIsDesk
          DEF CampaignsTrue, CampaignTrue, Reached, Received, Campaigns!SentOnce
<1> QED BY <1>1, DeskInvariant, PTL

\* However reviews, invitations and sign-ups overlap, every approval has an account of
\* its own with the role it was for, and in turn no store on sale waits for one.
THEOREM ApprovalsStand == Spec => []ApprovalsMeanSomething
<1>1. DeskInv => ApprovalsMeanSomething
  BY ApprovalsMean DEF ApprovalsMeanSomething, DeskInv
<1> QED BY <1>1, DeskInvariant, PTL

\* However they are reported, removed and reviewed, counts and ratings are those of
\* their rows, and every banner is in one list of the console (community.py,
\* customer/reviews.py, banners.py).
THEOREM TalliesTrue == Spec => []TalliesAndListsAreTrue
<1>1. DeskInv => TalliesAndListsAreTrue
  BY TalliesMean DEF TalliesAndListsAreTrue, DeskInv
<1> QED BY <1>1, DeskInvariant, PTL

\* However handlers overlap, roll back and die, no screen shows a status the order never
\* had, and in turn, once nothing is left to tell, the screens and the riders' cards show
\* the order as it is and who must hear of its end has heard (realtime.py, order_push.py).
THEOREM ScreensAlwaysAgree == Spec => []ScreensAgree
<1>1. DeskInv => ScreensAgree
  <2> SUFFICES ASSUME LiveInv PROVE Live!NoPhantoms /\ Live!ScreensAgree /\ Live!TheRestAreTold
    BY DEF ScreensAgree, DeskInv
  <2>1. LiveTables(db) /\ DOMAIN db.screens = {"vendor", "customer"} /\ (InTurn => LiveTurn(db))
    BY DEF LiveInv, LiveTables, LiveShape
  <2>2. Live!NoPhantoms
    BY <2>1 DEF LiveTables, Live!NoPhantoms
  <2>3. Live!InTurn /\ db.tasks = Live!Nothing => Quiet(db)
    BY <2>1, LiveIsDesk DEF LiveTurn, Live!Nothing
  <2>4. Live!ScreensAgree
    BY <2>1, <2>3 DEF Quiet, ShowsRight, NamesRight, CardTrue, CardThere, Live!ScreensAgree
  <2>5. Live!TheRestAreTold
    BY <2>3, Zenon DEF Quiet, Heard, Live!TheRestAreTold, Live!Told
  <2> QED BY <2>2, <2>4, <2>5
<1> QED BY <1>1, DeskInvariant, PTL

\* However requests overlap, an item never has two default sizes nor a customer two
\* default addresses; in turn an item with sizes and a customer with addresses always
\* has one (_resolve_default, delete_variant, delete_address).
THEOREM DefaultsStand == Spec => []OneDefault
<1>1. DeskInv => OneDefault
  BY OneSizeMeans, OneAddressMeans DEF OneDefault, DeskInv
<1> QED BY <1>1, DeskInvariant, PTL

\* However requests overlap and menus are edited, a chip counts, lists and fills the same
\* restaurants, and every card opens (category_service.py, customer/discovery.py).
THEOREM ChipsKeepTheirPromise == Spec => []ChipKeepsItsPromise
<1>1. DeskInv => ChipKeepsItsPromise
  <2> SUFFICES ASSUME CatalogInv PROVE Catalog!ChipKeepsItsPromise /\ Catalog!CardsOpen
    BY DEF ChipKeepsItsPromise, DeskInv
  <2>1. SectionsFiled(db)
    BY DEF CatalogInv, CatalogLaws
  <2>2. \A c \in DOMAIN db.categories : db.categories[c].active => Catalog!Kept(c)
    BY <2>1, ChipsKept
  <2>3. \A c \in Catalog!list_categories(db) : Catalog!category_items(db, c, FALSE) # {}
    BY <2>2 DEF Catalog!list_categories, Catalog!Kept, Catalog!Sellers
  <2> QED BY <2>2, <2>3, CardsAllOpen DEF Catalog!ChipKeepsItsPromise, Catalog!home_feed, Catalog!search
<1> QED BY <1>1, DeskInvariant, PTL

\* In turn, a new dot on a map is of the rider who carries the order, and a campaign
\* buzzes, once at most, phones that its audience registered last and no others, each of
\* which has a token it tries (rider/tracking.py, push_service.py).
THEOREM SignalsTrue == Spec => SignalsAreTrue
BY DeskInit, DeskStep, PTL DEF Spec, SignalsAreTrue, Signals

\* Applications decided, invitations used or revoked, tickets closed, posts removed and
\* campaigns that ran out stay as they are, whatever was read before, and no batch of
\* events counts in a campaign over at the hour the batch has read (applications.py,
\* invitations.py, support.py, community.py, ads.py).
THEOREM OverStaysOver == Spec => OverIsOver
BY DeskInit, DeskStep, PTL DEF Spec, OverIsOver, Lasts
=============================================================================
