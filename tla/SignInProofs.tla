----------------------------- MODULE SignInProofs -----------------------------
(***************************************************************************)
(* What holds of signing in for every set of addresses, devices, Google    *)
(* accounts and sessions, whatever endpoints a behaviour calls: nobody     *)
(* holds a session of an address nobody has proven, what opens a session   *)
(* does so once, ending all sessions ends them all, and a deleted account  *)
(* stays blank.                                                            *)
(***************************************************************************)
EXTENDS SignIn, FiniteSetTheorems, TLAPS

(***************************************************************************)
(* The inductive invariant                                                 *)
(***************************************************************************)
\* A request that opens a session, leaves a password, a key or a link does so for
\* an account among those proven, or proves it at the same commit.
Vouched(r, those) ==
    /\ r.proves => r.account \in Accounts
    /\ r.opens \/ r.new.password # 0 \/ r.device # None \/ r.subject # None =>
          r.account \in Accounts /\ (r.proves \/ r.account \in those)

\* Whatever lets someone in belongs to an account whose identifier is proven.
Entered ==
    /\ \A t \in DOMAIN tokens : tokens[t].account \in proved
    /\ \A a \in Accounts : account[a].password # 0 => a \in proved
    /\ \A a \in Accounts, d \in Devices : keys[a][d] # -1 => a \in proved
    /\ \A g \in Subjects : links[g] # 0 => links[g] \in proved
    /\ challenged \subseteq proved
    /\ \A s \in Sessions : txn[s] # None => Vouched(txn[s], proved)

\* A ticket is in Redis, in one open request, or redeemed: one of the three.
OnePlace ==
    /\ \A t \in tickets :
          /\ redeemed[t.id] = 0
          /\ \A s \in Sessions : txn[s] # None => txn[s].ticket # t.id
    /\ \A t, u \in tickets : t.id = u.id => t = u
    /\ \A s \in Sessions : txn[s] # None /\ txn[s].ticket # 0 => redeemed[txn[s].ticket] = 0
    /\ \A s, q \in Sessions : txn[s] # None /\ txn[q] # None /\ txn[s].ticket # 0
                              /\ txn[s].ticket = txn[q].ticket => s = q
    /\ redeemed \in [1..MaxTickets -> {0, 1}]

\* What an open request does to its code, among the codes cs.
Tallied(r, cs) == r.code # 0 =>
    /\ r.code \in DOMAIN cs
    /\ r.writes = "insert" => cs[r.code].state = "unborn"
    /\ r.writes # "insert" => cs[r.code].state \in {"open", "expired"}
    /\ r.writes = "attempts" =>
          r.account = 0 /\ r.attempts = cs[r.code].attempts + 1 /\ r.attempts <= MaxAttempts

\* A request in turn opens a session of the line it read, or ends all of them; its
\* account was not deleted and it does not delete it.
Renewed(r, cs, ended, rows) ==
    /\ r.opens => r.born = ended[r.account] /\ ~r.endsAll
    /\ r.code # 0 /\ r.account # 0 /\ cs[r.code].purpose = "PASSWORD_RESET" => r.endsAll
    /\ r.account # 0 => ~rows[r.account].deleted /\ ~r.new.deleted

\* Code c: its misses are its attempts, and it is used once at the most.
Budgeted(c) ==
    /\ c \notin DOMAIN codes => uses[c] = 0 /\ misses[c] = 0
    /\ c \in DOMAIN codes =>
          /\ misses[c] = codes[c].attempts /\ misses[c] <= MaxAttempts
          /\ uses[c] \in {0, 1}
          /\ codes[c].state \in {"unborn", "open", "expired"} => uses[c] = 0

\* Requests in turn.
Orderly == ~scenario.overlap =>
    /\ \A s, q \in Sessions : txn[s] # None /\ txn[q] # None => s = q
    /\ \A s \in Sessions : txn[s] # None =>
          Tallied(txn[s], codes) /\ Renewed(txn[s], codes, endings, account)
    /\ \A c \in 1..MaxCodes : Budgeted(c)

Typed ==
    /\ TypeOK
    /\ scenario \in Scenarios
    /\ Len(codes) <= MaxCodes /\ Len(tokens) <= MaxTokens
    /\ uses \in [1..MaxCodes -> Nat] /\ misses \in [1..MaxCodes -> Nat]

IInv == Typed /\ Entered /\ OnePlace /\ Orderly /\ SessionsEndInTurn /\ DeletedIsBlank

(***************************************************************************)
(* Requests                                                                *)
(***************************************************************************)
\* A request that has only read an account.
LEMMA ReadingType ==
    ASSUME Typed, SignInAssumption, NEW a \in 0..MaxAccounts
    PROVE  /\ Reading(a) \in Request
           /\ Reading(a).account = a /\ ~Reading(a).opens /\ ~Reading(a).proves
           /\ ~Reading(a).endsAll
           /\ Reading(a).device = None /\ Reading(a).subject = None
           /\ Reading(a).ticket = 0 /\ Reading(a).code = 0
           /\ a = 0 => Reading(a).new.password = 0
           /\ a # 0 => Reading(a).new = account[a] /\ Reading(a).seen = account[a]
<1>1. NoUser \in User
  BY DEF NoUser, User
<1>3. /\ MaxTokens \in Nat /\ MaxTickets \in Nat /\ MaxCodes \in Nat /\ MaxFailed \in Nat
      /\ MaxAccounts \in Nat
  BY SignInAssumption
<1>2. a # 0 => a \in Accounts /\ account[a] \in User
  <2>1. a # 0 => a \in Accounts
    BY <1>3 DEF Accounts
  <2>2. account \in [Accounts -> User]
    BY DEF Typed, TypeOK
  <2> QED BY <2>1, <2>2
<1> DEFINE row == IF a = 0 THEN NoUser ELSE account[a]
<1>4. row \in User /\ (a = 0 => row.password = 0) /\ (a # 0 => row = account[a])
  BY <1>1, <1>2 DEF NoUser
<1>5. Reading(a) =
        [account |-> a, seen |-> row, new |-> row,
         code |-> 0, writes |-> "attempts", attempts |-> 0,
         revokes |-> 0, opens |-> FALSE, born |-> 0, proves |-> FALSE, endsAll |-> FALSE,
         device |-> None, saw |-> -1, failed |-> 0, drops |-> {}, subject |-> None,
         ticket |-> 0]
  BY DEF Reading
<1> HIDE DEF row
<1> QED BY <1>3, <1>4, <1>5 DEF Request

\* Two requests that differ in neither account, code, key, link nor ticket.
Alike(q, r) ==
    /\ q.account = r.account /\ q.code = r.code /\ q.writes = r.writes
    /\ q.attempts = r.attempts /\ q.device = r.device /\ q.subject = r.subject
    /\ q.ticket = r.ticket

\* A request that also consumes a code, or ends every session, is a request.
LEMMA Consuming ==
    ASSUME NEW r \in Request, NEW c \in 0..MaxCodes
    PROVE  verify_and_consume(r, c) \in Request
BY DEF Request, verify_and_consume

LEMMA Coding ==
    ASSUME NEW r \in Request, NEW n \in 0..MaxCodes
    PROVE  [r EXCEPT !.code = n, !.writes = "insert"] \in Request
BY DEF Request

LEMMA Ending ==
    ASSUME NEW r \in Request
    PROVE  [r EXCEPT !.endsAll = TRUE, !.proves = TRUE] \in Request
BY DEF Request

\* What the helpers of the handlers make of a request.
LEMMA Built ==
    ASSUME Typed, SignInAssumption, NEW r \in Request
    PROVE  /\ set_password(r) \in Request /\ Alike(set_password(r), r)
           /\ set_password(r).opens = r.opens /\ set_password(r).proves = r.proves
           /\ set_password(r).endsAll = r.endsAll /\ set_password(r).born = r.born
           /\ set_password(r).new.deleted = r.new.deleted
           /\ mark_identifier_verified(r) \in Request /\ Alike(mark_identifier_verified(r), r)
           /\ mark_identifier_verified(r).opens = r.opens
           /\ mark_identifier_verified(r).proves
           /\ mark_identifier_verified(r).new.password = r.new.password
           /\ mark_identifier_verified(r).endsAll = r.endsAll
           /\ mark_identifier_verified(r).new.deleted = r.new.deleted
           /\ r.account \in Accounts =>
                 /\ issue_token_pair(r) \in Request /\ Alike(issue_token_pair(r), r)
                 /\ issue_token_pair(r).born = endings[r.account]
           /\ issue_token_pair(r).proves = r.proves
           /\ issue_token_pair(r).new = r.new
           /\ issue_token_pair(r).endsAll = r.endsAll
<1>1. r.new \in User /\ r.new.password \in 0..2
  BY DEF Request, User
<1>2. Another(r.new.password) \in 0..2
  BY DEF Another
<1>3. [r.new EXCEPT !.password = Another(@)] \in User /\ [r.new EXCEPT !.verified = TRUE] \in User
      /\ [r.new EXCEPT !.verified = TRUE].password = r.new.password
      /\ [r.new EXCEPT !.verified = TRUE].deleted = r.new.deleted
      /\ [r.new EXCEPT !.password = Another(@)].deleted = r.new.deleted
  BY <1>1, <1>2 DEF User
<1>4. r.account \in Accounts => endings[r.account] \in Nat
  BY DEF Typed, TypeOK
<1>5. set_password(r) \in Request /\ Alike(set_password(r), r)
      /\ set_password(r).opens = r.opens /\ set_password(r).proves = r.proves
      /\ set_password(r).endsAll = r.endsAll /\ set_password(r).born = r.born
      /\ set_password(r).new.deleted = r.new.deleted
  BY <1>3 DEF set_password, Request, Alike
<1>6. /\ mark_identifier_verified(r) \in Request /\ Alike(mark_identifier_verified(r), r)
      /\ mark_identifier_verified(r).opens = r.opens
      /\ mark_identifier_verified(r).proves
      /\ mark_identifier_verified(r).new.password = r.new.password
      /\ mark_identifier_verified(r).endsAll = r.endsAll
      /\ mark_identifier_verified(r).new.deleted = r.new.deleted
  BY <1>3 DEF mark_identifier_verified, Request, Alike
<1>7. /\ r.account \in Accounts =>
             /\ issue_token_pair(r) \in Request /\ Alike(issue_token_pair(r), r)
             /\ issue_token_pair(r).born = endings[r.account]
      /\ issue_token_pair(r).proves = r.proves
      /\ issue_token_pair(r).new = r.new
      /\ issue_token_pair(r).endsAll = r.endsAll
  BY <1>4 DEF issue_token_pair, Request, Alike
<1> QED BY <1>5, <1>6, <1>7

\* A request that starts keeps the invariant when it is vouched for, its code is
\* tallied and its ticket has left Redis.
LEMMA StartsStep ==
    ASSUME IInv, SignInAssumption, NEW s \in Sessions, NEW r \in Request, Starts(s, r),
           txn[s] = None, scenario.overlap \/ Open = {},
           Vouched(r, proved),
           ~scenario.overlap => Tallied(r, codes') /\ Renewed(r, codes', endings, account),
           UNCHANGED <<account, tokens, keys, links, scenario, memory>>,
           \/ codes' = codes
           \/ /\ Len(codes) < MaxCodes
              /\ \E c \in OtpCode : c.attempts = 0 /\ c.state = "unborn"
                                    /\ codes' = Append(codes, c),
           cooling' \subseteq Identifiers \X Purposes,
           challenged' \subseteq proved \cup challenged, tickets' \subseteq tickets,
           r.ticket # 0 => \E t \in tickets : t.id = r.ticket /\ t \notin tickets'
    PROVE  IInv'
<1>1. /\ txn' = [txn EXCEPT ![s] = r] /\ txn \in [Sessions -> Request \cup {None}]
      /\ codes \in Seq(OtpCode) /\ Len(codes) \in Nat
      /\ UNCHANGED <<endings, proved, uses, misses, redeemed>>
  BY DEF Starts, IInv, Typed, TypeOK, memory
<1>2. \A q \in Sessions : txn'[q] = IF q = s THEN r ELSE txn[q]
  BY <1>1
<1>3. /\ codes' \in Seq(OtpCode) /\ Len(codes') <= MaxCodes
      /\ \A c \in DOMAIN codes : c \in DOMAIN codes' /\ codes'[c] = codes[c]
      /\ \A c \in DOMAIN codes' : c \in DOMAIN codes \/ codes'[c].attempts = 0
      /\ \A c \in DOMAIN codes' : c \in DOMAIN codes \/ c \in 1..MaxCodes
  <2>1. CASE codes' = codes
    BY <1>1, <2>1 DEF IInv, Typed
  <2>2. CASE Len(codes) < MaxCodes /\ \E c \in OtpCode :
               c.attempts = 0 /\ c.state = "unborn" /\ codes' = Append(codes, c)
    <3>1. PICK c \in OtpCode : c.attempts = 0 /\ codes' = Append(codes, c)
      BY <2>2
    <3>2. /\ codes' \in Seq(OtpCode) /\ Len(codes') = Len(codes) + 1
          /\ \A i \in 1..Len(codes) : codes'[i] = codes[i]
          /\ codes'[Len(codes) + 1] = c
      BY <1>1, <3>1
    <3>3. MaxCodes \in Nat
      BY SignInAssumption
    <3> QED BY <1>1, <2>2, <3>1, <3>2, <3>3
  <2> QED BY <2>1, <2>2
<1>4. challenged' \subseteq proved
  BY DEF IInv, Entered
<1>5. Typed'
  <2>1. txn' \in [Sessions -> Request \cup {None}]
    BY <1>1
  <2>2. challenged' \subseteq Accounts
    BY <1>4 DEF IInv, Typed, TypeOK
  <2>3. scenario' = scenario
    OBVIOUS
  <2> QED BY <1>1, <1>3, <2>1, <2>2, <2>3 DEF IInv, Typed, TypeOK
<1>6. Entered'
  <2>1. \A q \in Sessions : txn[q] # None => Vouched(txn[q], proved)
    BY DEF IInv, Entered
  <2>2. proved' = proved
    BY <1>1
  <2>3. \A q \in Sessions : txn'[q] # None => Vouched(txn'[q], proved')
    BY <1>2, <2>1, <2>2
  <2> QED BY <1>1, <1>4, <2>3 DEF IInv, Entered
<1>7. OnePlace'
  <2>1. r.ticket # 0 => redeemed[r.ticket] = 0 /\ \A t \in tickets' : t.id # r.ticket
    BY DEF IInv, OnePlace
  <2>2. \A q \in Sessions : txn[q] # None /\ r.ticket # 0 => txn[q].ticket # r.ticket
    BY DEF IInv, OnePlace
  <2>3. \A t \in tickets' : t.id # 0
    BY DEF IInv, Typed, TypeOK, Ticket
  <2> QED BY <1>1, <1>2, <2>1, <2>2, <2>3 DEF IInv, OnePlace
<1>8. Orderly'
  <2> SUFFICES ASSUME ~scenario.overlap PROVE Orderly'
    BY DEF Orderly
  <2>1. \A q \in Sessions : txn[q] = None
    BY DEF Open
  <2>2. \A q \in Sessions : txn'[q] # None => q = s /\ txn'[q] = r
    BY <1>2, <2>1
  <2>3. ASSUME NEW c \in 1..MaxCodes PROVE Budgeted(c)'
    <3>1. Budgeted(c)
      BY DEF IInv, Orderly
    <3>2. CASE c \in DOMAIN codes
      BY <1>1, <1>3, <3>1, <3>2 DEF Budgeted
    <3>3. CASE c \notin DOMAIN codes
      BY <1>1, <1>3, <3>1, <3>3, SignInAssumption DEF Budgeted
    <3> QED BY <3>2, <3>3
  <2>4. Tallied(r, codes') /\ Renewed(r, codes', endings', account')
    BY <1>1
  <2> QED BY <2>2, <2>3, <2>4 DEF Orderly
<1>9. SessionsEndInTurn' /\ DeletedIsBlank'
  BY <1>1 DEF IInv, SessionsEndInTurn, DeletedIsBlank
<1> QED BY <1>5, <1>6, <1>7, <1>8, <1>9 DEF IInv

\* The same of a handler that only starts its request, without a ticket.
LEMMA QuietStep ==
    ASSUME IInv, SignInAssumption, NEW s \in Sessions, NEW e, MayCall(s, e),
           NEW r \in Request, Starts(s, r), r.ticket = 0,
           Vouched(r, proved),
           ~scenario.overlap => Tallied(r, codes) /\ Renewed(r, codes, endings, account),
           UNCHANGED <<tables, cooling, tickets, challenged, scenario, memory>>
    PROVE  IInv'
<1>1. /\ UNCHANGED <<account, tokens, keys, links, scenario, memory>>
      /\ codes' = codes /\ cooling' = cooling /\ tickets' = tickets
      /\ challenged' = challenged
  BY DEF tables
<1>2. txn[s] = None /\ (scenario.overlap \/ Open = {})
  BY DEF MayCall
<1>3. cooling' \subseteq Identifiers \X Purposes
  BY <1>1 DEF IInv, Typed, TypeOK
<1>4. ~scenario.overlap => Tallied(r, codes') /\ Renewed(r, codes', endings, account)
  BY <1>1
<1> QED BY <1>1, <1>2, <1>3, <1>4, StartsStep

\* Nothing of a request that touches no code, key, link or password needs a proof.
LEMMA Blank ==
    ASSUME Typed, SignInAssumption, NEW r, NEW a \in 0..MaxAccounts, Alike(r, Reading(a))
    PROVE  /\ r.account = a /\ r.ticket = 0 /\ r.code = 0 /\ Tallied(r, codes)
           /\ ~r.proves /\ (a \in Accounts => a \in proved) /\ (a = 0 => ~r.opens)
                 /\ (a = 0 => r.new.password = 0) => Vouched(r, proved)
<1>1. MaxAccounts \in Nat
  BY SignInAssumption
<1> QED BY <1>1, ReadingType DEF Alike, Tallied, Vouched, Accounts

\* Whoever signed in belongs to a proven account.
LEMMA Known ==
    ASSUME IInv, NEW a \in Accounts, get_current_user(a)
    PROVE  a \in proved /\ ~account[a].deleted
BY DEF IInv, Entered, get_current_user

\* A request that is no more than a change of the row of a proven account.
LEMMA OwnRow ==
    ASSUME IInv, SignInAssumption, NEW s \in Sessions, NEW e, MayCall(s, e),
           NEW a \in Accounts, a \in proved, NEW r \in Request, Alike(r, Reading(a)),
           ~r.proves, Starts(s, r),
           ~scenario.overlap => /\ ~account[a].deleted /\ ~r.new.deleted
                                /\ r.opens => r.born = endings[a] /\ ~r.endsAll,
           UNCHANGED <<tables, cooling, tickets, challenged, scenario, memory>>
    PROVE  IInv'
<1>1. a \in 0..MaxAccounts /\ a # 0 /\ Typed
  BY SignInAssumption DEF Accounts, IInv
<1>2. r.ticket = 0 /\ Vouched(r, proved) /\ Tallied(r, codes) /\ r.account = a /\ r.code = 0
  BY <1>1, Blank
<1>3. ~scenario.overlap => Renewed(r, codes, endings, account)
  BY <1>2 DEF Renewed
<1> QED BY <1>2, <1>3, QuietStep

LEMMA PostLogoutStep ==
    ASSUME IInv, SignInAssumption, NEW s \in Sessions, NEW a \in Accounts, PostLogout(s, a)
    PROVE  IInv'
<1>1. a \in proved /\ ~account[a].deleted
  BY Known DEF PostLogout
<1>2. a \in 0..MaxAccounts /\ Typed
  BY SignInAssumption DEF Accounts, IInv
<1>3. /\ Reading(a) \in Request /\ ~Reading(a).proves /\ ~Reading(a).opens
      /\ ~Reading(a).new.deleted
  BY <1>1, <1>2, ReadingType, SignInAssumption DEF Accounts
<1>4. ASSUME NEW t \in DOMAIN tokens, Starts(s, [Reading(a) EXCEPT !.revokes = t])
      PROVE  IInv'
  <2>1. t \in 0..MaxTokens
    BY SignInAssumption DEF IInv, Typed, TypeOK
  <2>2. /\ [Reading(a) EXCEPT !.revokes = t] \in Request
        /\ ~[Reading(a) EXCEPT !.revokes = t].proves
        /\ ~[Reading(a) EXCEPT !.revokes = t].opens
        /\ ~[Reading(a) EXCEPT !.revokes = t].new.deleted
        /\ Alike([Reading(a) EXCEPT !.revokes = t], Reading(a))
    BY <1>3, <2>1 DEF Request, Alike
  <2> QED BY <1>1, <1>4, <2>2, OwnRow DEF PostLogout
<1>5. ASSUME Starts(s, EndsAll(a))
      PROVE  IInv'
  <2>1. /\ EndsAll(a) \in Request /\ ~EndsAll(a).proves /\ Alike(EndsAll(a), Reading(a))
        /\ ~EndsAll(a).opens /\ ~EndsAll(a).new.deleted
    BY <1>3 DEF Request, Alike, EndsAll
  <2> QED BY <1>1, <1>5, <2>1, OwnRow DEF PostLogout
<1> QED BY <1>4, <1>5 DEF PostLogout

LEMMA PostRefreshStep ==
    ASSUME IInv, SignInAssumption, NEW s \in Sessions, NEW t \in DOMAIN tokens,
           PostRefresh(s, t)
    PROVE  IInv'
<1> DEFINE a == tokens[t].account
<1>1. tokens[t] \in RefreshToken /\ t \in 0..MaxTokens
  BY SignInAssumption DEF IInv, Typed, TypeOK
<1>2. a \in Accounts /\ a \in proved /\ tokens[t].born \in Nat
  BY <1>1 DEF RefreshToken, IInv, Entered
<1>3. a \in 0..MaxAccounts /\ Typed
  BY <1>2, SignInAssumption DEF Accounts, IInv
<1>4. /\ Reading(a) \in Request /\ ~Reading(a).proves /\ ~Reading(a).opens
      /\ ~Reading(a).endsAll /\ Reading(a).new = account[a] /\ Reading(0).account = 0
  BY <1>2, <1>3, ReadingType, SignInAssumption DEF Accounts
<1>7. ~scenario.overlap => ~account[a].deleted
  BY <1>2 DEF PostRefresh, IInv, DeletedIsBlank
<1>5. CASE ~tokens[t].live
  <2>1. /\ EndsAll(a) \in Request /\ ~EndsAll(a).proves /\ Alike(EndsAll(a), Reading(a))
        /\ ~EndsAll(a).opens /\ EndsAll(a).new = account[a]
    BY <1>4 DEF Request, Alike, EndsAll
  <2>2. Starts(s, EndsAll(a))
    BY <1>5 DEF PostRefresh, rotate
  <2> QED BY <1>2, <1>7, <2>1, <2>2, OwnRow DEF PostRefresh
<1>6. CASE tokens[t].live
  <2> DEFINE heir == [Reading(a) EXCEPT !.opens = TRUE, !.born = tokens[t].born, !.revokes = t]
  <2>1. /\ heir \in Request /\ ~heir.proves /\ Alike(heir, Reading(a))
        /\ ~heir.endsAll /\ heir.new = account[a] /\ heir.born = tokens[t].born
    BY <1>1, <1>2, <1>4 DEF Request, Alike
  <2>2. Starts(s, heir)
    BY <1>4, <1>6 DEF PostRefresh, rotate
  <2>3. ~scenario.overlap => tokens[t].born = endings[a]
    BY <1>6 DEF IInv, SessionsEndInTurn
  <2> HIDE DEF heir
  <2> QED BY <1>2, <1>7, <2>1, <2>2, <2>3, OwnRow DEF PostRefresh
<1> QED BY <1>5, <1>6

LEMMA ProfileStep ==
    ASSUME IInv, SignInAssumption, NEW s \in Sessions, NEW a \in Accounts,
           change_password(s, a) \/ update_profile(s, a)
    PROVE  IInv'
<1>1. a \in proved /\ a \in 0..MaxAccounts /\ a # 0 /\ Typed /\ ~account[a].deleted
  BY Known, SignInAssumption DEF change_password, update_profile, Accounts, IInv
<1>2. /\ Reading(a) \in Request /\ ~Reading(a).proves /\ ~Reading(a).opens
      /\ ~Reading(a).new.deleted
  BY <1>1, ReadingType
<1>3. LET r == set_password(Reading(a))
      IN  /\ r \in Request /\ Alike(r, Reading(a))
          /\ ~r.proves /\ ~r.opens /\ ~r.new.deleted
  <2>1. LET r == set_password(Reading(a))
        IN  /\ r \in Request /\ Alike(r, Reading(a)) /\ r.proves = Reading(a).proves
            /\ r.opens = Reading(a).opens /\ r.new.deleted = Reading(a).new.deleted
    BY <1>1, <1>2, Built
  <2> QED BY <1>2, <2>1
<1>4. CASE change_password(s, a)
  BY <1>1, <1>3, <1>4, OwnRow DEF change_password
<1>5. CASE update_profile(s, a)
  <2> DEFINE r == [Reading(a) EXCEPT !.new.name = Another(@)]
  <2>1. Reading(a).new \in User /\ Another(Reading(a).new.name) \in 0..2
    BY <1>2 DEF Request, Another
  <2>2. /\ [Reading(a).new EXCEPT !.name = Another(@)] \in User
        /\ ~[Reading(a).new EXCEPT !.name = Another(@)].deleted
    BY <1>2, <2>1 DEF User
  <2>3. /\ r \in Request /\ ~r.proves /\ Alike(r, Reading(a))
        /\ ~r.opens /\ ~r.new.deleted
    BY <1>2, <2>2 DEF Request, Alike
  <2> QED BY <1>1, <1>5, <2>3, OwnRow DEF update_profile
<1> QED BY <1>4, <1>5

LEMMA TotpStep ==
    ASSUME IInv, SignInAssumption, NEW s \in Sessions, NEW a \in Accounts,
           generate_totp(s, a) \/ enable_totp(s, a) \/ disable_totp(s, a)
    PROVE  IInv'
<1>1. account[a] \in User
  BY DEF IInv, Typed, TypeOK
<1>2. ASSUME NEW needs, NEW row \in User, row.deleted = account[a].deleted,
             Totp(s, a, needs, row)
      PROVE  IInv'
  <2>1. a \in proved /\ a \in 0..MaxAccounts /\ Typed /\ ~account[a].deleted
    BY <1>2, Known, SignInAssumption DEF Totp, Accounts, IInv
  <2>2. Reading(a) \in Request /\ ~Reading(a).proves /\ ~Reading(a).opens
    BY <2>1, ReadingType
  <2>4. ~row.deleted
    BY <1>2, <2>1
  <2>3. /\ [Reading(a) EXCEPT !.new = row] \in Request
        /\ ~[Reading(a) EXCEPT !.new = row].proves
        /\ Alike([Reading(a) EXCEPT !.new = row], Reading(a))
        /\ ~[Reading(a) EXCEPT !.new = row].opens
        /\ ~[Reading(a) EXCEPT !.new = row].new.deleted
    BY <2>2, <2>4 DEF Request, Alike
  <2> QED BY <1>2, <2>1, <2>3, OwnRow DEF Totp
<1> DEFINE row == account[a]
<1>3. row \in User /\ Another(row.pending) \in 0..2
  BY <1>1 DEF Another
<1>4. /\ [row EXCEPT !.pending = Another(@)] \in User
      /\ [row EXCEPT !.pending = Another(@)].deleted = row.deleted
      /\ \A b \in BOOLEAN : /\ [row EXCEPT !.totp = b, !.pending = 0] \in User
                            /\ [row EXCEPT !.totp = b, !.pending = 0].deleted = row.deleted
  <2> HIDE DEF row
  <2>1. [row EXCEPT !.pending = Another(@)] \in User
        /\ [row EXCEPT !.pending = Another(@)].deleted = row.deleted
    BY <1>3 DEF User
  <2>2. ASSUME NEW b \in BOOLEAN
        PROVE  /\ [row EXCEPT !.totp = b, !.pending = 0] \in User
               /\ [row EXCEPT !.totp = b, !.pending = 0].deleted = row.deleted
    <3>1. [row EXCEPT !.totp = b] \in User /\ [row EXCEPT !.totp = b].deleted = row.deleted
      BY <1>3 DEF User
    <3>2. ASSUME NEW x \in User
          PROVE  [x EXCEPT !.pending = 0] \in User /\ [x EXCEPT !.pending = 0].deleted = x.deleted
      BY DEF User
    <3>3. [row EXCEPT !.totp = b, !.pending = 0] = [[row EXCEPT !.totp = b] EXCEPT !.pending = 0]
      BY <1>3
    <3> QED BY <3>1, <3>2, <3>3
  <2> QED BY <2>1, <2>2
<1>5. CASE generate_totp(s, a)
  BY <1>2, <1>4, <1>5 DEF generate_totp
<1>6. CASE enable_totp(s, a)
  BY <1>2, <1>4, <1>6 DEF enable_totp
<1>7. CASE disable_totp(s, a)
  BY <1>2, <1>4, <1>7 DEF disable_totp
<1> QED BY <1>5, <1>6, <1>7

LEMMA BiometricsStep ==
    ASSUME IInv, SignInAssumption, NEW s \in Sessions, NEW a \in Accounts,
           \/ \E d \in Devices : enable_biometrics(s, a, d)
           \/ \E chosen \in {{d} : d \in Devices} \cup {Devices} :
                 disable_biometrics(s, a, chosen)
    PROVE  IInv'
<1>0. get_current_user(a)
  BY DEF enable_biometrics, disable_biometrics
<1>1. a \in proved /\ a \in 0..MaxAccounts /\ a # 0 /\ Typed /\ ~account[a].deleted
  BY <1>0, Known, SignInAssumption DEF Accounts, IInv
<1>2. /\ Reading(a) \in Request /\ ~Reading(a).proves /\ Reading(a).account = a
      /\ Reading(a).ticket = 0 /\ Reading(a).code = 0 /\ ~Reading(a).opens
      /\ ~Reading(a).new.deleted
  BY <1>1, ReadingType
<1>3. ASSUME NEW b \in BOOLEAN
      PROVE  /\ [Reading(a).new EXCEPT !.biometrics = b] \in User
             /\ ~[Reading(a).new EXCEPT !.biometrics = b].deleted
  BY <1>2 DEF Request, User
<1>4. ASSUME NEW d \in Devices, enable_biometrics(s, a, d)
      PROVE  IInv'
  <2> DEFINE r == [Reading(a) EXCEPT !.new.biometrics = TRUE, !.device = d, !.saw = keys[a][d]]
  <2>1. keys[a][d] \in -1..MaxFailed
    BY DEF IInv, Typed, TypeOK, BiometricCredential
  <2>2. /\ r \in Request /\ ~r.proves /\ r.account = a /\ r.ticket = 0 /\ r.code = 0
        /\ ~r.opens /\ ~r.new.deleted
    BY <1>2, <1>3, <2>1 DEF Request
  <2>3. Vouched(r, proved) /\ Tallied(r, codes) /\ Renewed(r, codes, endings, account)
    BY <1>1, <2>2 DEF Vouched, Tallied, Renewed
  <2>4. Starts(s, r)
    BY <1>4 DEF enable_biometrics
  <2> QED BY <1>4, <2>2, <2>3, <2>4, QuietStep DEF enable_biometrics
<1>5. ASSUME NEW chosen \in {{d} : d \in Devices} \cup {Devices},
             disable_biometrics(s, a, chosen)
      PROVE  IInv'
  <2> DEFINE b == \E d \in Devices \ chosen : keys[a][d] # -1
             r == [Reading(a) EXCEPT !.drops = chosen, !.new.biometrics = b]
  <2>1. chosen \in SUBSET Devices /\ b \in BOOLEAN
    OBVIOUS
  <2>2. Starts(s, r)
    BY <1>5 DEF disable_biometrics
  <2> HIDE DEF b
  <2>3. /\ r \in Request /\ ~r.proves /\ Alike(r, Reading(a))
        /\ ~r.opens /\ ~r.new.deleted
    BY <1>2, <1>3, <2>1 DEF Request, Alike
  <2> QED BY <1>1, <1>5, <2>2, <2>3, OwnRow DEF disable_biometrics
<1> QED BY <1>4, <1>5

\* A handler that starts no request but may challenge a proven account or use a ticket.
LEMMA NoRequestStep ==
    ASSUME IInv, SignInAssumption,
           UNCHANGED <<tables, cooling, txn, scenario, memory>>,
           challenged' \subseteq challenged \cup proved, tickets' \subseteq tickets
    PROVE  IInv'
<1>1. /\ UNCHANGED <<account, codes, tokens, keys, links>>
      /\ UNCHANGED <<endings, proved, uses, misses, redeemed>>
  BY DEF tables, memory
<1>2. challenged' \subseteq proved /\ challenged' \subseteq Accounts
  BY DEF IInv, Entered, Typed, TypeOK
<1>3. Typed'
  BY <1>1, <1>2 DEF IInv, Typed, TypeOK
<1>4. Entered'
  BY <1>1, <1>2 DEF IInv, Entered
<1>5. OnePlace'
  BY <1>1 DEF IInv, OnePlace
<1>6. Orderly'
  BY <1>1 DEF IInv, Orderly, Budgeted, Tallied, Renewed
<1>7. SessionsEndInTurn' /\ DeletedIsBlank'
  BY <1>1 DEF IInv, SessionsEndInTurn, DeletedIsBlank
<1> QED BY <1>3, <1>4, <1>5, <1>6, <1>7 DEF IInv

\* In turn, an account that is active, has its address or was never used is not deleted.
LEMMA Living ==
    ASSUME IInv, ~scenario.overlap, NEW a \in Accounts,
           account[a].active \/ account[a].email # None \/ ~account[a].used
    PROVE  ~account[a].deleted
<1>1. account[a].deleted => account[a] = _wipe_user(account[a])
  BY DEF IInv, DeletedIsBlank
<1>2. LET row == _wipe_user(account[a])
      IN  ~row.active /\ row.email = None /\ row.used
  BY DEF _wipe_user, NoUser
<1> QED BY <1>1, <1>2

\* The request of a sign-in that read account a.
LEMMA SignsIn ==
    ASSUME Typed, SignInAssumption, NEW a \in Accounts, a \in 0..MaxAccounts, a # 0
    PROVE  LET r == issue_token_pair(Reading(a))
           IN  /\ r \in Request /\ ~r.proves /\ Alike(r, Reading(a))
               /\ ~r.endsAll /\ r.born = endings[a] /\ r.new = account[a]
<1> DEFINE q == Reading(a)
<1>1. q \in Request /\ ~q.proves /\ q.account = a /\ ~q.endsAll /\ q.new = account[a]
  BY ReadingType
<1> HIDE DEF q
<1>2. /\ issue_token_pair(q) \in Request /\ Alike(issue_token_pair(q), q)
      /\ issue_token_pair(q).born = endings[q.account]
      /\ issue_token_pair(q).proves = q.proves
      /\ issue_token_pair(q).new = q.new
      /\ issue_token_pair(q).endsAll = q.endsAll
  BY <1>1, Built
<1> DEFINE r == issue_token_pair(q)
<1> HIDE DEF r
<1>3. /\ r \in Request /\ ~r.proves /\ Alike(r, q)
      /\ ~r.endsAll /\ r.born = endings[a] /\ r.new = account[a]
  BY <1>1, <1>2 DEF r
<1> QED BY <1>3 DEF r, q

LEMMA PostLoginStep ==
    ASSUME IInv, SignInAssumption, NEW s \in Sessions, NEW i \in Identifiers, PostLogin(s, i)
    PROVE  IInv'
<1>1. PICK a \in Accounts :
          /\ authenticate(a)
          /\ IF account[a].totp
             THEN challenged' = challenged \cup {a} /\ UNCHANGED txn
             ELSE Starts(s, issue_token_pair(Reading(a))) /\ UNCHANGED challenged
  BY DEF PostLogin, find_by_identifier
<1>2. a \in proved /\ a \in 0..MaxAccounts /\ a # 0 /\ Typed
  BY <1>1, SignInAssumption DEF authenticate, IInv, Entered, Accounts
<1>5. ~scenario.overlap => ~account[a].deleted
  BY <1>1, Living DEF authenticate
<1>3. CASE account[a].totp
  <2>1. UNCHANGED <<tables, cooling, txn, scenario, memory>> /\ tickets' = tickets
        /\ challenged' = challenged \cup {a}
    BY <1>1, <1>3 DEF PostLogin
  <2> QED BY <1>2, <2>1, NoRequestStep
<1>4. CASE ~account[a].totp
  <2> DEFINE r == issue_token_pair(Reading(a))
  <2>2. /\ r \in Request /\ ~r.proves /\ Alike(r, Reading(a))
        /\ ~r.endsAll /\ r.born = endings[a] /\ r.new = account[a]
    BY <1>2, SignsIn
  <2>3. UNCHANGED <<tables, cooling, tickets, challenged, scenario, memory>> /\ Starts(s, r)
    BY <1>1, <1>4 DEF PostLogin
  <2> HIDE DEF r
  <2> QED BY <1>2, <1>5, <2>2, <2>3, OwnRow DEF PostLogin
<1> QED BY <1>3, <1>4

LEMMA PostLogin2faStep ==
    ASSUME IInv, SignInAssumption, NEW s \in Sessions, NEW a \in Accounts, PostLogin2fa(s, a)
    PROVE  IInv'
<1>1. a \in proved /\ a \in 0..MaxAccounts /\ a # 0 /\ Typed
  BY SignInAssumption DEF PostLogin2fa, IInv, Entered, Accounts
<1>4. ~scenario.overlap => ~account[a].deleted
  BY Living DEF PostLogin2fa
<1> DEFINE r == issue_token_pair(Reading(a))
<1>3. /\ r \in Request /\ ~r.proves /\ Alike(r, Reading(a))
      /\ ~r.endsAll /\ r.born = endings[a] /\ r.new = account[a]
  BY <1>1, SignsIn
<1>5. Starts(s, r)
  BY DEF PostLogin2fa
<1> HIDE DEF r
<1> QED BY <1>1, <1>3, <1>4, <1>5, OwnRow DEF PostLogin2fa

(***************************************************************************)
(* Codes                                                                   *)
(***************************************************************************)
\* A wrong code, or one over the budget.
LEMMA RefusedStep ==
    ASSUME IInv, SignInAssumption, NEW s \in Sessions, NEW e, MayCall(s, e),
           NEW i, NEW p, NEW c \in Current(i, p), Starts(s, Refused(c)),
           UNCHANGED <<tables, cooling, tickets, challenged, scenario, memory>>
    PROVE  IInv'
<1>1. c \in DOMAIN codes /\ codes[c].state = "open" /\ codes[c] \in OtpCode
  BY DEF Current, Pending, IInv, Typed, TypeOK
<1>2. c \in 0..MaxCodes /\ codes[c].attempts \in Nat /\ MaxAttempts \in Nat /\ c # 0
  BY <1>1, SignInAssumption DEF IInv, Typed, TypeOK, OtpCode
<1>3. /\ Reading(0) \in Request /\ Reading(0).account = 0 /\ ~Reading(0).opens
      /\ ~Reading(0).proves /\ Reading(0).device = None /\ Reading(0).subject = None
      /\ Reading(0).ticket = 0 /\ Reading(0).new.password = 0
      /\ Reading(0).writes = "attempts"
  BY ReadingType, SignInAssumption DEF IInv, Reading
<1>4. CASE codes[c].attempts >= MaxAttempts
  <2> DEFINE r == [Reading(0) EXCEPT !.code = c, !.writes = "consumed_at"]
  <2>1. Refused(c) = r
    BY <1>4 DEF Refused
  <2>2. /\ r \in Request /\ r.account = 0 /\ ~r.opens /\ ~r.proves /\ r.ticket = 0
        /\ r.device = None /\ r.subject = None /\ r.new.password = 0
        /\ r.writes = "consumed_at" /\ r.code = c
    BY <1>2, <1>3 DEF Request
  <2>3. Vouched(r, proved) /\ Tallied(r, codes) /\ Renewed(r, codes, endings, account)
    BY <1>1, <2>2 DEF Vouched, Tallied, Renewed
  <2> QED BY <2>1, <2>2, <2>3, QuietStep
<1>5. CASE ~(codes[c].attempts >= MaxAttempts)
  <2> DEFINE n == codes[c].attempts + 1
             r == [Reading(0) EXCEPT !.code = c, !.attempts = n]
  <2>0. n \in Nat
    BY <1>2
  <2>1. Refused(c) = r
    BY <1>5 DEF Refused
  <2>2. /\ r \in Request /\ r.account = 0 /\ ~r.opens /\ ~r.proves /\ r.ticket = 0
        /\ r.device = None /\ r.subject = None /\ r.new.password = 0
        /\ r.writes = "attempts" /\ r.code = c /\ r.attempts = n
    <3> HIDE DEF n
    <3> QED BY <1>2, <1>3, <2>0 DEF Request
  <2>3. Vouched(r, proved) /\ Tallied(r, codes) /\ Renewed(r, codes, endings, account)
    BY <1>1, <1>2, <1>5, <2>2 DEF Vouched, Tallied, Renewed
  <2> QED BY <2>1, <2>2, <2>3, QuietStep
<1> QED BY <1>4, <1>5

\* The right code, under the budget, of an account the identifier finds.
LEMMA AcceptedStep ==
    ASSUME IInv, SignInAssumption, NEW s \in Sessions, NEW e, MayCall(s, e),
           NEW i, NEW p, NEW c \in Current(i, p), NEW r \in Request,
           r.account \in Accounts, r.proves, r.ticket = 0,
           r.opens => r.born = endings[r.account] /\ ~r.endsAll,
           p = "PASSWORD_RESET" => r.endsAll,
           ~scenario.overlap => ~account[r.account].deleted /\ ~r.new.deleted,
           Starts(s, verify_and_consume(r, c)),
           UNCHANGED <<tables, cooling, tickets, challenged, scenario, memory>>
    PROVE  IInv'
<1>1. c \in DOMAIN codes /\ codes[c].state = "open" /\ c \in 0..MaxCodes
      /\ codes[c].purpose = p
  BY SignInAssumption DEF Current, Pending, IInv, Typed, TypeOK
<1> DEFINE q == verify_and_consume(r, c)
<1>2. /\ q \in Request /\ q.account \in Accounts /\ q.proves /\ q.ticket = 0
      /\ q.writes = "consumed_at" /\ q.code = c
      /\ q.account = r.account /\ q.opens = r.opens /\ q.born = r.born
      /\ q.endsAll = r.endsAll /\ q.new = r.new
  <2>1. q \in Request
    BY <1>1, Consuming
  <2>2. /\ q.writes = "consumed_at" /\ q.code = c
        /\ q.account = r.account /\ q.proves = r.proves /\ q.ticket = r.ticket
    BY DEF Request, verify_and_consume
  <2>3. /\ q.opens = r.opens /\ q.born = r.born /\ q.endsAll = r.endsAll /\ q.new = r.new
    BY DEF Request, verify_and_consume
  <2> HIDE DEF q
  <2> QED BY <2>1, <2>2, <2>3
<1> HIDE DEF q
<1>3. Vouched(q, proved) /\ Tallied(q, codes)
  BY <1>1, <1>2 DEF Vouched, Tallied
<1>4. ~scenario.overlap => Renewed(q, codes, endings, account)
  BY <1>1, <1>2 DEF Renewed
<1>5. Starts(s, q)
  BY DEF q
<1> QED BY <1>4, <1>5, <1>2, <1>3, QuietStep

\* The account an identifier finds, as a request reads it.
LEMMA Found ==
    ASSUME IInv, SignInAssumption, NEW i \in Identifiers, NEW a \in find_by_identifier(i)
    PROVE  /\ a \in Accounts /\ Reading(a) \in Request /\ Reading(a).account = a
           /\ Reading(a).ticket = 0 /\ Reading(a).new = account[a]
           /\ ~Reading(a).opens /\ ~Reading(a).endsAll
           /\ ~scenario.overlap => ~account[a].deleted
<1>1. a \in Accounts /\ a \in 0..MaxAccounts /\ a # 0 /\ account[a].email = i
  BY SignInAssumption DEF find_by_identifier, Accounts
<1>2. ~scenario.overlap => ~account[a].deleted
  BY <1>1, Living, SignInAssumption
<1> QED BY <1>1, <1>2, ReadingType DEF IInv

\* A request that proves the identifier of account a and opens a session of it.
Entering(r, a) ==
    /\ r \in Request /\ r.account = a /\ r.ticket = 0 /\ r.proves
    /\ ~r.endsAll /\ r.born = endings[a]
    /\ ~scenario.overlap => ~r.new.deleted

LEMMA SignedIn ==
    ASSUME IInv, SignInAssumption, NEW i \in Identifiers, NEW a \in find_by_identifier(i)
    PROVE  LET r == issue_token_pair(mark_identifier_verified(Reading(a)))
           IN  Entering(r, a) /\ Entering(set_password(r), a)
<1>1. /\ a \in Accounts /\ Reading(a) \in Request /\ Reading(a).account = a /\ Typed
      /\ Reading(a).ticket = 0 /\ Reading(a).new = account[a] /\ ~Reading(a).endsAll
      /\ ~scenario.overlap => ~account[a].deleted
  BY Found DEF IInv
<1> DEFINE q == mark_identifier_verified(Reading(a))
           r == issue_token_pair(q)
           p == set_password(r)
<1>2. /\ q \in Request /\ q.account = a /\ q.ticket = 0 /\ q.proves
      /\ q.endsAll = Reading(a).endsAll /\ q.new.deleted = Reading(a).new.deleted
  BY <1>1, Built DEF Alike
<1>3. ~q.endsAll /\ (~scenario.overlap => ~q.new.deleted)
  BY <1>1, <1>2
<1> HIDE DEF q
<1>4. /\ r \in Request /\ r.account = a /\ r.ticket = 0 /\ r.proves = q.proves
      /\ r.endsAll = q.endsAll /\ r.born = endings[a] /\ r.new = q.new
  BY <1>1, <1>2, Built DEF Alike
<1>5. r.proves /\ ~r.endsAll /\ (~scenario.overlap => ~r.new.deleted)
  BY <1>2, <1>3, <1>4
<1> HIDE DEF r
<1>6. /\ p \in Request /\ p.account = a /\ p.ticket = 0 /\ p.proves = r.proves
      /\ p.endsAll = r.endsAll /\ p.born = r.born /\ p.new.deleted = r.new.deleted
  BY <1>1, <1>4, Built DEF Alike
<1>7. p.proves /\ ~p.endsAll /\ (~scenario.overlap => ~p.new.deleted)
  BY <1>5, <1>6
<1>8. Entering(r, a) /\ Entering(p, a)
  BY <1>4, <1>5, <1>6, <1>7 DEF Entering
<1> QED BY <1>8 DEF p, r, q

\* What a signup code lets in.
LEMMA EnteringStep ==
    ASSUME IInv, SignInAssumption, NEW s \in Sessions, NEW e, MayCall(s, e),
           NEW i \in Identifiers, NEW c \in Current(i, "SIGNUP"),
           NEW a \in find_by_identifier(i), NEW r, Entering(r, a),
           Starts(s, verify_and_consume(r, c)),
           UNCHANGED <<tables, cooling, tickets, challenged, scenario, memory>>
    PROVE  IInv'
<1>1. a \in Accounts /\ (~scenario.overlap => ~account[a].deleted)
  BY Found
<1>2. /\ r \in Request /\ r.account \in Accounts /\ r.proves /\ r.ticket = 0
      /\ r.opens => r.born = endings[r.account] /\ ~r.endsAll
      /\ ~scenario.overlap => ~account[r.account].deleted /\ ~r.new.deleted
  BY <1>1 DEF Entering
<1> QED BY <1>2, AcceptedStep

LEMMA PostOtpVerifyStep ==
    ASSUME IInv, SignInAssumption, NEW s \in Sessions, NEW i \in Identifiers,
           PostOtpVerify(s, i)
    PROVE  IInv'
<1> DEFINE In(r) == issue_token_pair(mark_identifier_verified(r))
<1>1. UNCHANGED <<tables, cooling, tickets, challenged, scenario, memory>>
      /\ MayCall(s, "otp/verify")
  BY DEF PostOtpVerify
<1>2. PICK c \in Current(i, "SIGNUP") :
          \/ Starts(s, Refused(c))
          \/ \E a \in find_by_identifier(i) :
                \/ Starts(s, verify_and_consume(In(Reading(a)), c))
                \/ Starts(s, verify_and_consume(set_password(In(Reading(a))), c))
  BY DEF PostOtpVerify, Redeems
<1>3. CASE Starts(s, Refused(c))
  BY <1>1, <1>3, RefusedStep
<1>4. ASSUME NEW a \in find_by_identifier(i),
             \/ Starts(s, verify_and_consume(In(Reading(a)), c))
             \/ Starts(s, verify_and_consume(set_password(In(Reading(a))), c))
      PROVE  IInv'
  BY <1>1, <1>4, SignedIn, EnteringStep
<1> QED BY <1>2, <1>3, <1>4

LEMMA PostRegisterVendorStep ==
    ASSUME IInv, SignInAssumption, NEW s \in Sessions, NEW i \in Identifiers,
           PostRegisterVendor(s, i)
    PROVE  IInv'
<1> DEFINE In(r) == set_password(issue_token_pair(mark_identifier_verified(r)))
           Named(r) == [r EXCEPT !.new.name = Another(@)]
<1>1. UNCHANGED <<tables, cooling, tickets, challenged, scenario, memory>>
      /\ MayCall(s, "register/vendor")
  BY DEF PostRegisterVendor
<1>2. PICK c \in Current(i, "SIGNUP") :
          \/ Starts(s, Refused(c))
          \/ \E a \in find_by_identifier(i) :
                Starts(s, verify_and_consume(Named(In(Reading(a))), c))
  BY DEF PostRegisterVendor, Redeems
<1>3. CASE Starts(s, Refused(c))
  BY <1>1, <1>3, RefusedStep
<1>4. ASSUME NEW a \in find_by_identifier(i),
             Starts(s, verify_and_consume(Named(In(Reading(a))), c))
      PROVE  IInv'
  <2> DEFINE r == In(Reading(a))
  <2>1. Entering(r, a)
    BY SignedIn
  <2> HIDE DEF r
  <2>2. r \in Request /\ r.new \in User /\ Another(r.new.name) \in 0..2
    BY <2>1 DEF Entering, Request, Another
  <2>3. /\ [r.new EXCEPT !.name = Another(@)] \in User
        /\ [r.new EXCEPT !.name = Another(@)].deleted = r.new.deleted
    BY <2>2 DEF User
  <2>4. /\ Named(r) \in Request /\ Named(r).account = r.account /\ Named(r).ticket = r.ticket
        /\ Named(r).proves = r.proves /\ Named(r).endsAll = r.endsAll
        /\ Named(r).born = r.born /\ Named(r).new.deleted = r.new.deleted
    BY <2>2, <2>3 DEF Request
  <2>5. Entering(Named(r), a)
    <3> HIDE DEF Named
    <3> QED BY <2>1, <2>4 DEF Entering
  <2>6. Starts(s, verify_and_consume(Named(r), c))
    BY <1>4 DEF r
  <2> QED BY <1>1, <2>5, <2>6, EnteringStep
<1> QED BY <1>2, <1>3, <1>4

LEMMA PostPasswordResetStep ==
    ASSUME IInv, SignInAssumption, NEW s \in Sessions, NEW i \in Identifiers,
           PostPasswordReset(s, i)
    PROVE  IInv'
<1> DEFINE Reset(r) == [set_password(r) EXCEPT !.endsAll = TRUE, !.proves = TRUE]
<1>1. UNCHANGED <<tables, cooling, tickets, challenged, scenario, memory>>
      /\ MayCall(s, "password/reset")
  BY DEF PostPasswordReset
<1>2. PICK c \in Current(i, "PASSWORD_RESET") :
          \/ Starts(s, Refused(c))
          \/ \E a \in find_by_identifier(i) :
                Starts(s, verify_and_consume(Reset(Reading(a)), c))
  BY DEF PostPasswordReset, Redeems
<1>3. CASE Starts(s, Refused(c))
  BY <1>1, <1>3, RefusedStep
<1>4. ASSUME NEW a \in find_by_identifier(i),
             Starts(s, verify_and_consume(Reset(Reading(a)), c))
      PROVE  IInv'
  <2>1. /\ a \in Accounts /\ Reading(a) \in Request /\ Reading(a).account = a /\ Typed
        /\ Reading(a).ticket = 0 /\ Reading(a).new = account[a] /\ ~Reading(a).opens
        /\ ~scenario.overlap => ~account[a].deleted
    BY <1>4, Found DEF IInv
  <2> DEFINE q == set_password(Reading(a))
  <2>2. /\ q \in Request /\ q.account = a /\ q.ticket = 0
        /\ q.opens = Reading(a).opens /\ q.new.deleted = account[a].deleted
    BY <2>1, Built DEF Alike
  <2>3. ~q.opens /\ (~scenario.overlap => ~q.new.deleted)
    BY <2>1, <2>2
  <2> HIDE DEF q
  <2> DEFINE r == [q EXCEPT !.endsAll = TRUE, !.proves = TRUE]
  <2>4. /\ r \in Request /\ r.account = a /\ r.ticket = 0 /\ r.proves /\ r.endsAll
        /\ r.opens = q.opens /\ r.new = q.new
    <3>1. r \in Request
      BY <2>2, Ending
    <3>2. /\ r.account = q.account /\ r.ticket = q.ticket /\ r.proves /\ r.endsAll
          /\ r.opens = q.opens /\ r.new = q.new
      BY <2>2 DEF Request
    <3> QED BY <2>2, <3>1, <3>2
  <2>5. Starts(s, verify_and_consume(r, c))
    BY <1>4 DEF q
  <2> HIDE DEF r
  <2> QED BY <1>1, <2>1, <2>3, <2>4, <2>5, AcceptedStep
<1> QED BY <1>2, <1>3, <1>4

\* The row send_otp adds.
LEMMA SendOtp ==
    ASSUME IInv, SignInAssumption, NEW i \in Identifiers, NEW p \in Purposes, send_otp(i, p)
    PROVE  /\ Len(codes) < MaxCodes
           /\ \E c \in OtpCode : c.attempts = 0 /\ c.state = "unborn"
                                 /\ codes' = Append(codes, c)
           /\ cooling' \subseteq Identifiers \X Purposes
           /\ Len(codes) + 1 \in 1..MaxCodes /\ Len(codes) + 1 \in DOMAIN codes'
           /\ codes'[Len(codes) + 1].state = "unborn"
           /\ codes'[Len(codes) + 1].purpose = p
<1> DEFINE c == [identifier |-> i, purpose |-> p, attempts |-> 0, state |-> "unborn"]
<1>1. c \in OtpCode /\ codes \in Seq(OtpCode) /\ codes' = Append(codes, c)
      /\ Len(codes) < MaxCodes /\ MaxCodes \in Nat
  BY SignInAssumption DEF OtpCode, send_otp, IInv, Typed, TypeOK
<1>2. cooling' \subseteq Identifiers \X Purposes
  BY DEF send_otp, IInv, Typed, TypeOK
<1>3. c.attempts = 0 /\ c.state = "unborn" /\ c.purpose = p
  OBVIOUS
<1> HIDE DEF c
<1>4. Len(codes) + 1 \in DOMAIN codes' /\ codes'[Len(codes) + 1] = c
      /\ Len(codes) + 1 \in 1..MaxCodes
  BY <1>1
<1> QED BY <1>1, <1>2, <1>3, <1>4

LEMMA PostPasswordForgotStep ==
    ASSUME IInv, SignInAssumption, NEW s \in Sessions, NEW i \in Identifiers,
           PostPasswordForgot(s, i)
    PROVE  IInv'
<1>1. /\ send_otp(i, "PASSWORD_RESET") /\ txn[s] = None /\ (scenario.overlap \/ Open = {})
      /\ UNCHANGED <<account, tokens, keys, links, scenario, memory>>
      /\ tickets' = tickets /\ challenged' = challenged
  BY DEF PostPasswordForgot, MayCall
<1>2. /\ Len(codes) < MaxCodes
      /\ \E c \in OtpCode : c.attempts = 0 /\ c.state = "unborn"
                            /\ codes' = Append(codes, c)
      /\ cooling' \subseteq Identifiers \X Purposes
      /\ Len(codes) + 1 \in 1..MaxCodes /\ Len(codes) + 1 \in DOMAIN codes'
      /\ codes'[Len(codes) + 1].state = "unborn"
  BY <1>1, SendOtp DEF Purposes
<1>3. /\ Reading(0) \in Request /\ Reading(0).account = 0 /\ ~Reading(0).opens
      /\ ~Reading(0).proves /\ Reading(0).device = None /\ Reading(0).subject = None
      /\ Reading(0).ticket = 0 /\ Reading(0).new.password = 0
  BY ReadingType, SignInAssumption DEF IInv
<1> DEFINE n == Len(codes) + 1
           r == [Reading(0) EXCEPT !.code = n, !.writes = "insert"]
<1>4. n \in 0..MaxCodes
  BY <1>2
<1>5. /\ r \in Request /\ r.account = 0 /\ ~r.opens /\ ~r.proves /\ r.ticket = 0
      /\ r.device = None /\ r.subject = None /\ r.new.password = 0
      /\ r.writes = "insert" /\ r.code = n
  <2> HIDE DEF n
  <2> QED BY <1>3, <1>4 DEF Request
<1>6. Vouched(r, proved) /\ Tallied(r, codes') /\ Renewed(r, codes', endings, account)
  BY <1>2, <1>5 DEF Vouched, Tallied, Renewed
<1>7. Starts(s, r)
  BY DEF PostPasswordForgot
<1> HIDE DEF r
<1> QED BY <1>1, <1>2, <1>5, <1>6, <1>7, StartsStep

\* The row upsert_provisional_user hands back, found or about to be inserted.
LEMMA Upserted ==
    ASSUME IInv, SignInAssumption, NEW i \in Identifiers, NEW r \in upsert_provisional_user(i)
    PROVE  /\ r \in Request /\ r.account \in Accounts /\ r.ticket = 0 /\ r.code = 0
           /\ r.device = None /\ r.subject = None /\ ~r.opens /\ ~r.proves
           /\ r.new.password # 0 => r.account \in proved
           /\ ~r.endsAll
           /\ ~scenario.overlap => ~account[r.account].deleted /\ ~r.new.deleted
<1>1. ASSUME NEW a \in Accounts
      PROVE  /\ Reading(a) \in Request /\ Reading(a).account = a /\ Reading(a).ticket = 0
             /\ Reading(a).code = 0 /\ Reading(a).device = None /\ Reading(a).subject = None
             /\ ~Reading(a).opens /\ ~Reading(a).proves
             /\ Reading(a).new \in User
             /\ Reading(a).new.password # 0 => a \in proved
             /\ ~Reading(a).endsAll /\ Reading(a).new = account[a]
  <2>1. a \in 0..MaxAccounts /\ a # 0 /\ account[a] \in User
    <3>1. a \in 0..MaxAccounts /\ a # 0
      BY SignInAssumption DEF Accounts
    <3>2. account[a] \in User
      BY DEF IInv, Typed, TypeOK
    <3> QED BY <3>1, <3>2
  <2>2. account[a].password # 0 => a \in proved
    BY DEF IInv, Entered
  <2> QED BY <2>1, <2>2, ReadingType DEF IInv
<1>2. CASE find_by_identifier(i) # {}
  <2>1. PICK a \in find_by_identifier(i) : r = Reading(a)
    BY <1>2 DEF upsert_provisional_user
  <2>2. a \in Accounts /\ (~scenario.overlap => ~account[a].deleted)
    BY Found DEF find_by_identifier
  <2> QED BY <1>1, <2>1, <2>2
<1>3. CASE find_by_identifier(i) = {}
  <2>1. PICK a \in IF Inserting(i) THEN {} ELSE Unused :
            r = [Reading(a) EXCEPT !.new.used = TRUE, !.new.email = i]
    BY <1>3 DEF upsert_provisional_user
  <2>2. a \in Accounts /\ (~scenario.overlap => ~account[a].deleted)
    BY Living DEF Unused
  <2> DEFINE q == Reading(a)
             row == [q.new EXCEPT !.used = TRUE, !.email = i]
  <2>3. q \in Request /\ q.new \in User
    BY <1>1, <2>2
  <2>4. row \in User /\ row.password = q.new.password /\ row.deleted = q.new.deleted
    <3>1. LET x == [q.new EXCEPT !.used = TRUE]
          IN  x \in User /\ x.password = q.new.password /\ x.deleted = q.new.deleted
      BY <2>3 DEF User
    <3>2. ASSUME NEW x \in User
          PROVE  /\ [x EXCEPT !.email = i] \in User
                 /\ [x EXCEPT !.email = i].password = x.password
                 /\ [x EXCEPT !.email = i].deleted = x.deleted
      BY DEF User
    <3>3. row = [[q.new EXCEPT !.used = TRUE] EXCEPT !.email = i]
      OBVIOUS
    <3> QED BY <3>1, <3>2, <3>3
  <2>5. r = [q EXCEPT !.new = row]
    BY <2>1, <2>3 DEF Request, User
  <2> HIDE DEF row
  <2>6. /\ r \in Request /\ r.account = q.account /\ r.ticket = q.ticket /\ r.code = q.code
        /\ r.device = q.device /\ r.subject = q.subject /\ r.opens = q.opens
        /\ r.proves = q.proves /\ r.endsAll = q.endsAll /\ r.new = row
    BY <2>3, <2>4, <2>5 DEF Request
  <2> QED BY <1>1, <2>2, <2>4, <2>6
<1> QED BY <1>2, <1>3

LEMMA PostOtpSendStep ==
    ASSUME IInv, SignInAssumption, NEW s \in Sessions, NEW i \in Identifiers,
           PostOtpSend(s, i)
    PROVE  IInv'
<1>1. /\ send_otp(i, "SIGNUP") /\ txn[s] = None /\ (scenario.overlap \/ Open = {})
      /\ UNCHANGED <<account, tokens, keys, links, scenario, memory>>
      /\ tickets' = tickets /\ challenged' = challenged
  BY DEF PostOtpSend, MayCall
<1>2. /\ Len(codes) < MaxCodes
      /\ \E c \in OtpCode : c.attempts = 0 /\ c.state = "unborn"
                            /\ codes' = Append(codes, c)
      /\ cooling' \subseteq Identifiers \X Purposes
      /\ Len(codes) + 1 \in 1..MaxCodes /\ Len(codes) + 1 \in DOMAIN codes'
      /\ codes'[Len(codes) + 1].state = "unborn"
      /\ codes'[Len(codes) + 1].purpose = "SIGNUP"
  BY <1>1, SendOtp DEF Purposes
<1> DEFINE n == Len(codes) + 1
<1>3. PICK q \in upsert_provisional_user(i) :
          Starts(s, [q EXCEPT !.code = n, !.writes = "insert"])
  BY DEF PostOtpSend
<1>4. /\ q \in Request /\ q.account \in Accounts /\ q.ticket = 0
      /\ q.device = None /\ q.subject = None /\ ~q.opens /\ ~q.proves
      /\ q.new.password # 0 => q.account \in proved
      /\ ~scenario.overlap => ~account[q.account].deleted /\ ~q.new.deleted
  BY Upserted
<1> DEFINE r == [q EXCEPT !.code = n, !.writes = "insert"]
<1>5. n \in 0..MaxCodes
  BY <1>2
<1>6. /\ r \in Request /\ r.account = q.account /\ ~r.opens /\ ~r.proves /\ r.ticket = 0
      /\ r.device = None /\ r.subject = None /\ r.new = q.new
      /\ r.writes = "insert" /\ r.code = n
  <2> HIDE DEF n
  <2>1. r \in Request
    BY <1>4, <1>5, Coding
  <2>2. /\ r.account = q.account /\ r.opens = q.opens /\ r.proves = q.proves
        /\ r.ticket = q.ticket /\ r.device = q.device /\ r.subject = q.subject
        /\ r.new = q.new /\ r.writes = "insert" /\ r.code = n
    BY <1>4 DEF Request
  <2> QED BY <1>4, <2>1, <2>2
<1>7. Vouched(r, proved) /\ Tallied(r, codes')
      /\ (~scenario.overlap => Renewed(r, codes', endings, account))
  BY <1>2, <1>4, <1>6 DEF Vouched, Tallied, Renewed
<1> HIDE DEF r
<1>8. Starts(s, r)
  BY <1>3 DEF r
<1> QED BY <1>1, <1>2, <1>6, <1>7, <1>8, StartsStep

(***************************************************************************)
(* Tickets                                                                 *)
(***************************************************************************)
\* A challenge or a state is set under a number nothing has yet.
LEMMA IssuedStep ==
    ASSUME IInv, SignInAssumption, NEW n \in FreshTickets, NEW d \in Devices \cup {None},
           NEW kept \in SUBSET tickets, tickets' = kept \cup {[id |-> n, device |-> d]},
           UNCHANGED <<tables, cooling, challenged, txn, scenario, memory>>
    PROVE  IInv'
<1> DEFINE t == [id |-> n, device |-> d]
<1>1. /\ UNCHANGED <<account, codes, tokens, keys, links>>
      /\ UNCHANGED <<endings, proved, uses, misses, redeemed>>
  BY DEF tables, memory
<1>2. /\ n \in 1..MaxTickets /\ redeemed[n] = 0 /\ \A u \in tickets : u.id # n
      /\ \A s \in Sessions : txn[s] # None => txn[s].ticket # n
  BY DEF FreshTickets, Open
<1>3. t \in Ticket /\ t.id = n
  BY <1>2 DEF Ticket
<1> HIDE DEF t
<1>4. tickets' \subseteq tickets \cup {t} /\ tickets' \subseteq Ticket
  BY <1>3 DEF t, IInv, Typed, TypeOK
<1>5. Typed'
  BY <1>1, <1>4 DEF IInv, Typed, TypeOK
<1>6. Entered'
  BY <1>1 DEF IInv, Entered
<1>7. OnePlace'
  BY <1>1, <1>2, <1>3, <1>4 DEF IInv, OnePlace
<1>8. Orderly'
  BY <1>1 DEF IInv, Orderly, Budgeted, Tallied, Renewed
<1>9. SessionsEndInTurn' /\ DeletedIsBlank'
  BY <1>1 DEF IInv, SessionsEndInTurn, DeletedIsBlank
<1> QED BY <1>5, <1>6, <1>7, <1>8, <1>9 DEF IInv

LEMMA IssueStep ==
    ASSUME IInv, SignInAssumption,
           begin_authorization \/ \E d \in Devices : issue_challenge(d)
    PROVE  IInv'
<1>1. CASE begin_authorization
  <2>1. PICK n \in FreshTickets : tickets' = tickets \cup {[id |-> n, device |-> None]}
    BY <1>1 DEF begin_authorization
  <2> QED BY <1>1, <2>1, IssuedStep DEF begin_authorization
<1>2. ASSUME NEW d \in Devices, issue_challenge(d)
      PROVE  IInv'
  <2> DEFINE kept == {t \in tickets : t.device # d}
  <2>1. PICK n \in FreshTickets : tickets' = kept \cup {[id |-> n, device |-> d]}
    BY <1>2 DEF issue_challenge
  <2>2. kept \in SUBSET tickets
    OBVIOUS
  <2> HIDE DEF kept
  <2> QED BY <1>2, <2>1, <2>2, IssuedStep DEF issue_challenge
<1> QED BY <1>1, <1>2

\* Whoever redeems a ticket starts a request for a proven account, or none.
LEMMA RedeemStep ==
    ASSUME IInv, SignInAssumption, NEW s \in Sessions, NEW e, MayCall(s, e),
           NEW t \in tickets, GetDel(t), NEW r \in Request, Starts(s, r),
           r.ticket \in {0, t.id}, r.code = 0, Vouched(r, proved),
           ~scenario.overlap => Renewed(r, codes, endings, account),
           challenged' \subseteq challenged \cup proved,
           UNCHANGED <<tables, cooling, scenario, memory>>
    PROVE  IInv'
<1>1. /\ UNCHANGED <<account, tokens, keys, links, scenario, memory>>
      /\ codes' = codes /\ cooling' = cooling
  BY DEF tables
<1>2. txn[s] = None /\ (scenario.overlap \/ Open = {})
  BY DEF MayCall
<1>3. tickets' = tickets \ {t}
  BY DEF GetDel
<1>4. cooling' \subseteq Identifiers \X Purposes /\ Tallied(r, codes')
      /\ (~scenario.overlap => Renewed(r, codes', endings, account))
  BY <1>1 DEF IInv, Typed, TypeOK, Tallied
<1>5. r.ticket # 0 => \E u \in tickets : u.id = r.ticket /\ u \notin tickets'
  BY <1>3
<1> QED BY <1>1, <1>2, <1>3, <1>4, <1>5, StartsStep

LEMMA PostBiometricLoginStep ==
    ASSUME IInv, SignInAssumption, NEW s \in Sessions, NEW t \in tickets,
           PostBiometricLogin(s, t)
    PROVE  IInv'
<1> DEFINE owners == {a \in Accounts : keys[a][t.device] # -1}
           a == CHOOSE x \in owners : TRUE
           count == keys[a][t.device]
           Key(n) == [Reading(a) EXCEPT !.device = t.device, !.saw = count, !.failed = n]
           opened == [issue_token_pair(Key(0)) EXCEPT !.ticket = t.id]
<1>1. /\ UNCHANGED <<tables, cooling, scenario, memory>>
      /\ MayCall(s, "biometrics") /\ GetDel(t) /\ t.device # None
      /\ \/ UNCHANGED <<txn, challenged>>
         \/ /\ Cardinality(owners) = 1 /\ count < MaxFailed
            /\ \/ Starts(s, Key(count + 1)) /\ challenged' = challenged
               \/ Starts(s, Key(0)) /\ challenged' = challenged \cup {a}
               \/ Starts(s, opened) /\ challenged' = challenged
  BY DEF PostBiometricLogin
<1>2. CASE UNCHANGED <<txn, challenged>>
  <2>1. tickets' \subseteq tickets /\ challenged' \subseteq challenged \cup proved
    BY <1>1, <1>2 DEF GetDel
  <2> QED BY <1>1, <1>2, <2>1, NoRequestStep
<1>0. Cardinality(owners) = 1 => owners # {}
  <2> HIDE DEF owners
  <2>1. ASSUME owners = {} PROVE Cardinality(owners) = 0
    BY <2>1, FS_EmptySet, Zenon
  <2> QED BY <2>1
<1>3. ASSUME Cardinality(owners) = 1, count < MaxFailed,
             \/ Starts(s, Key(count + 1)) /\ challenged' = challenged
             \/ Starts(s, Key(0)) /\ challenged' = challenged \cup {a}
             \/ Starts(s, opened) /\ challenged' = challenged
      PROVE  IInv'
  <2>1. a \in owners
    <3>1. owners # {}
      BY <1>0, <1>3
    <3> HIDE DEF owners
    <3> QED BY <3>1
  <2>2. t.device \in Devices /\ t.id \in 1..MaxTickets
    BY <1>1 DEF IInv, Typed, TypeOK, Ticket
  <2>0. a \in Accounts /\ count # -1
    BY <2>1
  <2> HIDE DEF owners, a
  <2>3. /\ a \in Accounts /\ a \in proved /\ a \in 0..MaxAccounts /\ a # 0 /\ Typed
        /\ ~scenario.overlap => ~account[a].deleted
    <3>1. a \in proved
      BY <2>0, <2>2 DEF IInv, Entered
    <3>2. a \in 0..MaxAccounts /\ a # 0
      BY <2>0, SignInAssumption DEF Accounts
    <3>3. ~scenario.overlap => ~account[a].deleted
      BY <2>0, <2>2 DEF IInv, DeletedIsBlank
    <3> QED BY <2>0, <3>1, <3>2, <3>3 DEF IInv
  <2>4. /\ count \in -1..MaxFailed /\ count \in 0..MaxFailed
        /\ count + 1 \in 0..MaxFailed /\ 0 \in 0..MaxFailed
    <3>1. keys[a] \in [Devices -> -1..MaxFailed]
      BY <2>0 DEF IInv, Typed, TypeOK, BiometricCredential
    <3>2. count \in -1..MaxFailed /\ MaxFailed \in Nat
      BY <2>2, <3>1, SignInAssumption
    <3> QED BY <1>3, <2>0, <3>2
  <2>5. /\ Reading(a) \in Request /\ Reading(a).account = a /\ Reading(a).ticket = 0
        /\ Reading(a).code = 0 /\ ~Reading(a).proves /\ ~Reading(a).opens
        /\ ~Reading(a).endsAll /\ Reading(a).new = account[a]
    BY <2>3, ReadingType
  <2> HIDE DEF count
  <2>6. ASSUME NEW n \in 0..MaxFailed
        PROVE  /\ Key(n) \in Request /\ Key(n).account = a /\ Key(n).ticket = 0
               /\ Key(n).code = 0 /\ ~Key(n).proves /\ ~Key(n).opens
               /\ ~Key(n).endsAll /\ Key(n).new = account[a]
    BY <2>2, <2>4, <2>5 DEF Request
  <2>7. ASSUME NEW r \in Request, r.account = a, r.ticket \in {0, t.id}, r.code = 0,
               ~r.proves, r.opens => r.born = endings[a] /\ ~r.endsAll, r.new = account[a],
               Starts(s, r), challenged' \subseteq challenged \cup proved
        PROVE  IInv'
    <3>1. Vouched(r, proved) /\ (~scenario.overlap => Renewed(r, codes, endings, account))
      BY <2>3, <2>7 DEF Vouched, Renewed
    <3> QED BY <1>1, <2>7, <3>1, RedeemStep
  <2>8. CASE Starts(s, Key(count + 1)) /\ challenged' = challenged
    BY <2>4, <2>6, <2>7, <2>8
  <2>9. CASE Starts(s, Key(0)) /\ challenged' = challenged \cup {a}
    BY <2>3, <2>4, <2>6, <2>7, <2>9
  <2>10. CASE Starts(s, opened) /\ challenged' = challenged
    <3>1. /\ Key(0) \in Request /\ Key(0).account = a /\ Key(0).code = 0 /\ ~Key(0).proves
          /\ ~Key(0).endsAll /\ Key(0).new = account[a]
      BY <2>4, <2>6
    <3> DEFINE q == issue_token_pair(Key(0))
    <3>2. /\ q \in Request /\ q.account = a /\ q.code = 0 /\ q.proves = Key(0).proves
          /\ q.endsAll = Key(0).endsAll /\ q.born = endings[a] /\ q.new = Key(0).new
      <4> HIDE DEF Key
      <4> QED BY <2>3, <3>1, Built DEF Alike
    <3> HIDE DEF q, Key
    <3>3. t.id \in 0..MaxTickets
      BY <2>2
    <3>4. /\ [q EXCEPT !.ticket = t.id] \in Request
          /\ [q EXCEPT !.ticket = t.id].account = a /\ [q EXCEPT !.ticket = t.id].code = 0
          /\ [q EXCEPT !.ticket = t.id].ticket = t.id
          /\ ~[q EXCEPT !.ticket = t.id].proves /\ ~[q EXCEPT !.ticket = t.id].endsAll
          /\ [q EXCEPT !.ticket = t.id].born = endings[a]
          /\ [q EXCEPT !.ticket = t.id].new = account[a]
      BY <3>1, <3>2, <3>3 DEF Request
    <3>5. Starts(s, [q EXCEPT !.ticket = t.id])
      BY <2>10 DEF q
    <3> QED BY <2>7, <2>10, <3>4, <3>5
  <2> QED BY <1>3, <2>8, <2>9, <2>10
<1> QED BY <1>1, <1>2, <1>3

\* The name Google gives is kept only where there is none.
LEMMA NamedType ==
    ASSUME NEW r \in Request
    PROVE  LET q == [r EXCEPT !.new.name = IF @ = 0 THEN 1 ELSE @]
           IN  /\ q \in Request /\ q.account = r.account /\ q.code = r.code
               /\ q.ticket = r.ticket /\ q.proves = r.proves /\ q.endsAll = r.endsAll
               /\ q.new.deleted = r.new.deleted
<1> DEFINE n == IF r.new.name = 0 THEN 1 ELSE r.new.name
           q == [r EXCEPT !.new.name = n]
<1>1. r.new \in User /\ r.new.name \in 0..2
  BY DEF Request, User
<1>2. n \in 0..2
  BY <1>1
<1> HIDE DEF n
<1>3. [r.new EXCEPT !.name = n] \in User /\ [r.new EXCEPT !.name = n].deleted = r.new.deleted
  BY <1>1, <1>2 DEF User
<1>4. /\ q \in Request /\ q.account = r.account /\ q.code = r.code
      /\ q.ticket = r.ticket /\ q.proves = r.proves /\ q.endsAll = r.endsAll
      /\ q.new.deleted = r.new.deleted
  BY <1>3 DEF Request
<1> QED BY <1>4 DEF n

\* The request for the account of a Google profile.
LEMMA Linked ==
    ASSUME IInv, SignInAssumption, NEW g \in Subjects, NEW b \in BOOLEAN,
           NEW r \in link_or_create_google_user(g, b)
    PROVE  /\ r \in Request /\ r.account \in Accounts /\ r.code = 0 /\ r.ticket = 0
           /\ r.proves \/ r.account \in proved
           /\ ~r.endsAll
           /\ ~scenario.overlap => ~account[r.account].deleted /\ ~r.new.deleted
<1>1. CASE links[g] # 0
  <2> DEFINE a == links[g]
  <2>1. r = [Reading(a) EXCEPT !.new.name = IF @ = 0 THEN 1 ELSE @]
    BY <1>1 DEF link_or_create_google_user
  <2>2. a \in 0..MaxAccounts /\ a \in proved
    BY <1>1 DEF IInv, Entered, Typed, TypeOK, AuthIdentity
  <2>3. a \in Accounts /\ a # 0
    BY <1>1, <2>2, SignInAssumption DEF Accounts
  <2>4. ~scenario.overlap => ~account[a].deleted
    BY <2>3 DEF IInv, DeletedIsBlank
  <2> HIDE DEF a
  <2>5. /\ Reading(a) \in Request /\ Reading(a).account = a /\ Reading(a).ticket = 0
        /\ Reading(a).code = 0 /\ ~Reading(a).endsAll /\ Reading(a).new = account[a]
    BY <2>2, <2>3, ReadingType DEF IInv
  <2>6. /\ r \in Request /\ r.account = a /\ r.code = 0 /\ r.ticket = 0
        /\ r.endsAll = Reading(a).endsAll /\ r.new.deleted = Reading(a).new.deleted
    BY <2>1, <2>5, NamedType
  <2> QED BY <2>2, <2>3, <2>4, <2>5, <2>6
<1>2. CASE links[g] = 0
  <2>1. PICK q \in upsert_provisional_user(GoogleEmail[g]) :
            r = [mark_identifier_verified(q) EXCEPT !.subject = g,
                                                    !.new.name = IF @ = 0 THEN 1 ELSE @]
    BY <1>2 DEF link_or_create_google_user
  <2>2. GoogleEmail[g] \in Identifiers
    BY SignInAssumption
  <2>3. /\ q \in Request /\ q.account \in Accounts /\ q.ticket = 0 /\ q.code = 0
        /\ ~q.endsAll
        /\ ~scenario.overlap => ~account[q.account].deleted /\ ~q.new.deleted
    BY <2>2, Upserted
  <2> DEFINE m == mark_identifier_verified(q)
             l == [m EXCEPT !.subject = g]
  <2>4. /\ m \in Request /\ m.account = q.account /\ m.code = 0 /\ m.ticket = 0 /\ m.proves
        /\ m.endsAll = q.endsAll /\ m.new.deleted = q.new.deleted
    BY <2>3, Built DEF IInv, Alike
  <2>5. r = [m EXCEPT !.subject = g, !.new.name = IF @ = 0 THEN 1 ELSE @]
    BY <2>1
  <2> HIDE DEF m
  <2>6. /\ l \in Request /\ l.account = m.account /\ l.code = 0 /\ l.ticket = 0 /\ l.proves
        /\ l.endsAll = m.endsAll /\ l.new = m.new
    BY <2>4 DEF Request
  <2>7. r = [l EXCEPT !.new.name = IF @ = 0 THEN 1 ELSE @]
    BY <2>4, <2>5 DEF Request
  <2> HIDE DEF l
  <2>8. /\ r \in Request /\ r.account = l.account /\ r.code = 0 /\ r.ticket = 0
        /\ r.proves = l.proves /\ r.endsAll = l.endsAll /\ r.new.deleted = l.new.deleted
    BY <2>6, <2>7, NamedType
  <2> QED BY <2>3, <2>4, <2>6, <2>8
<1> QED BY <1>1, <1>2

LEMMA GoogleCallbackStep ==
    ASSUME IInv, SignInAssumption, NEW s \in Sessions, NEW t \in tickets,
           NEW g \in Subjects, NEW b \in BOOLEAN, GoogleCallback(s, t, g, b)
    PROVE  IInv'
<1>1. /\ UNCHANGED <<tables, cooling, scenario, memory>> /\ challenged' = challenged
      /\ MayCall(s, "google") /\ GetDel(t)
  BY DEF GoogleCallback
<1>2. CASE UNCHANGED txn
  <2>1. tickets' \subseteq tickets
    BY <1>1 DEF GetDel
  <2> QED BY <1>1, <1>2, <2>1, NoRequestStep
<1>3. ASSUME NEW r \in link_or_create_google_user(g, b),
             Starts(s, [issue_token_pair(r) EXCEPT !.ticket = t.id])
      PROVE  IInv'
  <2>1. /\ r \in Request /\ r.account \in Accounts /\ r.code = 0
        /\ r.proves \/ r.account \in proved
        /\ ~r.endsAll
        /\ ~scenario.overlap => ~account[r.account].deleted /\ ~r.new.deleted
    BY <1>3, Linked
  <2> DEFINE q == issue_token_pair(r)
             v == [q EXCEPT !.ticket = t.id]
  <2>2. /\ q \in Request /\ q.account = r.account /\ q.code = 0 /\ q.proves = r.proves
        /\ q.endsAll = r.endsAll /\ q.born = endings[r.account] /\ q.new = r.new
    BY <2>1, Built DEF IInv, Alike
  <2> HIDE DEF q
  <2>3. t.id \in 0..MaxTickets
    BY SignInAssumption DEF IInv, Typed, TypeOK, Ticket
  <2>4. /\ v \in Request /\ v.account = r.account /\ v.code = 0 /\ v.ticket = t.id
        /\ v.proves = r.proves /\ v.endsAll = r.endsAll /\ v.born = endings[r.account]
        /\ v.new = r.new
    BY <2>2, <2>3 DEF Request
  <2>5. Vouched(v, proved) /\ (~scenario.overlap => Renewed(v, codes, endings, account))
    BY <2>1, <2>4 DEF Vouched, Renewed
  <2>6. Starts(s, v)
    BY <1>3 DEF q
  <2> HIDE DEF v
  <2> QED BY <1>1, <2>4, <2>5, <2>6, RedeemStep
<1> QED BY <1>2, <1>3 DEF GoogleCallback

(***************************************************************************)
(* Commit and rollback                                                     *)
(***************************************************************************)
\* One row of `otp_codes` is written; a number that has no row writes none.
LEMMA RowWritten ==
    ASSUME NEW cs \in Seq(OtpCode), NEW k, NEW row, k \in DOMAIN cs => row \in OtpCode
    PROVE  /\ [cs EXCEPT ![k] = row] \in Seq(OtpCode)
           /\ Len([cs EXCEPT ![k] = row]) = Len(cs)
           /\ DOMAIN [cs EXCEPT ![k] = row] = DOMAIN cs
           /\ \A c \in DOMAIN cs : [cs EXCEPT ![k] = row][c] = IF c = k THEN row ELSE cs[c]
<1> DEFINE w == [cs EXCEPT ![k] = row]
<1>1. /\ DOMAIN w = 1..Len(cs) /\ Len(cs) \in Nat
      /\ \A c \in 1..Len(cs) : w[c] = IF c = k THEN row ELSE cs[c]
  OBVIOUS
<1>2. w = [c \in 1..Len(cs) |-> w[c]] /\ \A c \in 1..Len(cs) : w[c] \in OtpCode
  <2>1. w = [c \in 1..Len(cs) |-> w[c]]
    OBVIOUS
  <2>2. ASSUME NEW c \in 1..Len(cs) PROVE w[c] \in OtpCode
    <3>1. cs[c] \in OtpCode /\ w[c] = IF c = k THEN row ELSE cs[c]
      BY <1>1
    <3>2. DOMAIN cs = 1..Len(cs)
      OBVIOUS
    <3> HIDE DEF w
    <3> QED BY <3>1, <3>2
  <2> QED BY <2>1, <2>2
<1>3. w \in Seq(OtpCode) /\ Len(w) = Len(cs)
  <2> HIDE DEF w
  <2> QED BY <1>1, <1>2
<1> QED BY <1>1, <1>3

\* The UPDATE of a user row leaves a user row, with a password it had or was given,
\* deleted when it was or is now.
LEMMA FlushedType ==
    ASSUME NEW row \in User, NEW r \in Request
    PROVE  /\ Flushed(row, r) \in User
           /\ Flushed(row, r).password \in {row.password, r.new.password}
           /\ Flushed(row, r).deleted \in {row.deleted, r.new.deleted}
<1>1. r.new \in User /\ r.seen \in User
  BY DEF Request
<1>2. DOMAIN row = {"used", "email", "verified", "password", "name", "totp", "pending",
                    "biometrics", "active", "deleted"}
  BY DEF User
<1> DEFINE w == Flushed(row, r)
<1>3. /\ DOMAIN w = DOMAIN row
      /\ \A c \in DOMAIN row : w[c] = IF r.new[c] # r.seen[c] THEN r.new[c] ELSE row[c]
  BY DEF Flushed
<1>4. w = [used |-> w.used, email |-> w.email, verified |-> w.verified,
           password |-> w.password, name |-> w.name, totp |-> w.totp,
           pending |-> w.pending, biometrics |-> w.biometrics, active |-> w.active,
           deleted |-> w.deleted]
  BY <1>2 DEF Flushed
<1>5. /\ w.used \in BOOLEAN /\ w.email \in Identifiers \cup {None} /\ w.verified \in BOOLEAN
      /\ w.password \in 0..2 /\ w.name \in 0..2 /\ w.totp \in BOOLEAN /\ w.pending \in 0..2
      /\ w.biometrics \in BOOLEAN /\ w.active \in BOOLEAN /\ w.deleted \in BOOLEAN
  BY <1>1, <1>2, <1>3 DEF User
<1>6. w.password \in {row.password, r.new.password} /\ w.deleted \in {row.deleted, r.new.deleted}
  BY <1>2, <1>3
<1> HIDE DEF w
<1>7. w \in User
  BY <1>4, <1>5 DEF User
<1> QED BY <1>6, <1>7 DEF w

\* Token t as request r leaves it, x: it is whose it was, and live only when it was and
\* r does not end all sessions of its account.
Continues(x, t, r) ==
    /\ t \in DOMAIN tokens
    /\ x.account = tokens[t].account /\ x.born = tokens[t].born /\ x.gone = tokens[t].gone
    /\ x.live => tokens[t].live /\ ~(r.endsAll /\ tokens[t].account = r.account)

\* Tokens are revoked and one may be inserted; whose they are does not change.
LEMMA TokensType ==
    ASSUME Typed, SignInAssumption, NEW r \in Request, r.opens => r.account \in Accounts,
           r.opens => Len(tokens) < MaxTokens
    PROVE  /\ TokensWritten(r) \in Seq(RefreshToken)
           /\ Len(TokensWritten(r)) <= MaxTokens
           /\ \A t \in DOMAIN TokensWritten(r) :
                 \/ Continues(TokensWritten(r)[t], t, r)
                 \/ /\ r.opens /\ TokensWritten(r)[t].account = r.account
                    /\ TokensWritten(r)[t].born = r.born
<1> DEFINE left == [t \in DOMAIN tokens |->
                      IF Revoked(r, t) THEN [tokens[t] EXCEPT !.live = FALSE] ELSE tokens[t]]
           new == [account |-> r.account, live |-> TRUE, gone |-> FALSE, born |-> r.born]
<1>1. tokens \in Seq(RefreshToken) /\ Len(tokens) \in Nat /\ DOMAIN tokens = 1..Len(tokens)
  BY DEF Typed, TypeOK
<1>2. Len(tokens) <= MaxTokens /\ MaxTokens \in Nat
  BY SignInAssumption DEF Typed
<1>3. ASSUME NEW t \in DOMAIN tokens
      PROVE  left[t] \in RefreshToken /\ Continues(left[t], t, r)
  <2> DEFINE x == tokens[t]
  <2>1. x \in RefreshToken
    BY <1>1
  <2>2. left[t] = IF Revoked(r, t) THEN [x EXCEPT !.live = FALSE] ELSE x
    OBVIOUS
  <2>3. r.endsAll /\ x.account = r.account => Revoked(r, t)
    BY DEF Revoked
  <2> HIDE DEF x, left
  <2>4. /\ [x EXCEPT !.live = FALSE] \in RefreshToken /\ ~[x EXCEPT !.live = FALSE].live
        /\ [x EXCEPT !.live = FALSE].account = x.account
        /\ [x EXCEPT !.live = FALSE].born = x.born /\ [x EXCEPT !.live = FALSE].gone = x.gone
    BY <2>1 DEF RefreshToken
  <2>5. left[t] \in RefreshToken
    BY <2>1, <2>2, <2>4
  <2>6. /\ left[t].account = x.account /\ left[t].born = x.born /\ left[t].gone = x.gone
        /\ left[t].live => x.live /\ ~(r.endsAll /\ x.account = r.account)
    BY <2>2, <2>3, <2>4
  <2> QED BY <2>5, <2>6 DEF Continues, x
<1>4. /\ left \in Seq(RefreshToken) /\ Len(left) = Len(tokens) /\ DOMAIN left = DOMAIN tokens
  BY <1>1, <1>3
<1>5. TokensWritten(r) = IF r.opens THEN Append(left, new) ELSE left
  BY DEF TokensWritten
<1>6. CASE ~r.opens
  BY <1>2, <1>3, <1>4, <1>5, <1>6
<1>7. CASE r.opens
  <2>1. new \in RefreshToken /\ new.account = r.account /\ new.born = r.born
    BY <1>7 DEF RefreshToken, Request
  <2> HIDE DEF left, new
  <2>2. /\ Append(left, new) \in Seq(RefreshToken)
        /\ Len(Append(left, new)) = Len(left) + 1
        /\ \A t \in 1..Len(left) : Append(left, new)[t] = left[t]
        /\ Append(left, new)[Len(left) + 1] = new
        /\ DOMAIN Append(left, new) = 1..Len(left) + 1
    BY <1>4, <2>1
  <2>3. Len(left) + 1 <= MaxTokens
    BY <1>1, <1>2, <1>4, <1>7
  <2>4. \A t \in 1..Len(left) + 1 : t = Len(left) + 1 \/ t \in 1..Len(left)
    BY <1>1, <1>4
  <2> QED BY <1>1, <1>3, <1>4, <1>5, <1>7, <2>1, <2>2, <2>3, <2>4
<1> QED BY <1>6, <1>7

LEMMA CommitStep ==
    ASSUME IInv, SignInAssumption, NEW s \in Sessions, Commit(s)
    PROVE  IInv'
<1> DEFINE r == txn[s]
<1>1. /\ r \in Request /\ r # None /\ Writable(r) /\ Vouched(r, proved)
      /\ txn' = [txn EXCEPT ![s] = None] /\ txn \in [Sessions -> Request \cup {None}]
      /\ account' = IF r.account = 0 THEN account
                    ELSE [account EXCEPT ![r.account] = Flushed(@, r)]
      /\ codes' = IF r.code = 0 THEN codes ELSE [codes EXCEPT ![r.code] = CodeWritten(@, r)]
      /\ tokens' = TokensWritten(r)
      /\ keys' = IF r.account = 0 THEN keys
                 ELSE [keys EXCEPT ![r.account] = [d \in Devices |-> KeyWritten(r, d)]]
      /\ links' = IF r.subject = None THEN links ELSE [links EXCEPT ![r.subject] = r.account]
      /\ endings' = IF EndsSessions(r) THEN [endings EXCEPT ![r.account] = @ + 1] ELSE endings
      /\ proved' = IF r.proves THEN proved \cup {r.account} ELSE proved
      /\ uses' = IF r.code # 0 /\ r.account # 0 /\ r.writes # "insert"
                 THEN [uses EXCEPT ![r.code] = @ + 1] ELSE uses
      /\ misses' = IF r.code # 0 /\ r.account = 0 /\ r.writes = "attempts"
                   THEN [misses EXCEPT ![r.code] = @ + 1] ELSE misses
      /\ redeemed' = IF r.ticket = 0 THEN redeemed ELSE [redeemed EXCEPT ![r.ticket] = @ + 1]
      /\ UNCHANGED <<cooling, tickets, challenged, scenario>>
  BY DEF Commit, IInv, Typed, TypeOK, Entered
<1> HIDE DEF r
<1>2. \A q \in Sessions : txn'[q] # None => q # s /\ txn'[q] = txn[q]
  BY <1>1
<1>3. /\ Typed /\ proved \subseteq proved' /\ (r.proves => r.account \in proved')
      /\ proved' \subseteq Accounts
  BY <1>1 DEF Vouched, IInv, Typed, TypeOK
<1>4. /\ account' \in [Accounts -> User]
      /\ \A a \in Accounts : account'[a].password # 0 => a \in proved'
  <2>1. /\ account \in [Accounts -> User]
        /\ \A a \in Accounts : account[a].password # 0 => a \in proved
    BY DEF IInv, Entered, Typed, TypeOK
  <2>2. CASE r.account \in Accounts /\ r.account # 0
    <3> DEFINE row == Flushed(account[r.account], r)
    <3>1. row \in User /\ row.password \in {account[r.account].password, r.new.password}
      BY <1>1, <2>1, <2>2, FlushedType
    <3>2. row.password # 0 => r.account \in proved'
      BY <1>1, <1>3, <2>1, <2>2, <3>1 DEF Vouched
    <3>3. account' = [account EXCEPT ![r.account] = row]
      BY <1>1, <2>2
    <3> HIDE DEF row
    <3> QED BY <1>3, <2>1, <3>1, <3>2, <3>3
  <2>3. CASE r.account = 0
    BY <1>1, <1>3, <2>1, <2>3
  <2>4. r.account = 0 \/ (r.account \in Accounts /\ r.account # 0)
    BY <1>1, SignInAssumption DEF Request, Accounts
  <2> QED BY <2>2, <2>3, <2>4
<1>5. /\ tokens' \in Seq(RefreshToken) /\ Len(tokens') <= MaxTokens
      /\ \A t \in DOMAIN tokens' : tokens'[t].account \in proved'
  <2>1. /\ r.opens => r.account \in Accounts /\ (r.proves \/ r.account \in proved)
        /\ r.opens => Len(tokens) < MaxTokens
    BY <1>1 DEF Vouched, Writable
  <2>2. /\ tokens' \in Seq(RefreshToken) /\ Len(tokens') <= MaxTokens
        /\ \A t \in DOMAIN tokens' :
              \/ Continues(tokens'[t], t, r)
              \/ r.opens /\ tokens'[t].account = r.account
    BY <1>1, <1>3, <2>1, TokensType
  <2> QED BY <1>3, <2>1, <2>2 DEF IInv, Entered, Continues
<1>6. /\ keys' \in BiometricCredential
      /\ \A a \in Accounts, d \in Devices : keys'[a][d] # -1 => a \in proved'
  <2>1. /\ keys \in [Accounts -> [Devices -> -1..MaxFailed]] /\ MaxFailed \in Nat
        /\ \A a \in Accounts, d \in Devices : keys[a][d] # -1 => a \in proved
    BY SignInAssumption DEF IInv, Entered, Typed, TypeOK, BiometricCredential
  <2>2. CASE r.account = 0
    BY <1>1, <1>3, <2>1, <2>2 DEF BiometricCredential
  <2>3. CASE r.account \in Accounts /\ r.account # 0
    <3> DEFINE row == [d \in Devices |-> KeyWritten(r, d)]
    <3>1. ASSUME NEW d \in Devices
          PROVE  KeyWritten(r, d) \in -1..MaxFailed
                 /\ (KeyWritten(r, d) # -1 => r.account \in proved')
      <4>1. keys[r.account][d] \in -1..MaxFailed
            /\ (keys[r.account][d] # -1 => r.account \in proved')
        BY <1>3, <2>1, <2>3
      <4>2. r.failed \in -1..MaxFailed
        BY <1>1, <2>1 DEF Request
      <4>3. d = r.device => r.account \in proved'
        BY <1>1, <1>3, SignInAssumption DEF Vouched
      <4> QED BY <4>1, <4>2, <4>3, <2>1 DEF KeyWritten
    <3>2. row \in [Devices -> -1..MaxFailed]
          /\ \A d \in Devices : row[d] # -1 => r.account \in proved'
      BY <3>1
    <3>3. keys' = [keys EXCEPT ![r.account] = row]
      BY <1>1, <2>3
    <3> HIDE DEF row
    <3>4. \A a \in Accounts : keys'[a] = IF a = r.account THEN row ELSE keys[a]
      BY <2>1, <3>3
    <3>5. keys' \in [Accounts -> [Devices -> -1..MaxFailed]]
      BY <2>1, <3>2, <3>3
    <3> QED BY <1>3, <2>1, <3>2, <3>4, <3>5 DEF BiometricCredential
  <2>4. r.account = 0 \/ (r.account \in Accounts /\ r.account # 0)
    BY <1>1, SignInAssumption DEF Request, Accounts
  <2> QED BY <2>2, <2>3, <2>4
<1>7. /\ links' \in AuthIdentity
      /\ \A g \in Subjects : links'[g] # 0 => links'[g] \in proved'
  <2>1. /\ links \in [Subjects -> 0..MaxAccounts]
        /\ \A g \in Subjects : links[g] # 0 => links[g] \in proved
    BY DEF IInv, Entered, Typed, TypeOK, AuthIdentity
  <2>2. r.account \in 0..MaxAccounts /\ (r.subject # None => r.account \in proved')
    BY <1>1, <1>3 DEF Vouched, Request
  <2>3. CASE r.subject = None
    BY <1>1, <1>3, <2>1, <2>3 DEF AuthIdentity
  <2>4. CASE r.subject # None
    <3>1. links' = [links EXCEPT ![r.subject] = r.account]
      BY <1>1, <2>4
    <3>2. links' \in [Subjects -> 0..MaxAccounts]
      BY <2>1, <2>2, <3>1
    <3>3. \A g \in Subjects : links'[g] = IF g = r.subject THEN r.account ELSE links[g]
      BY <2>1, <3>1
    <3> QED BY <1>3, <2>1, <2>2, <2>4, <3>2, <3>3 DEF AuthIdentity
  <2> QED BY <2>3, <2>4
<1>8. /\ codes' \in Seq(OtpCode) /\ Len(codes') = Len(codes)
      /\ DOMAIN codes' = DOMAIN codes
      /\ \A c \in DOMAIN codes : codes'[c] = IF c = r.code THEN CodeWritten(codes[c], r)
                                                           ELSE codes[c]
  <2>1. codes \in Seq(OtpCode) /\ 0 \notin DOMAIN codes
    BY DEF IInv, Typed, TypeOK
  <2>2. CASE r.code = 0
    BY <1>1, <2>1, <2>2
  <2>3. CASE r.code # 0
    <3> DEFINE row == CodeWritten(codes[r.code], r)
    <3>1. codes' = [codes EXCEPT ![r.code] = row]
      BY <1>1, <2>3
    <3>2. ASSUME r.code \in DOMAIN codes PROVE row \in OtpCode
      <4>1. /\ codes[r.code] \in OtpCode /\ r.attempts \in Nat
            /\ r.writes \in {"insert", "attempts", "consumed_at"}
        BY <1>1, <2>1, <3>2, SMTT(20) DEF Request
      <4> QED BY <4>1 DEF CodeWritten, OtpCode
    <3> HIDE DEF row
    <3>3. /\ codes' \in Seq(OtpCode) /\ Len(codes') = Len(codes)
          /\ DOMAIN codes' = DOMAIN codes
          /\ \A c \in DOMAIN codes : codes'[c] = IF c = r.code THEN row ELSE codes[c]
      BY <2>1, <3>1, <3>2, RowWritten
    <3> QED BY <3>3 DEF row
  <2> QED BY <2>2, <2>3
<1>9. /\ endings' \in [Accounts -> Nat] /\ uses' \in [1..MaxCodes -> Nat]
      /\ misses' \in [1..MaxCodes -> Nat]
  <2>1. /\ endings \in [Accounts -> Nat] /\ uses \in [1..MaxCodes -> Nat]
        /\ misses \in [1..MaxCodes -> Nat]
    BY DEF IInv, Typed, TypeOK
  <2>2. ASSUME NEW S, NEW f \in [S -> Nat], NEW k
        PROVE  [f EXCEPT ![k] = @ + 1] \in [S -> Nat]
    <3>1. CASE k \in S
      BY <3>1
    <3>2. CASE k \notin S
      <4>1. [f EXCEPT ![k] = @ + 1] = f
        BY <3>2
      <4> QED BY <4>1
    <3> QED BY <3>1, <3>2
  <2>3. endings' \in [Accounts -> Nat]
    BY <1>1, <2>1, <2>2
  <2>4. uses' \in [1..MaxCodes -> Nat]
    BY <1>1, <2>1, <2>2
  <2>5. misses' \in [1..MaxCodes -> Nat]
    BY <1>1, <2>1, <2>2
  <2> QED BY <2>3, <2>4, <2>5
<1>10. Typed'
  <2>1. txn' \in [Sessions -> Request \cup {None}]
    BY <1>1
  <2>2. Len(codes') <= MaxCodes /\ tickets' \subseteq Ticket /\ challenged' \subseteq Accounts
        /\ cooling' \subseteq Identifiers \X Purposes /\ scenario' \in Scenarios
    BY <1>1, <1>3, <1>8 DEF Typed, TypeOK
  <2> QED BY <1>3, <1>4, <1>5, <1>6, <1>7, <1>8, <1>9, <2>1, <2>2 DEF Typed, TypeOK
<1>11. Entered'
  <2>1. challenged' \subseteq proved'
    BY <1>1, <1>3 DEF IInv, Entered
  <2>2. \A q \in Sessions : txn'[q] # None => Vouched(txn'[q], proved')
    BY <1>2, <1>3 DEF IInv, Entered, Vouched
  <2> QED BY <1>4, <1>5, <1>6, <1>7, <2>1, <2>2 DEF Entered
<1>12. OnePlace'
  <2>1. redeemed' \in [1..MaxTickets -> {0, 1}]
        /\ \A n \in 1..MaxTickets : n # r.ticket => redeemed'[n] = redeemed[n]
    <3>1. /\ redeemed \in [1..MaxTickets -> {0, 1}]
          /\ r.ticket # 0 => redeemed[r.ticket] = 0
      BY <1>1 DEF IInv, OnePlace, r
    <3>2. CASE r.ticket = 0
      BY <1>1, <3>1, <3>2
    <3>3. CASE r.ticket # 0
      <4>1. redeemed' = [redeemed EXCEPT ![r.ticket] = redeemed[r.ticket] + 1]
        BY <1>1, <3>3
      <4>2. redeemed[r.ticket] + 1 = 1
        BY <3>1, <3>3
      <4>3. redeemed' = [redeemed EXCEPT ![r.ticket] = 1]
        BY <4>1, <4>2, Zenon
      <4> QED BY <3>1, <4>3
    <3> QED BY <3>2, <3>3
  <2>2. ASSUME NEW t \in tickets'
        PROVE  /\ redeemed'[t.id] = 0
               /\ \A q \in Sessions : txn'[q] # None => txn'[q].ticket # t.id
    <3>1. t \in tickets /\ t.id \in 1..MaxTickets /\ redeemed[t.id] = 0 /\ r.ticket # t.id
      BY <1>1 DEF IInv, OnePlace, Typed, TypeOK, Ticket, r
    <3>2. \A q \in Sessions : txn[q] # None => txn[q].ticket # t.id
      BY <3>1 DEF IInv, OnePlace
    <3> QED BY <1>2, <2>1, <3>1, <3>2
  <2>3. ASSUME NEW q \in Sessions, txn'[q] # None, txn'[q].ticket # 0
        PROVE  redeemed'[txn'[q].ticket] = 0
    <3>1. q # s /\ txn'[q] = txn[q] /\ txn[q] \in Request
      BY <1>1, <1>2, <2>3
    <3>2. redeemed[txn[q].ticket] = 0 /\ txn[q].ticket # r.ticket
      BY <1>1, <2>3, <3>1 DEF IInv, OnePlace, r
    <3>3. txn[q].ticket \in 1..MaxTickets
      BY <2>3, <3>1, SignInAssumption DEF Request
    <3> QED BY <2>1, <3>1, <3>2, <3>3
  <2>4. \A t, u \in tickets' : t.id = u.id => t = u
    BY <1>1 DEF IInv, OnePlace
  <2>5. \A q, p \in Sessions : txn'[q] # None /\ txn'[p] # None /\ txn'[q].ticket # 0
                               /\ txn'[q].ticket = txn'[p].ticket => q = p
    BY <1>2 DEF IInv, OnePlace
  <2> QED BY <2>1, <2>2, <2>3, <2>4, <2>5 DEF OnePlace
<1>13. Orderly'
  <2> SUFFICES ASSUME ~scenario'.overlap PROVE Orderly'
    BY DEF Orderly
  <2>1. /\ \A q \in Sessions : txn'[q] = None
        /\ Tallied(r, codes) /\ \A c \in 1..MaxCodes : Budgeted(c)
    BY <1>1, <1>2 DEF IInv, Orderly, r
  <2>2. ASSUME NEW c \in 1..MaxCodes PROVE Budgeted(c)'
    <3>1. /\ uses \in [1..MaxCodes -> Nat] /\ misses \in [1..MaxCodes -> Nat] /\ Budgeted(c)
          /\ DOMAIN codes' = DOMAIN codes
      BY <1>8, <2>1 DEF IInv, Typed, TypeOK
    <3>2. CASE c # r.code
      <4>1. uses'[c] = uses[c] /\ misses'[c] = misses[c]
            /\ (c \in DOMAIN codes => codes'[c] = codes[c])
        BY <1>1, <1>8, <3>1, <3>2
      <4> QED BY <3>1, <4>1 DEF Budgeted
    <3>3. CASE c = r.code
      <4>1. /\ c \in DOMAIN codes /\ codes'[c] = CodeWritten(codes[c], r) /\ c # 0
            /\ codes[c] \in OtpCode /\ uses[c] \in Nat /\ misses[c] \in Nat
            /\ misses[c] = codes[c].attempts /\ misses[c] <= MaxAttempts /\ uses[c] \in {0, 1}
            /\ (codes[c].state \in {"unborn", "open", "expired"} => uses[c] = 0)
        BY <1>8, <2>1, <3>1, <3>3 DEF Tallied, Budgeted, IInv, Typed, TypeOK
      <4>2. CASE r.writes = "insert"
        <5>1. uses' = uses /\ misses' = misses /\ codes[c].state = "unborn"
          BY <1>1, <2>1, <3>3, <4>1, <4>2 DEF Tallied
        <5>2. codes'[c].attempts = codes[c].attempts
          BY <4>1, <4>2 DEF CodeWritten, OtpCode
        <5> QED BY <3>1, <4>1, <5>1, <5>2 DEF Budgeted
      <4>3. CASE r.writes = "attempts"
        <5>1. /\ uses' = uses /\ misses'[c] = misses[c] + 1
              /\ r.attempts = codes[c].attempts + 1 /\ r.attempts <= MaxAttempts
              /\ codes[c].state \in {"open", "expired"}
          BY <1>1, <2>1, <3>1, <3>3, <4>1, <4>3 DEF Tallied
        <5>2. codes'[c].attempts = r.attempts /\ codes'[c].state = codes[c].state
          BY <4>1, <4>3 DEF CodeWritten, OtpCode
        <5> QED BY <3>1, <4>1, <5>1, <5>2 DEF Budgeted
      <4>4. CASE r.writes = "consumed_at"
        <5>1. misses' = misses /\ uses'[c] \in {0, 1}
          <6>1. uses[c] = 0
            BY <2>1, <3>3, <4>1, <4>4 DEF Tallied
          <6> QED BY <1>1, <3>1, <3>3, <4>4, <6>1
        <5>2. codes'[c].attempts = codes[c].attempts /\ codes'[c].state = "consumed"
          BY <4>1, <4>4 DEF CodeWritten, OtpCode
        <5> QED BY <3>1, <4>1, <5>1, <5>2 DEF Budgeted
      <4>5. r.writes \in {"insert", "attempts", "consumed_at"}
        BY <1>1 DEF Request
      <4> QED BY <4>2, <4>3, <4>4, <4>5
    <3> QED BY <3>2, <3>3
  <2> QED BY <2>1, <2>2 DEF Orderly
<1>14. /\ r.account = 0 \/ (r.account \in Accounts /\ r.account # 0)
       /\ r.opens \/ r.subject # None => r.account # 0
  BY <1>1, SignInAssumption DEF Request, Accounts, Vouched
<1>15. \A t \in DOMAIN tokens' :
          \/ Continues(tokens'[t], t, r)
          \/ r.opens /\ tokens'[t].account = r.account /\ tokens'[t].born = r.born
  <2>1. (r.opens => r.account \in Accounts) /\ (r.opens => Len(tokens) < MaxTokens)
    BY <1>1 DEF Vouched, Writable
  <2> QED BY <1>1, <1>3, <2>1, TokensType
<1>16. ~scenario.overlap => Renewed(r, codes, endings, account)
  BY <1>1 DEF IInv, Orderly, r
<1>17. SessionsEndInTurn'
  <2> SUFFICES ASSUME ~scenario.overlap, NEW t \in DOMAIN tokens', tokens'[t].live
               PROVE  tokens'[t].born = endings'[tokens'[t].account]
    BY <1>1 DEF SessionsEndInTurn
  <2>1. /\ endings \in [Accounts -> Nat]
        /\ EndsSessions(r) => r.endsAll
        /\ r.opens => r.born = endings[r.account] /\ ~r.endsAll
    BY <1>16 DEF IInv, Typed, TypeOK, EndsSessions, Renewed
  <2>2. CASE Continues(tokens'[t], t, r)
    <3>1. /\ tokens[t].born = endings[tokens[t].account]
          /\ ~(r.endsAll /\ tokens[t].account = r.account)
      BY <2>2 DEF Continues, IInv, SessionsEndInTurn
    <3> DEFINE a == tokens[t].account
    <3> HIDE DEF a
    <3>2. endings'[a] = endings[a]
      <4>1. CASE ~EndsSessions(r)
        <5>1. endings' = endings
          BY <1>1, <4>1
        <5> QED BY <5>1
      <4>2. CASE EndsSessions(r)
        <5>1. a # r.account
          BY <2>1, <3>1, <4>2 DEF a
        <5>2. endings' = [endings EXCEPT ![r.account] = @ + 1]
          BY <1>1, <4>2
        <5>3. a \in Accounts
          <6>1. t \in DOMAIN tokens /\ tokens \in Seq(RefreshToken)
            BY <2>2 DEF Continues, IInv, Typed, TypeOK
          <6>2. tokens[t] \in RefreshToken
            BY <6>1
          <6> QED BY <6>2 DEF a, RefreshToken
        <5> QED BY <2>1, <5>1, <5>2, <5>3
      <4> QED BY <4>1, <4>2
    <3> QED BY <2>2, <3>1, <3>2 DEF Continues, a
  <2>3. CASE r.opens /\ tokens'[t].account = r.account /\ tokens'[t].born = r.born
    <3>1. endings' = endings
      BY <1>1, <2>1, <2>3
    <3> QED BY <2>1, <2>3, <3>1
  <2> QED BY <1>15, <2>2, <2>3
<1>18. DeletedIsBlank'
  <2> SUFFICES ASSUME ~scenario.overlap, NEW a \in Accounts, account'[a].deleted
               PROVE  /\ account'[a] = _wipe_user(account'[a])
                      /\ \A g \in Subjects : links'[g] # a
                      /\ \A d \in Devices : keys'[a][d] = -1
                      /\ \A t \in DOMAIN tokens' : tokens'[t].account = a => tokens'[t].gone
    BY <1>1 DEF DeletedIsBlank
  <2>1. r.account # a
    <3> SUFFICES ASSUME r.account = a PROVE FALSE
      OBVIOUS
    <3>1. ~account[a].deleted /\ ~r.new.deleted /\ a # 0 /\ account[a] \in User
      <4>1. r.account # 0 /\ a \in Accounts
        BY <1>14, SignInAssumption DEF Accounts
      <4>2. account[a] \in User
        BY <4>1 DEF IInv, Typed, TypeOK
      <4> QED BY <1>16, <4>1, <4>2 DEF Renewed
    <3>2. account'[a] = Flushed(account[a], r)
      BY <1>1, <3>1 DEF IInv, Typed, TypeOK
    <3> QED BY <1>1, <3>1, <3>2, FlushedType
  <2>2. account'[a] = account[a] /\ keys'[a] = keys[a]
    BY <1>1, <2>1 DEF IInv, Typed, TypeOK, BiometricCredential
  <2>3. /\ account[a] = _wipe_user(account[a])
        /\ \A g \in Subjects : links[g] # a
        /\ \A d \in Devices : keys[a][d] = -1
        /\ \A t \in DOMAIN tokens : tokens[t].account = a => tokens[t].gone
    BY <2>2 DEF IInv, DeletedIsBlank
  <2>4. \A g \in Subjects : links'[g] # a
    BY <1>1, <2>1, <2>3 DEF IInv, Typed, TypeOK, AuthIdentity
  <2>5. \A t \in DOMAIN tokens' : tokens'[t].account = a => tokens'[t].gone
    BY <1>15, <2>1, <2>3 DEF Continues
  <2> QED BY <2>2, <2>3, <2>4, <2>5
<1> QED BY <1>10, <1>11, <1>12, <1>13, <1>17, <1>18 DEF IInv

\* What a rollback leaves, an expiry and a wipe: codes are rewritten, and no open
\* request has one unless requests overlap.
LEMMA CodesStep ==
    ASSUME IInv, SignInAssumption,
           codes' \in Seq(OtpCode), Len(codes') = Len(codes),
           \A c \in DOMAIN codes : /\ codes'[c].attempts = codes[c].attempts
                                   /\ codes'[c].state \in {codes[c].state, "expired", "deleted"}
                                   /\ codes'[c].state = "expired" =>
                                         codes[c].state \in {"open", "expired"},
           UNCHANGED <<uses, misses, scenario>>,
           \A s \in Sessions : txn'[s] # None => txn'[s] = txn[s],
           ~scenario.overlap =>
               \A s \in Sessions : txn'[s] # None =>
                   Tallied(txn'[s], codes') /\ Renewed(txn'[s], codes', endings', account')
    PROVE  Orderly'
<1> SUFFICES ASSUME ~scenario.overlap PROVE Orderly'
  BY DEF Orderly
<1>1. \A s, q \in Sessions : txn'[s] # None /\ txn'[q] # None => s = q
  BY DEF IInv, Orderly
<1>2. DOMAIN codes' = DOMAIN codes
  BY DEF IInv, Typed, TypeOK
<1>3. ASSUME NEW c \in 1..MaxCodes PROVE Budgeted(c)'
  <2>1. Budgeted(c)
    BY DEF IInv, Orderly
  <2> QED BY <1>2, <2>1 DEF Budgeted
<1> QED BY <1>1, <1>3 DEF Orderly

LEMMA AbortStep ==
    ASSUME IInv, SignInAssumption, NEW s \in Sessions, Abort(s)
    PROVE  IInv'
<1> DEFINE r == txn[s]
<1>1. /\ r \in Request /\ r # None
      /\ txn' = [txn EXCEPT ![s] = None] /\ txn \in [Sessions -> Request \cup {None}]
      /\ codes' = IF r.writes = "insert" THEN [codes EXCEPT ![r.code].state = "deleted"]
                  ELSE codes
      /\ UNCHANGED <<account, tokens, keys, links, cooling, tickets, challenged, scenario>>
      /\ UNCHANGED <<endings, proved, uses, misses, redeemed>>
      /\ codes \in Seq(OtpCode)
  BY DEF Abort, IInv, Typed, TypeOK, memory
<1> HIDE DEF r
<1>2. \A q \in Sessions : txn'[q] # None => q # s /\ txn'[q] = txn[q]
  BY <1>1
<1>3. /\ codes' \in Seq(OtpCode) /\ Len(codes') = Len(codes)
      /\ \A c \in DOMAIN codes : codes'[c].attempts = codes[c].attempts
                                 /\ codes'[c].state \in {codes[c].state, "deleted"}
  <2>0. codes \in Seq(OtpCode)
    BY <1>1
  <2>1. CASE r.writes = "insert"
    <3> DEFINE row == [codes[r.code] EXCEPT !.state = "deleted"]
    <3>1. codes' = [codes EXCEPT ![r.code] = row]
      BY <1>1, <2>1
    <3>2. ASSUME r.code \in DOMAIN codes
          PROVE  row \in OtpCode /\ row.attempts = codes[r.code].attempts
                 /\ row.state = "deleted"
      <4>1. codes[r.code] \in OtpCode
        BY <1>1, <3>2
      <4> QED BY <4>1 DEF OtpCode
    <3> HIDE DEF row
    <3>3. /\ codes' \in Seq(OtpCode) /\ Len(codes') = Len(codes)
          /\ \A c \in DOMAIN codes : codes'[c] = IF c = r.code THEN row ELSE codes[c]
      BY <2>0, <3>1, <3>2, RowWritten
    <3> QED BY <3>2, <3>3
  <2>2. CASE r.writes # "insert"
    BY <1>1, <2>2
  <2> QED BY <2>1, <2>2
<1>4. Typed'
  <2>1. txn' \in [Sessions -> Request \cup {None}]
    BY <1>1
  <2> QED BY <1>1, <1>3, <2>1 DEF IInv, Typed, TypeOK
<1>5. Entered'
  BY <1>1, <1>2 DEF IInv, Entered
<1>6. OnePlace'
  BY <1>1, <1>2 DEF IInv, OnePlace
<1>7. Orderly'
  <2>1. ~scenario.overlap => \A q \in Sessions : txn'[q] = None
    BY <1>1, <1>2 DEF IInv, Orderly, r
  <2> QED BY <1>1, <1>2, <1>3, <2>1, CodesStep
<1>8. SessionsEndInTurn' /\ DeletedIsBlank'
  BY <1>1 DEF IInv, SessionsEndInTurn, DeletedIsBlank
<1> QED BY <1>4, <1>5, <1>6, <1>7, <1>8 DEF IInv

LEMMA TimePassesStep ==
    ASSUME IInv, SignInAssumption, TimePasses
    PROVE  IInv'
<1>1. /\ UNCHANGED <<account, tokens, keys, links, txn, scenario>>
      /\ UNCHANGED <<endings, proved, uses, misses, redeemed>>
      /\ cooling' \subseteq cooling /\ tickets' \subseteq tickets
      /\ challenged' \subseteq challenged
  BY DEF TimePasses, memory
<1>2. /\ codes' \in Seq(OtpCode) /\ Len(codes') = Len(codes)
      /\ \A c \in DOMAIN codes :
            \/ codes'[c] = codes[c]
            \/ /\ codes'[c].attempts = codes[c].attempts /\ codes'[c].state = "expired"
               /\ codes[c].state = "open" /\ codes'[c].purpose = codes[c].purpose
  <2>1. codes \in Seq(OtpCode)
    BY DEF IInv, Typed, TypeOK
  <2>2. CASE codes' = codes
    BY <2>1, <2>2
  <2>3. ASSUME NEW k \in DOMAIN codes, codes[k].state = "open",
               codes' = [codes EXCEPT ![k].state = "expired"]
        PROVE  /\ codes' \in Seq(OtpCode) /\ Len(codes') = Len(codes)
               /\ \A c \in DOMAIN codes :
                     \/ codes'[c] = codes[c]
                     \/ /\ codes'[c].attempts = codes[c].attempts /\ codes'[c].state = "expired"
                        /\ codes[c].state = "open" /\ codes'[c].purpose = codes[c].purpose
    <3> DEFINE row == [codes[k] EXCEPT !.state = "expired"]
    <3>1. codes' = [codes EXCEPT ![k] = row]
      BY <2>3
    <3>2. /\ row \in OtpCode /\ row.attempts = codes[k].attempts /\ row.state = "expired"
          /\ row.purpose = codes[k].purpose
      <4>1. codes[k] \in OtpCode
        BY <2>1
      <4> QED BY <4>1 DEF OtpCode
    <3> HIDE DEF row
    <3>3. /\ codes' \in Seq(OtpCode) /\ Len(codes') = Len(codes)
          /\ \A c \in DOMAIN codes : codes'[c] = IF c = k THEN row ELSE codes[c]
      BY <2>1, <3>1, <3>2, RowWritten
    <3> QED BY <2>3, <3>2, <3>3
  <2> QED BY <2>2, <2>3 DEF TimePasses
<1>3. Typed'
  BY <1>1, <1>2 DEF IInv, Typed, TypeOK
<1>4. Entered'
  BY <1>1 DEF IInv, Entered
<1>5. OnePlace'
  BY <1>1 DEF IInv, OnePlace
<1>6. Orderly'
  <2>1. DOMAIN codes' = DOMAIN codes
    BY <1>2 DEF IInv, Typed, TypeOK
  <2>2. ASSUME ~scenario.overlap, NEW q \in Sessions, txn'[q] # None
        PROVE  Tallied(txn'[q], codes') /\ Renewed(txn'[q], codes', endings', account')
    <3> DEFINE r == txn[q]
    <3>1. txn'[q] = r /\ Tallied(r, codes) /\ Renewed(r, codes, endings, account)
      BY <1>1, <2>2 DEF IInv, Orderly
    <3> HIDE DEF r
    <3>2. Tallied(r, codes')
      BY <1>2, <2>1, <3>1 DEF Tallied
    <3>3. r.code # 0 => codes'[r.code].purpose = codes[r.code].purpose
      BY <1>2, <3>1 DEF Tallied
    <3>4. Renewed(r, codes', endings', account')
      BY <1>1, <3>1, <3>3 DEF Renewed
    <3> QED BY <3>1, <3>2, <3>4
  <2> QED BY <1>1, <1>2, <2>2, CodesStep
<1>7. SessionsEndInTurn' /\ DeletedIsBlank'
  BY <1>1 DEF IInv, SessionsEndInTurn, DeletedIsBlank
<1> QED BY <1>3, <1>4, <1>5, <1>6, <1>7 DEF IInv

(***************************************************************************)
(* The end of an account                                                   *)
(***************************************************************************)
LEMMA SetStatusStep ==
    ASSUME IInv, SignInAssumption, NEW a \in Accounts, NEW b \in BOOLEAN, set_status(a, b)
    PROVE  IInv'
<1>1. /\ account' = [account EXCEPT ![a].active = b]
      /\ \/ tokens' = tokens /\ endings' = endings
         \/ tokens' = TokensWritten(EndsAll(a)) /\ endings' = [endings EXCEPT ![a] = @ + 1]
      /\ UNCHANGED <<codes, keys, links, cooling, tickets, challenged, txn, scenario>>
      /\ UNCHANGED <<proved, uses, misses, redeemed>>
      /\ scenario.overlap \/ Open = {}
      /\ ~account[a].deleted
  BY DEF set_status
<1>2. /\ account \in [Accounts -> User] /\ tokens \in Seq(RefreshToken)
      /\ Len(tokens) <= MaxTokens /\ endings \in [Accounts -> Nat] /\ Typed
  BY DEF IInv, Typed, TypeOK
<1>3. /\ account' \in [Accounts -> User]
      /\ \A x \in Accounts : account'[x].password = account[x].password
      /\ \A x \in Accounts : x # a => account'[x] = account[x]
      /\ ~account'[a].deleted
  <2> DEFINE row == [account[a] EXCEPT !.active = b]
  <2>1. row \in User /\ row.password = account[a].password /\ ~row.deleted
    <3>1. account[a] \in User /\ ~account[a].deleted
      BY <1>1, <1>2
    <3> QED BY <3>1 DEF User
  <2>2. account' = [account EXCEPT ![a] = row]
    BY <1>1
  <2> HIDE DEF row
  <2> QED BY <1>2, <2>1, <2>2
<1>4. /\ tokens' \in Seq(RefreshToken) /\ Len(tokens') <= MaxTokens
      /\ \A t \in DOMAIN tokens' :
            /\ t \in DOMAIN tokens
            /\ tokens'[t].account = tokens[t].account
            /\ tokens'[t].born = tokens[t].born /\ tokens'[t].gone = tokens[t].gone
            /\ tokens'[t].live => tokens[t].live /\ (endings' = endings \/ tokens[t].account # a)
  <2>1. CASE tokens' = tokens /\ endings' = endings
    BY <1>2, <2>1
  <2>2. CASE tokens' = TokensWritten(EndsAll(a))
    <3>1. a \in 0..MaxAccounts
      BY SignInAssumption DEF Accounts
    <3> DEFINE r == EndsAll(a)
    <3>2. r \in Request /\ ~r.opens /\ r.endsAll /\ r.account = a
      <4>1. Reading(a) \in Request /\ ~Reading(a).opens /\ Reading(a).account = a
        BY <1>2, <3>1, ReadingType
      <4> QED BY <4>1 DEF EndsAll, Request
    <3> HIDE DEF r
    <3>3. /\ TokensWritten(r) \in Seq(RefreshToken) /\ Len(TokensWritten(r)) <= MaxTokens
          /\ \A t \in DOMAIN TokensWritten(r) : Continues(TokensWritten(r)[t], t, r)
      BY <1>2, <3>2, TokensType
    <3>4. tokens' = TokensWritten(r)
      BY <2>2 DEF r
    <3> QED BY <3>2, <3>3, <3>4 DEF Continues
  <2> QED BY <1>1, <2>1, <2>2
<1>5. endings' \in [Accounts -> Nat]
  BY <1>1, <1>2
<1>6. Typed'
  BY <1>1, <1>3, <1>4, <1>5 DEF IInv, Typed, TypeOK
<1>7. Entered'
  BY <1>1, <1>3, <1>4 DEF IInv, Entered
<1>8. OnePlace'
  BY <1>1 DEF IInv, OnePlace
<1>9. Orderly'
  <2> SUFFICES ASSUME ~scenario.overlap PROVE Orderly'
    BY <1>1 DEF Orderly
  <2>1. \A s \in Sessions : txn[s] = None /\ txn'[s] = None
    BY <1>1 DEF Open
  <2>2. \A c \in 1..MaxCodes : Budgeted(c)'
    BY <1>1 DEF IInv, Orderly, Budgeted
  <2> QED BY <2>1, <2>2 DEF Orderly
<1>10. SessionsEndInTurn'
  <2> SUFFICES ASSUME ~scenario.overlap, NEW t \in DOMAIN tokens', tokens'[t].live
               PROVE  tokens'[t].born = endings'[tokens'[t].account]
    BY <1>1 DEF SessionsEndInTurn
  <2>1. tokens[t].live /\ tokens[t].born = endings[tokens[t].account]
    BY <1>4 DEF IInv, SessionsEndInTurn
  <2>2. endings'[tokens[t].account] = endings[tokens[t].account]
    <3>1. CASE endings' = endings
      BY <3>1
    <3>2. CASE endings' # endings
      <4>1. endings' = [endings EXCEPT ![a] = @ + 1] /\ tokens[t].account # a
        BY <1>1, <1>4, <3>2
      <4>2. tokens[t].account \in Accounts
        <5>1. t \in DOMAIN tokens
          BY <1>4
        <5>2. tokens[t] \in RefreshToken
          BY <1>2, <5>1
        <5> QED BY <5>2 DEF RefreshToken
      <4> QED BY <1>2, <4>1, <4>2
    <3> QED BY <3>1, <3>2
  <2> QED BY <1>4, <2>1, <2>2
<1>11. DeletedIsBlank'
  BY <1>1, <1>3, <1>4 DEF IInv, DeletedIsBlank
<1> QED BY <1>6, <1>7, <1>8, <1>9, <1>10, <1>11 DEF IInv

LEMMA DeleteAccountStep ==
    ASSUME IInv, SignInAssumption, NEW a \in Accounts, delete_account(a)
    PROVE  IInv'
<1>1. /\ account' = [account EXCEPT ![a] = _wipe_user(@)]
      /\ tokens' = [t \in DOMAIN tokens |->
                       IF tokens[t].account = a
                       THEN [tokens[t] EXCEPT !.live = FALSE, !.gone = TRUE] ELSE tokens[t]]
      /\ keys' = [keys EXCEPT ![a] = [d \in Devices |-> -1]]
      /\ codes' = [c \in DOMAIN codes |->
                      IF codes[c].identifier = account[a].email /\ codes[c].state # "unborn"
                      THEN [codes[c] EXCEPT !.state = "deleted"] ELSE codes[c]]
      /\ links' = [g \in Subjects |-> IF links[g] = a THEN 0 ELSE links[g]]
      /\ scenario.overlap \/ Open = {}
  BY DEF delete_account, _delete_personal_rows
<1>2. /\ UNCHANGED <<cooling, tickets, challenged, txn, scenario>>
      /\ UNCHANGED <<endings, proved, uses, misses, redeemed>>
  BY DEF delete_account, memory
<1>3. /\ account' \in [Accounts -> User]
      /\ \A x \in Accounts : account'[x].password # 0 => x \in proved
      /\ \A x \in Accounts : x # a => account'[x] = account[x]
      /\ account'[a] = _wipe_user(account'[a])
  <2>1. /\ account \in [Accounts -> User]
        /\ \A x \in Accounts : account[x].password # 0 => x \in proved
    BY DEF IInv, Entered, Typed, TypeOK
  <2> DEFINE row == _wipe_user(account[a])
  <2>2. row \in User /\ row.password = 0
    <3>1. row = [used |-> TRUE, email |-> None, verified |-> FALSE, password |-> 0,
                 name |-> 0, totp |-> FALSE, pending |-> 0, biometrics |-> FALSE,
                 active |-> FALSE, deleted |-> TRUE]
      <4>1. row = [NoUser EXCEPT !.used = TRUE, !.active = FALSE, !.deleted = TRUE]
        BY DEF _wipe_user
      <4> HIDE DEF row
      <4> QED BY <4>1 DEF NoUser
    <3> HIDE DEF row
    <3> QED BY <3>1 DEF User
  <2>3. account' = [account EXCEPT ![a] = row]
    BY <1>1
  <2>4. _wipe_user(row) = row
    BY DEF _wipe_user
  <2> HIDE DEF row
  <2> QED BY <2>1, <2>2, <2>3, <2>4
<1>4. /\ tokens' \in Seq(RefreshToken) /\ Len(tokens') = Len(tokens)
      /\ DOMAIN tokens' = DOMAIN tokens
      /\ \A t \in DOMAIN tokens :
            /\ tokens'[t].account = tokens[t].account /\ tokens'[t].born = tokens[t].born
            /\ tokens'[t].live => tokens[t].live
            /\ tokens'[t].gone = (tokens[t].gone \/ tokens[t].account = a)
  <2>1. tokens \in Seq(RefreshToken) /\ DOMAIN tokens = 1..Len(tokens) /\ Len(tokens) \in Nat
    BY DEF IInv, Typed, TypeOK
  <2>2. ASSUME NEW t \in DOMAIN tokens
        PROVE  /\ tokens'[t] \in RefreshToken /\ tokens'[t].account = tokens[t].account
               /\ tokens'[t].born = tokens[t].born /\ (tokens'[t].live => tokens[t].live)
               /\ tokens'[t].gone = (tokens[t].gone \/ tokens[t].account = a)
    <3> DEFINE row == tokens[t]
    <3>1. row \in RefreshToken
      BY <2>1
    <3>2. tokens'[t] = IF row.account = a THEN [row EXCEPT !.live = FALSE, !.gone = TRUE]
                       ELSE row
      BY <1>1
    <3> HIDE DEF row
    <3> DEFINE wiped == [row EXCEPT !.live = FALSE, !.gone = TRUE]
    <3>3. /\ wiped \in RefreshToken /\ wiped.account = row.account
          /\ wiped.born = row.born /\ ~wiped.live /\ wiped.gone = TRUE
      BY <3>1 DEF RefreshToken
    <3>5. row.gone \in BOOLEAN
      BY <3>1 DEF RefreshToken
    <3> HIDE DEF wiped
    <3>4. tokens'[t] = IF row.account = a THEN wiped ELSE row
      BY <3>2 DEF wiped
    <3> QED BY <3>1, <3>3, <3>4, <3>5 DEF row
  <2>3. tokens' = [t \in 1..Len(tokens) |-> tokens'[t]]
    BY <1>1, <2>1
  <2> QED BY <2>1, <2>2, <2>3
<1>5. /\ codes' \in Seq(OtpCode) /\ Len(codes') = Len(codes)
      /\ \A c \in DOMAIN codes : codes'[c].attempts = codes[c].attempts
                                 /\ codes'[c].state \in {codes[c].state, "deleted"}
  <2>1. codes \in Seq(OtpCode) /\ DOMAIN codes = 1..Len(codes) /\ Len(codes) \in Nat
    BY DEF IInv, Typed, TypeOK
  <2>2. ASSUME NEW c \in DOMAIN codes
        PROVE  codes'[c] \in OtpCode /\ codes'[c].attempts = codes[c].attempts
               /\ codes'[c].state \in {codes[c].state, "deleted"}
    <3> DEFINE row == codes[c]
    <3>1. row \in OtpCode
      BY <2>1
    <3>2. codes'[c] \in {row, [row EXCEPT !.state = "deleted"]}
      BY <1>1
    <3> HIDE DEF row
    <3>3. /\ [row EXCEPT !.state = "deleted"] \in OtpCode
          /\ [row EXCEPT !.state = "deleted"].attempts = row.attempts
          /\ [row EXCEPT !.state = "deleted"].state = "deleted"
      BY <3>1 DEF OtpCode
    <3> QED BY <3>1, <3>2, <3>3 DEF row
  <2>3. codes' = [c \in 1..Len(codes) |-> codes'[c]]
    BY <1>1, <2>1
  <2> QED BY <2>1, <2>2, <2>3
<1>6. /\ keys' \in BiometricCredential
      /\ \A x \in Accounts, d \in Devices : keys'[x][d] # -1 => x \in proved
  <2>1. /\ keys \in [Accounts -> [Devices -> -1..MaxFailed]] /\ -1 \in -1..MaxFailed
        /\ \A x \in Accounts, d \in Devices : keys[x][d] # -1 => x \in proved
    BY SignInAssumption DEF IInv, Entered, Typed, TypeOK, BiometricCredential
  <2> DEFINE row == [d \in Devices |-> -1]
  <2>2. row \in [Devices -> -1..MaxFailed] /\ \A d \in Devices : row[d] = -1
    BY <2>1
  <2>3. keys' = [keys EXCEPT ![a] = row]
    BY <1>1
  <2> HIDE DEF row
  <2> QED BY <2>1, <2>2, <2>3 DEF BiometricCredential
<1>7. /\ links' \in AuthIdentity
      /\ \A g \in Subjects : links'[g] # 0 => links'[g] \in proved
  <2>1. /\ links \in [Subjects -> 0..MaxAccounts] /\ MaxAccounts \in Nat
        /\ \A g \in Subjects : links[g] # 0 => links[g] \in proved
    BY SignInAssumption DEF IInv, Entered, Typed, TypeOK, AuthIdentity
  <2>2. \A g \in Subjects : links'[g] \in {0, links[g]}
    BY <1>1
  <2>3. links' = [g \in Subjects |-> links'[g]]
    BY <1>1
  <2> QED BY <2>1, <2>2, <2>3 DEF AuthIdentity
<1>8. Typed'
  BY <1>2, <1>3, <1>4, <1>5, <1>6, <1>7 DEF IInv, Typed, TypeOK
<1>9. Entered'
  BY <1>2, <1>3, <1>4, <1>6, <1>7 DEF IInv, Entered
<1>10. OnePlace'
  BY <1>2 DEF IInv, OnePlace
<1>11. Orderly'
  <2>1. ~scenario.overlap => \A q \in Sessions : txn'[q] = None
    BY <1>1, <1>2 DEF Open
  <2> QED BY <1>2, <1>5, <2>1, CodesStep
<1>12. SessionsEndInTurn'
  BY <1>2, <1>4 DEF IInv, SessionsEndInTurn
<1>13. DeletedIsBlank'
  <2>1. \A d \in Devices : keys'[a][d] = -1
    BY <1>1 DEF IInv, Typed, TypeOK, BiometricCredential
  <2>2. \A x \in Accounts : x # a => keys'[x] = keys[x]
    BY <1>1 DEF IInv, Typed, TypeOK, BiometricCredential
  <2>3. \A g \in Subjects : links'[g] # a /\ links'[g] \in {0, links[g]}
    <3>1. a # 0
      BY SignInAssumption DEF Accounts
    <3>2. \A g \in Subjects : links'[g] = IF links[g] = a THEN 0 ELSE links[g]
      BY <1>1
    <3> QED BY <3>1, <3>2
  <2>4. ASSUME ~scenario.overlap, NEW x \in Accounts, account'[x].deleted
        PROVE  /\ account'[x] = _wipe_user(account'[x])
               /\ \A g \in Subjects : links'[g] # x
               /\ \A d \in Devices : keys'[x][d] = -1
               /\ \A t \in DOMAIN tokens' : tokens'[t].account = x => tokens'[t].gone
    <3>1. CASE x = a
      BY <1>3, <1>4, <2>1, <2>3, <3>1
    <3>2. CASE x # a
      <4>1. account'[x] = account[x] /\ x # 0
        BY <1>3, <3>2, SignInAssumption DEF Accounts
      <4>2. /\ account[x] = _wipe_user(account[x])
            /\ \A g \in Subjects : links[g] # x
            /\ \A d \in Devices : keys[x][d] = -1
            /\ \A t \in DOMAIN tokens : tokens[t].account = x => tokens[t].gone
        BY <2>4, <4>1 DEF IInv, DeletedIsBlank
      <4> QED BY <1>4, <2>2, <2>3, <3>2, <4>1, <4>2
    <3> QED BY <3>1, <3>2
  <2> QED BY <1>2, <2>4 DEF DeletedIsBlank
<1> QED BY <1>8, <1>9, <1>10, <1>11, <1>12, <1>13 DEF IInv

(***************************************************************************)
(* The theorems                                                            *)
(***************************************************************************)
LEMMA Initially ==
    ASSUME SignInAssumption, Init
    PROVE  IInv
<1>1. NoUser \in User /\ NoUser.password = 0 /\ ~NoUser.deleted
  BY DEF NoUser, User
<1>2. /\ MaxAccounts \in Nat /\ MaxCodes \in Nat /\ MaxTokens \in Nat /\ MaxFailed \in Nat
      /\ MaxAttempts \in Nat
  BY SignInAssumption
<1>3. Typed
  <2>1. keys \in BiometricCredential /\ links \in AuthIdentity
    BY <1>2 DEF Init, BiometricCredential, AuthIdentity
  <2>2. codes \in Seq(OtpCode) /\ Len(codes) <= MaxCodes /\ tokens \in Seq(RefreshToken)
        /\ Len(tokens) <= MaxTokens
    BY <1>2 DEF Init
  <2>3. account \in [Accounts -> User] /\ txn \in [Sessions -> Request \cup {None}]
        /\ endings \in [Accounts -> Nat]
    BY <1>1 DEF Init
  <2> QED BY <2>1, <2>2, <2>3 DEF Init, Typed, TypeOK
<1>4. Entered
  BY <1>1 DEF Init, Entered
<1>5. OnePlace
  BY DEF Init, OnePlace
<1>6. Orderly
  BY <1>2 DEF Init, Orderly, Budgeted
<1>7. SessionsEndInTurn /\ DeletedIsBlank
  BY <1>1 DEF Init, SessionsEndInTurn, DeletedIsBlank
<1> QED BY <1>3, <1>4, <1>5, <1>6, <1>7 DEF IInv

LEMMA Inductive ==
    ASSUME SignInAssumption, IInv, [Next]_vars
    PROVE  IInv'
<1>1. ASSUME NEW s \in Sessions, NEW i \in Identifiers,
             \/ PostOtpSend(s, i) \/ PostOtpVerify(s, i) \/ PostRegisterVendor(s, i)
             \/ PostPasswordForgot(s, i) \/ PostPasswordReset(s, i) \/ PostLogin(s, i)
      PROVE  IInv'
  BY <1>1, PostOtpSendStep, PostOtpVerifyStep, PostRegisterVendorStep,
     PostPasswordForgotStep, PostPasswordResetStep, PostLoginStep
<1>2. ASSUME NEW s \in Sessions, NEW a \in Accounts,
             \/ PostLogin2fa(s, a) \/ PostLogout(s, a)
             \/ change_password(s, a) \/ update_profile(s, a)
             \/ generate_totp(s, a) \/ enable_totp(s, a) \/ disable_totp(s, a)
             \/ \E d \in Devices : enable_biometrics(s, a, d)
             \/ \E chosen \in {{d} : d \in Devices} \cup {Devices} :
                   disable_biometrics(s, a, chosen)
      PROVE  IInv'
  BY <1>2, PostLogin2faStep, PostLogoutStep, ProfileStep, TotpStep, BiometricsStep
<1>3. ASSUME NEW s \in Sessions, NEW t \in DOMAIN tokens, PostRefresh(s, t)
      PROVE  IInv'
  BY <1>3, PostRefreshStep
<1>4. ASSUME NEW s \in Sessions, NEW t \in tickets,
             \/ PostBiometricLogin(s, t)
             \/ \E g \in Subjects, verified \in BOOLEAN : GoogleCallback(s, t, g, verified)
      PROVE  IInv'
  BY <1>4, PostBiometricLoginStep, GoogleCallbackStep
<1>5. CASE begin_authorization \/ \E d \in Devices : issue_challenge(d)
  BY <1>5, IssueStep
<1>6. ASSUME NEW s \in Sessions, Commit(s) \/ Abort(s)
      PROVE  IInv'
  BY <1>6, CommitStep, AbortStep
<1>7. CASE TimePasses
  BY <1>7, TimePassesStep
<1>8. ASSUME NEW a \in Accounts, delete_account(a) \/ \E b \in BOOLEAN : set_status(a, b)
      PROVE  IInv'
  BY <1>8, DeleteAccountStep, SetStatusStep
<1>9. CASE UNCHANGED vars
  <2>1. UNCHANGED <<account, codes, tokens, keys, links, cooling, tickets, challenged, txn,
                    scenario, endings, proved, uses, misses, redeemed>>
    BY <1>9 DEF vars, tables, memory
  <2>2. Typed'
    BY <2>1 DEF IInv, Typed, TypeOK
  <2>3. Entered'
    BY <2>1 DEF IInv, Entered
  <2>4. OnePlace'
    BY <2>1 DEF IInv, OnePlace
  <2>5. Orderly'
    BY <2>1 DEF IInv, Orderly, Budgeted, Tallied, Renewed
  <2>6. SessionsEndInTurn' /\ DeletedIsBlank'
    BY <2>1 DEF IInv, SessionsEndInTurn, DeletedIsBlank
  <2> QED BY <2>2, <2>3, <2>4, <2>5, <2>6 DEF IInv
<1> QED
  <2>1. CASE Next
    BY <2>1, <1>1, <1>2, <1>3, <1>4, <1>5, <1>6, <1>7, <1>8 DEF Next
  <2> QED BY <1>9, <2>1

LEMMA Invariance == Spec => []IInv
<1>1. Init => IInv
  BY SignInAssumption, Initially
<1>2. IInv /\ [Next]_vars => IInv'
  BY SignInAssumption, Inductive
<1> QED BY <1>1, <1>2, PTL DEF Spec

\* Every table, request and counter holds values of its kind, whatever requests
\* overlap, expire, fail or end an account.
THEOREM TypeCorrect == Spec => []TypeOK
<1>1. IInv => TypeOK
  BY DEF IInv, Typed
<1> QED BY <1>1, Invariance, PTL

\* However requests overlap, a session, a password, a device key or a Google link of
\* an account exists only once its identifier was proven: a provisional row that upsert_provisional_user makes for
\* anyone who types an address opens nothing by itself.
THEOREM NobodyEnters == Spec => []NobodyEntersUnproved
<1>1. IInv => NobodyEntersUnproved
  BY DEF IInv, Entered, NobodyEntersUnproved
<1> QED BY <1>1, Invariance, PTL

\* A challenge or OAuth state opens one session at the most, however requests
\* overlap; a code is accepted once and refused OTP_MAX_ATTEMPTS times at the most
\* when they do not.
THEOREM OpenedOnce == Spec => []GoodOnce
<1>1. IInv => GoodOnce
  <2> SUFFICES ASSUME IInv PROVE GoodOnce
    OBVIOUS
  <2>1. ASSUME ~scenario.overlap, NEW c \in DOMAIN codes
        PROVE  uses[c] <= 1 /\ misses[c] <= MaxAttempts
    <3>1. c \in 1..MaxCodes
      BY SignInAssumption DEF IInv, Typed, TypeOK
    <3>2. Budgeted(c)
      BY <2>1, <3>1 DEF IInv, Orderly
    <3> QED BY <3>2 DEF Budgeted
  <2>2. \A n \in 1..MaxTickets : redeemed[n] <= 1
    BY DEF IInv, OnePlace
  <2> QED BY <2>1, <2>2 DEF GoodOnce
<1> QED BY <1>1, Invariance, PTL

\* In requests that follow one another, no live session of an account is older than
\* the last end of all its sessions: a reset password, "log out everywhere", the reuse
\* of a rotated token, a block (revoke_all_for_user).
THEOREM SessionsEnd == Spec => []SessionsEndInTurn
<1>1. IInv => SessionsEndInTurn
  BY DEF IInv
<1> QED BY <1>1, Invariance, PTL

\* In requests that follow one another, a deleted account keeps its bare row and
\* nothing else: no profile, key, link or session (delete_account), and no request
\* that comes later, signing in again by any way included, fills it.
THEOREM NothingRemains == Spec => []DeletedIsBlank
<1>1. IInv => DeletedIsBlank
  BY DEF IInv
<1> QED BY <1>1, Invariance, PTL
=============================================================================
