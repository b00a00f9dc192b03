------------------------------- MODULE SignIn -------------------------------
(***************************************************************************)
(* One-time codes, sessions, second factors, device keys and Google links  *)
(* (app/services/{auth,otp,token,biometric,oauth}_service.py and           *)
(* app/api/v1/endpoints/auth.py), to the end of the account                *)
(* (account_deletion.py) and its blocking (admin/accounts.py).             *)
(*                                                                         *)
(* As everywhere in this backend a request reads rows without locking them *)
(* and writes at its commit: a column goes out only when it differs from   *)
(* the value read, an UPDATE by primary key does not look at the row again.*)
(* What lives in Redis (cooldowns, challenges, OAuth states) changes at    *)
(* once and is not undone by a rollback.                                   *)
(***************************************************************************)
EXTENDS Integers, FiniteSets, Sequences

CONSTANTS
    Identifiers,   \* email addresses or phone numbers, as clients type them
    Devices,
    Subjects,      \* Google accounts; each has the address GoogleEmail[g]
    GoogleEmail,
    Sessions,      \* database sessions that may be open at the same time
    Scenarios,     \* which endpoints a behaviour calls, and whether requests overlap
    MaxAttempts,   \* settings.OTP_MAX_ATTEMPTS
    MaxFailed,     \* MAX_FAILED_ATTEMPTS of a device key
    MaxAccounts, MaxCodes, MaxTokens, MaxTickets,   \* bounds
    None

Endpoints == {"otp/send", "otp/verify", "register/vendor", "login", "login/2fa",
              "logout", "refresh", "password/forgot", "password/reset",
              "users/password", "users/me", "biometrics", "2fa", "google",
              "block", "delete", "time"}

ASSUME SignInAssumption ==
    /\ GoogleEmail \in [Subjects -> Identifiers]
    /\ Scenarios \subseteq [calls : SUBSET Endpoints, overlap : BOOLEAN]
    /\ {MaxAttempts, MaxFailed, MaxAccounts, MaxCodes, MaxTokens, MaxTickets} \subseteq Nat
    /\ None \notin Identifiers \cup Devices

Accounts == 1..MaxAccounts
Purposes == {"SIGNUP", "PASSWORD_RESET"}

\* A row of `users`.  password, pending (totp_pending_secret) and name, for every
\* profile column, are versions (0: NULL); totp stands for is_2fa_enabled and
\* totp_secret, which are written together.  used: the row exists.
User == [used : BOOLEAN, email : Identifiers \cup {None}, verified : BOOLEAN,
         password : 0..2, name : 0..2, totp : BOOLEAN, pending : 0..2,
         biometrics : BOOLEAN, active : BOOLEAN, deleted : BOOLEAN]

NoUser == [used |-> FALSE, email |-> None, verified |-> FALSE, password |-> 0,
           name |-> 0, totp |-> FALSE, pending |-> 0, biometrics |-> FALSE,
           active |-> TRUE, deleted |-> FALSE]

\* A row of `otp_codes`, in the order of created_at, which is when the request
\* that adds it began: "unborn" until that request commits.
OtpCode == [identifier : Identifiers, purpose : Purposes, attempts : Nat,
            state : {"unborn", "open", "expired", "consumed", "deleted"}]

\* A row of `refresh_tokens`: whose, live (revoked_at is NULL), and the number of
\* times all sessions of the account had been ended when its line was signed in.
RefreshToken == [account : Accounts, live : BOOLEAN, gone : BOOLEAN, born : Nat]

\* failed_attempts of each enrolled key; -1: no row.
BiometricCredential == [Accounts -> [Devices -> -1..MaxFailed]]

\* The account each Google subject is linked to; 0: no row.
AuthIdentity == [Subjects -> 0..MaxAccounts]

\* What GETDEL redeems: a challenge of a device or the state of an authorization.
Ticket == [id : 1..MaxTickets, device : Devices \cup {None}]

\* An open request: the user row as read and as left in memory, and what its
\* flush will do besides: write a code, revoke or insert a token, end all
\* sessions, write a key, insert a link.
Request == [account : 0..MaxAccounts, seen : User, new : User,
            code : 0..MaxCodes, writes : {"insert", "attempts", "consumed_at"}, attempts : Nat,
            revokes : 0..MaxTokens, opens : BOOLEAN, born : Nat, proves : BOOLEAN,
            endsAll : BOOLEAN,
            device : Devices \cup {None}, saw : -1..MaxFailed, failed : 0..MaxFailed,
            drops : SUBSET Devices,
            subject : Subjects \cup {None}, ticket : 0..MaxTickets]

VARIABLES
    account, codes, tokens, keys, links,   \* the tables
    cooling,     \* Redis: the (identifier, purpose) pairs inside the resend cooldown
    tickets,     \* Redis: the tickets not redeemed
    challenged,  \* the accounts whose client holds a temp_2fa token
    txn,         \* the open request of each session
    scenario,    \* chosen at the start
    endings,     \* how often all sessions of each account were ended
    proved,      \* the accounts whose identifier was proven
    uses,        \* how often each code was accepted, and refused as wrong
    misses,
    redeemed     \* how many sign-ins each ticket opened

tables == <<account, codes, tokens, keys, links>>
memory == <<endings, proved, uses, misses, redeemed>>
vars == <<tables, cooling, tickets, challenged, txn, scenario, memory>>

Init ==
    /\ account = [a \in Accounts |-> NoUser]
    /\ codes = <<>> /\ tokens = <<>>
    /\ keys = [a \in Accounts |-> [d \in Devices |-> -1]]
    /\ links = [g \in Subjects |-> 0]
    /\ cooling = {} /\ tickets = {} /\ challenged = {}
    /\ txn = [s \in Sessions |-> None]
    /\ scenario \in Scenarios
    /\ endings = [a \in Accounts |-> 0] /\ proved = {}
    /\ uses = [c \in 1..MaxCodes |-> 0] /\ misses = [c \in 1..MaxCodes |-> 0]
    /\ redeemed = [t \in 1..MaxTickets |-> 0]

(***************************************************************************)
(* Sessions                                                                *)
(***************************************************************************)
Open == {txn[s] : s \in Sessions} \ {None}

MayCall(s, endpoint) ==
    endpoint \in scenario.calls /\ txn[s] = None /\ (scenario.overlap \/ Open = {})

\* A request that read account a and changes nothing yet.
Reading(a) ==
    [account |-> a, seen |-> IF a = 0 THEN NoUser ELSE account[a],
     new |-> IF a = 0 THEN NoUser ELSE account[a],
     code |-> 0, writes |-> "attempts", attempts |-> 0,
     revokes |-> 0, opens |-> FALSE, born |-> 0, proves |-> FALSE, endsAll |-> FALSE,
     device |-> None, saw |-> -1, failed |-> 0, drops |-> {}, subject |-> None, ticket |-> 0]

Starts(s, request) == txn' = [txn EXCEPT ![s] = request]

\* Every endpoint behind `CurrentUser`: the client signed in at some time (its access
\* token needs no row) to an account that is neither deleted nor blocked.
get_current_user(a) ==
    /\ account[a].used /\ ~account[a].deleted /\ account[a].active
    /\ \E t \in DOMAIN tokens : tokens[t].account = a

\* The users an identifier finds; email and phone are UNIQUE.
find_by_identifier(i) == {a \in Accounts : account[a].used /\ account[a].email = i}

\* A row another request has inserted and not committed: an INSERT of the same
\* identifier waits for it.
Inserting(i) == \E r \in Open : ~r.seen.used /\ r.new.used /\ r.new.email = i

Unused == {a \in Accounts : ~account[a].used /\ \A r \in Open : r.account # a}

\* upsert_provisional_user: the SELECT finds the row, or the INSERT in the
\* savepoint succeeds, or it conflicts and the winner's row is read.
upsert_provisional_user(i) ==
    IF find_by_identifier(i) # {} THEN {Reading(a) : a \in find_by_identifier(i)}
    ELSE {[Reading(a) EXCEPT !.new.used = TRUE, !.new.email = i] :
             a \in IF Inserting(i) THEN {} ELSE Unused}

\* A new version of a column that is not NULL: never equal to the one read.
Another(version) == IF version = 1 THEN 2 ELSE 1

set_password(r) == [r EXCEPT !.new.password = Another(@)]
mark_identifier_verified(r) == [r EXCEPT !.new.verified = TRUE, !.proves = TRUE]

\* issue_token_pair: one more row, for a line signed in now or for an heir.
issue_token_pair(r) == [r EXCEPT !.opens = TRUE, !.born = endings[r.account]]

(***************************************************************************)
(* One-time codes                                                          *)
(***************************************************************************)
\* Another request may have looked before we set the cooldown, while it is open.
Sending(i, purpose) ==
    \E r \in Open : /\ r.writes = "insert"
                    /\ codes[r.code].identifier = i /\ codes[r.code].purpose = purpose

\* send_otp after its cooldown check: the row is added (it counts from now for
\* created_at) and the cooldown is set before the commit.
send_otp(i, purpose) ==
    /\ <<i, purpose>> \in cooling => Sending(i, purpose)
    /\ Len(codes) < MaxCodes
    /\ codes' = Append(codes, [identifier |-> i, purpose |-> purpose, attempts |-> 0,
                               state |-> "unborn"])
    /\ cooling' = cooling \cup {<<i, purpose>>}

Pending(i, purpose) ==
    {c \in DOMAIN codes : codes[c].identifier = i /\ codes[c].purpose = purpose
                          /\ codes[c].state \in {"open", "expired"}}

\* The newest unconsumed code; an expired one is refused but still the newest.
Current(i, purpose) ==
    {c \in Pending(i, purpose) : codes[c].state = "open"
                                 /\ \A d \in Pending(i, purpose) : d <= c}

\* Too many attempts burn the code; a wrong one is counted from the value read.
Refused(c) ==
    IF codes[c].attempts >= MaxAttempts
    THEN [Reading(0) EXCEPT !.code = c, !.writes = "consumed_at"]
    ELSE [Reading(0) EXCEPT !.code = c, !.attempts = codes[c].attempts + 1]

\* Mutant of verify_and_consume: the code is not stamped consumed.
VerifyWithoutConsume(r, c) == [r EXCEPT !.code = c, !.attempts = codes[c].attempts]

\* verify_and_consume with the right code, under the budget.
verify_and_consume(r, c) == [r EXCEPT !.code = c, !.writes = "consumed_at"]

\* A client types a code: right or wrong.  What follows a right one is `r`,
\* for the account the identifier finds then.
Redeems(s, i, purpose, Then(_)) ==
    \E c \in Current(i, purpose) :
        \/ Starts(s, Refused(c))
        \/ /\ codes[c].attempts < MaxAttempts
           /\ \E a \in find_by_identifier(i) :
                  Starts(s, verify_and_consume(Then(Reading(a)), c))

PostOtpSend(s, i) ==
    /\ MayCall(s, "otp/send")
    /\ send_otp(i, "SIGNUP")
    /\ \E r \in upsert_provisional_user(i) : Starts(s, [r EXCEPT !.code = Len(codes) + 1, !.writes = "insert"])
    /\ UNCHANGED <<account, tokens, keys, links, tickets, challenged, scenario, memory>>

PostOtpVerify(s, i) ==
    /\ MayCall(s, "otp/verify")
    /\ LET In(r) == issue_token_pair(mark_identifier_verified(r))
           WithPassword(r) == set_password(In(r))
       IN  Redeems(s, i, "SIGNUP", In) \/ Redeems(s, i, "SIGNUP", WithPassword)
    /\ UNCHANGED <<tables, cooling, tickets, challenged, scenario, memory>>

\* The account is a vendor's without a restaurant; the store is StoreHours'.
PostRegisterVendor(s, i) ==
    /\ MayCall(s, "register/vendor")
    /\ LET Registered(r) ==
               [set_password(issue_token_pair(mark_identifier_verified(r))) EXCEPT
                   !.new.name = Another(@)]
       IN  Redeems(s, i, "SIGNUP", Registered)
    /\ UNCHANGED <<tables, cooling, tickets, challenged, scenario, memory>>

PostPasswordForgot(s, i) ==
    /\ MayCall(s, "password/forgot")
    /\ find_by_identifier(i) # {}
    /\ send_otp(i, "PASSWORD_RESET")
    /\ Starts(s, [Reading(0) EXCEPT !.code = Len(codes) + 1, !.writes = "insert"])
    /\ UNCHANGED <<account, tokens, keys, links, tickets, challenged, scenario, memory>>

\* Mutant of PostPasswordReset: the sessions are left alone.
PasswordResetAlone(s, i) ==
    /\ MayCall(s, "password/reset")
    /\ LET Reset(r) == [set_password(r) EXCEPT !.proves = TRUE]
       IN  Redeems(s, i, "PASSWORD_RESET", Reset)
    /\ UNCHANGED <<tables, cooling, tickets, challenged, scenario, memory>>

PostPasswordReset(s, i) ==
    /\ MayCall(s, "password/reset")
    /\ LET Reset(r) == [set_password(r) EXCEPT !.endsAll = TRUE, !.proves = TRUE]
       IN  Redeems(s, i, "PASSWORD_RESET", Reset)
    /\ UNCHANGED <<tables, cooling, tickets, challenged, scenario, memory>>

(***************************************************************************)
(* Sessions                                                                *)
(***************************************************************************)
\* Mutant of authenticate: an account without a password takes any.
AuthenticateAnyone(a) == account[a].active

\* The password typed is the account's: an account without one has none to type.
authenticate(a) == account[a].password # 0 /\ account[a].active

PostLogin(s, i) ==
    /\ MayCall(s, "login")
    /\ \E a \in find_by_identifier(i) :
          /\ authenticate(a)
          /\ IF account[a].totp
             THEN challenged' = challenged \cup {a} /\ UNCHANGED txn
             ELSE Starts(s, issue_token_pair(Reading(a))) /\ UNCHANGED challenged
    /\ UNCHANGED <<tables, cooling, tickets, scenario, memory>>

\* complete_2fa_login: the temp token is a JWT and is not used up.
PostLogin2fa(s, a) ==
    /\ MayCall(s, "login/2fa")
    /\ a \in challenged /\ account[a].active /\ account[a].totp
    /\ Starts(s, issue_token_pair(Reading(a)))
    /\ UNCHANGED <<tables, cooling, tickets, challenged, scenario, memory>>

EndsAll(a) == [Reading(a) EXCEPT !.endsAll = TRUE]

\* revoke_one, or revoke_all_for_user.
PostLogout(s, a) ==
    /\ MayCall(s, "logout")
    /\ get_current_user(a)
    /\ \/ \E t \in DOMAIN tokens : /\ tokens[t].account = a /\ tokens[t].live
                                   /\ Starts(s, [Reading(a) EXCEPT !.revokes = t])
       \/ endings[a] < MaxTokens /\ Starts(s, EndsAll(a))
    /\ UNCHANGED <<tables, cooling, tickets, challenged, scenario, memory>>

\* What presenting token t makes of the request: an heir in its line, or the end
\* of every session when it was revoked before.
rotate(t) ==
    LET a == tokens[t].account
    IN  IF ~tokens[t].live THEN EndsAll(a)
        ELSE IF account[a].active
        THEN [Reading(a) EXCEPT !.opens = TRUE, !.born = tokens[t].born, !.revokes = t]
        ELSE Reading(0)

PostRefresh(s, t) ==
    /\ MayCall(s, "refresh")
    /\ ~tokens[t].gone
    /\ rotate(t).account # 0
    /\ rotate(t).endsAll => endings[tokens[t].account] < MaxTokens
    /\ Starts(s, rotate(t))
    /\ UNCHANGED <<tables, cooling, tickets, challenged, scenario, memory>>

\* change_password leaves the sessions alone; update_profile is PUT.
change_password(s, a) ==
    /\ MayCall(s, "users/password")
    /\ get_current_user(a)
    /\ Starts(s, set_password(Reading(a)))
    /\ UNCHANGED <<tables, cooling, tickets, challenged, scenario, memory>>

update_profile(s, a) ==
    /\ MayCall(s, "users/me")
    /\ get_current_user(a)
    /\ Starts(s, [Reading(a) EXCEPT !.new.name = Another(@)])
    /\ UNCHANGED <<tables, cooling, tickets, challenged, scenario, memory>>

(***************************************************************************)
(* Second factor and device keys                                           *)
(***************************************************************************)
\* A code of the authenticator is right when the client holds the secret asked for.
Totp(s, a, needs, new) ==
    /\ MayCall(s, "2fa")
    /\ get_current_user(a)
    /\ needs
    /\ Starts(s, [Reading(a) EXCEPT !.new = new])
    /\ UNCHANGED <<tables, cooling, tickets, challenged, scenario, memory>>

generate_totp(s, a) ==
    Totp(s, a, ~account[a].totp, [account[a] EXCEPT !.pending = Another(@)])

enable_totp(s, a) ==
    Totp(s, a, ~account[a].totp /\ account[a].pending # 0,
         [account[a] EXCEPT !.totp = TRUE, !.pending = 0])

disable_totp(s, a) ==
    Totp(s, a, account[a].totp, [account[a] EXCEPT !.totp = FALSE, !.pending = 0])

enable_biometrics(s, a, d) ==
    /\ MayCall(s, "biometrics")
    /\ get_current_user(a)
    /\ Starts(s, [Reading(a) EXCEPT !.new.biometrics = TRUE,
                                    !.device = d, !.saw = keys[a][d]])
    /\ UNCHANGED <<tables, cooling, tickets, challenged, scenario, memory>>

\* DELETE of one device or of all, then the count of those that remain.
disable_biometrics(s, a, chosen) ==
    /\ MayCall(s, "biometrics")
    /\ get_current_user(a)
    /\ Starts(s, [Reading(a) EXCEPT
                     !.drops = chosen,
                     !.new.biometrics = \E d \in Devices \ chosen : keys[a][d] # -1])
    /\ UNCHANGED <<tables, cooling, tickets, challenged, scenario, memory>>

FreshTickets == {n \in 1..MaxTickets :
    /\ redeemed[n] = 0
    /\ \A t \in tickets : t.id # n
    /\ \A r \in Open : r.ticket # n}

\* issue_challenge: SETEX replaces the device's earlier challenge.
issue_challenge(d) ==
    /\ "biometrics" \in scenario.calls
    /\ \E n \in FreshTickets :
          tickets' = {t \in tickets : t.device # d} \cup {[id |-> n, device |-> d]}
    /\ UNCHANGED <<tables, cooling, challenged, txn, scenario, memory>>

\* Mutant of GetDel: GET, and the key is left to its expiry.
GetOnly(t) == tickets' = tickets

GetDel(t) == tickets' = tickets \ {t}

\* Biometric `authenticate` with a key found by its device alone.
PostBiometricLogin(s, t) ==
    /\ MayCall(s, "biometrics")
    /\ t.device # None
    /\ GetDel(t)
    /\ LET owners == {a \in Accounts : keys[a][t.device] # -1}
           Key(a, n) == [Reading(a) EXCEPT !.device = t.device, !.saw = keys[a][t.device],
                                           !.failed = n]
       IN  IF Cardinality(owners) # 1 THEN UNCHANGED <<txn, challenged>>
           ELSE LET a == CHOOSE x \in owners : TRUE
                    count == keys[a][t.device]
                IN  \/ count >= MaxFailed /\ UNCHANGED <<txn, challenged>>
                    \/ count < MaxFailed /\ Starts(s, Key(a, count + 1)) /\ UNCHANGED challenged
                    \/ /\ count < MaxFailed /\ account[a].active
                       /\ IF account[a].totp
                          THEN Starts(s, Key(a, 0)) /\ challenged' = challenged \cup {a}
                          ELSE /\ Starts(s, [issue_token_pair(Key(a, 0)) EXCEPT !.ticket = t.id])
                               /\ UNCHANGED challenged
    /\ UNCHANGED <<tables, cooling, scenario, memory>>

(***************************************************************************)
(* Google                                                                  *)
(***************************************************************************)
begin_authorization ==
    /\ "google" \in scenario.calls
    /\ \E n \in FreshTickets : tickets' = tickets \cup {[id |-> n, device |-> None]}
    /\ UNCHANGED <<tables, cooling, challenged, txn, scenario, memory>>

Linking(g) == \E r \in Open : r.subject = g

\* The linked account; else the account with the verified address, which is then
\* linked; else a new one.  An INSERT waits for an open one of the same key, and
\* a conflict on (user, provider) ends the request.
link_or_create_google_user(g, verified) ==
    IF links[g] # 0
    THEN IF account[links[g]].active
         THEN {[Reading(links[g]) EXCEPT !.new.name = IF @ = 0 THEN 1 ELSE @]} ELSE {}
    ELSE IF ~verified \/ Linking(g) THEN {}
    ELSE {[mark_identifier_verified(r) EXCEPT !.subject = g,
                                              !.new.name = IF @ = 0 THEN 1 ELSE @] :
             r \in {x \in upsert_provisional_user(GoogleEmail[g]) :
                      x.new.active /\ \A h \in Subjects : links[h] # x.account}}

GoogleCallback(s, t, g, verified) ==
    /\ MayCall(s, "google")
    /\ t.device = None
    /\ GetDel(t)
    /\ \/ UNCHANGED txn   \* the user cancelled, or Google refused the code
       \/ \E r \in link_or_create_google_user(g, verified) :
              Starts(s, [issue_token_pair(r) EXCEPT !.ticket = t.id])
    /\ UNCHANGED <<tables, cooling, challenged, scenario, memory>>

(***************************************************************************)
(* Commit, rollback, clocks                                                *)
(***************************************************************************)
\* The UPDATE carries the columns that differ from the values read.
Flushed(row, r) == [c \in DOMAIN row |-> IF r.new[c] # r.seen[c] THEN r.new[c] ELSE row[c]]

CodeWritten(row, r) ==
    CASE r.writes = "insert" -> [row EXCEPT !.state = "open"]
      [] r.writes = "attempts" -> [row EXCEPT !.attempts = r.attempts]
      [] r.writes = "consumed_at" -> [row EXCEPT !.state = "consumed"]

Revoked(r, t) ==
    \/ t = r.revokes
    \/ r.endsAll /\ tokens[t].account = r.account

\* revoke_all_for_user sees the rows committed by then, not those being inserted.
TokensWritten(r) ==
    LET left == [t \in DOMAIN tokens |->
                    IF Revoked(r, t) THEN [tokens[t] EXCEPT !.live = FALSE] ELSE tokens[t]]
    IN  IF r.opens
        THEN Append(left, [account |-> r.account, live |-> TRUE, gone |-> FALSE, born |-> r.born])
        ELSE left

KeyWritten(r, d) ==
    IF d \in r.drops THEN -1
    ELSE IF d = r.device THEN (IF r.failed # r.saw THEN r.failed ELSE keys[r.account][d])
    ELSE keys[r.account][d]

\* Rows updated by key must still be there, rows inserted must not be.
Writable(r) ==
    /\ r.code # 0 => codes[r.code].state # "deleted"
    /\ r.revokes # 0 => ~tokens[r.revokes].gone
    /\ r.device # None => (r.saw = -1) = (keys[r.account][r.device] = -1)
    /\ r.opens => Len(tokens) < MaxTokens

\* What must end every session: a reset password and what asks for it outright.
EndsSessions(r) ==
    \/ r.endsAll
    \/ r.account # 0 /\ r.code # 0 /\ codes[r.code].purpose = "PASSWORD_RESET"

Commit(s) ==
    /\ txn[s] # None /\ Writable(txn[s])
    /\ txn' = [txn EXCEPT ![s] = None]
    /\ LET r == txn[s] IN
       /\ account' = IF r.account = 0 THEN account
                     ELSE [account EXCEPT ![r.account] = Flushed(@, r)]
       /\ codes' = IF r.code = 0 THEN codes ELSE [codes EXCEPT ![r.code] = CodeWritten(@, r)]
       /\ tokens' = TokensWritten(r)
       /\ keys' = IF r.account = 0 THEN keys
                  ELSE [keys EXCEPT ![r.account] = [d \in Devices |-> KeyWritten(r, d)]]
       /\ links' = IF r.subject = None THEN links ELSE [links EXCEPT ![r.subject] = r.account]
       /\ endings' = IF EndsSessions(r) THEN [endings EXCEPT ![r.account] = @ + 1] ELSE endings
       /\ proved' = IF r.proves THEN proved \cup {r.account} ELSE proved
       /\ uses' = IF r.code # 0 /\ r.account # 0 /\ r.writes # "insert"
                  THEN [uses EXCEPT ![r.code] = @ + 1] ELSE uses
       /\ misses' = IF r.code # 0 /\ r.account = 0 /\ r.writes = "attempts"
                    THEN [misses EXCEPT ![r.code] = @ + 1] ELSE misses
       /\ redeemed' = IF r.ticket = 0 THEN redeemed ELSE [redeemed EXCEPT ![r.ticket] = @ + 1]
    /\ UNCHANGED <<cooling, tickets, challenged, scenario>>

\* Any failure: nothing was written, a code that was being added never exists.
Abort(s) ==
    /\ txn[s] # None
    /\ txn' = [txn EXCEPT ![s] = None]
    /\ codes' = IF txn[s].writes = "insert" THEN [codes EXCEPT ![txn[s].code].state = "deleted"]
                ELSE codes
    /\ UNCHANGED <<account, tokens, keys, links, cooling, tickets, challenged, scenario,
                   memory>>

\* Codes and tickets expire, the cooldown ends, the temp token runs out.
TimePasses ==
    /\ "time" \in scenario.calls
    /\ \/ /\ \E c \in DOMAIN codes : /\ codes[c].state = "open"
                                     /\ codes' = [codes EXCEPT ![c].state = "expired"]
          /\ UNCHANGED <<cooling, tickets, challenged>>
       \/ /\ \E p \in cooling : cooling' = cooling \ {p}
          /\ UNCHANGED <<codes, tickets, challenged>>
       \/ /\ \E t \in tickets : tickets' = tickets \ {t}
          /\ UNCHANGED <<codes, cooling, challenged>>
       \/ /\ \E a \in challenged : challenged' = challenged \ {a}
          /\ UNCHANGED <<codes, cooling, tickets>>
    /\ UNCHANGED <<account, tokens, keys, links, txn, scenario, memory>>

(***************************************************************************)
(* The end of an account                                                   *)
(***************************************************************************)
\* admin/accounts.set_status, under the row lock; blocking ends all sessions.
set_status(a, is_active) ==
    /\ "block" \in scenario.calls /\ (scenario.overlap \/ Open = {})
    /\ account[a].used /\ ~account[a].deleted
    /\ endings[a] < MaxTokens
    /\ account' = [account EXCEPT ![a].active = is_active]
    /\ IF is_active THEN UNCHANGED <<tokens, endings>>
       ELSE /\ tokens' = TokensWritten(EndsAll(a))
            /\ endings' = [endings EXCEPT ![a] = @ + 1]
    /\ UNCHANGED <<codes, keys, links, cooling, tickets, challenged, txn, scenario,
                   proved, uses, misses, redeemed>>

_wipe_user(row) == [NoUser EXCEPT !.used = TRUE, !.active = FALSE, !.deleted = TRUE]

\* Mutant of _delete_personal_rows: the links to Google are kept.
DeleteAllButLinks(a) ==
    /\ tokens' = [t \in DOMAIN tokens |->
                     IF tokens[t].account = a THEN [tokens[t] EXCEPT !.live = FALSE, !.gone = TRUE]
                     ELSE tokens[t]]
    /\ keys' = [keys EXCEPT ![a] = [d \in Devices |-> -1]]
    /\ codes' = [c \in DOMAIN codes |->
                    IF codes[c].identifier = account[a].email /\ codes[c].state # "unborn"
                    THEN [codes[c] EXCEPT !.state = "deleted"] ELSE codes[c]]
    /\ UNCHANGED links

_delete_personal_rows(a) ==
    /\ tokens' = [t \in DOMAIN tokens |->
                     IF tokens[t].account = a THEN [tokens[t] EXCEPT !.live = FALSE, !.gone = TRUE]
                     ELSE tokens[t]]
    /\ keys' = [keys EXCEPT ![a] = [d \in Devices |-> -1]]
    /\ codes' = [c \in DOMAIN codes |->
                    IF codes[c].identifier = account[a].email /\ codes[c].state # "unborn"
                    THEN [codes[c] EXCEPT !.state = "deleted"] ELSE codes[c]]
    /\ links' = [g \in Subjects |-> IF links[g] = a THEN 0 ELSE links[g]]

\* delete_account of a customer with no order under way (AccountDeletion has the
\* other checks): the row is locked from the first statement to the commit.
delete_account(a) ==
    /\ "delete" \in scenario.calls /\ (scenario.overlap \/ Open = {})
    /\ get_current_user(a)
    /\ _delete_personal_rows(a)
    /\ account' = [account EXCEPT ![a] = _wipe_user(@)]
    /\ UNCHANGED <<cooling, tickets, challenged, txn, scenario, memory>>

Next ==
    \/ \E s \in Sessions, i \in Identifiers :
          \/ PostOtpSend(s, i) \/ PostOtpVerify(s, i) \/ PostRegisterVendor(s, i)
          \/ PostPasswordForgot(s, i) \/ PostPasswordReset(s, i) \/ PostLogin(s, i)
    \/ \E s \in Sessions, a \in Accounts :
          \/ PostLogin2fa(s, a) \/ PostLogout(s, a)
          \/ change_password(s, a) \/ update_profile(s, a)
          \/ generate_totp(s, a) \/ enable_totp(s, a) \/ disable_totp(s, a)
          \/ \E d \in Devices : enable_biometrics(s, a, d)
          \/ \E chosen \in {{d} : d \in Devices} \cup {Devices} :
                disable_biometrics(s, a, chosen)
    \/ \E s \in Sessions, t \in DOMAIN tokens : PostRefresh(s, t)
    \/ \E s \in Sessions, t \in tickets :
          \/ PostBiometricLogin(s, t)
          \/ \E g \in Subjects, verified \in BOOLEAN : GoogleCallback(s, t, g, verified)
    \/ \E d \in Devices : issue_challenge(d)
    \/ begin_authorization
    \/ \E s \in Sessions : Commit(s) \/ Abort(s)
    \/ TimePasses
    \/ \E a \in Accounts : delete_account(a) \/ \E b \in BOOLEAN : set_status(a, b)

Spec == Init /\ [][Next]_vars

(***************************************************************************)
(* Properties                                                              *)
(***************************************************************************)
\* Every variable holds a value of its kind.
TypeOK ==
    /\ account \in [Accounts -> User]
    /\ codes \in Seq(OtpCode) /\ tokens \in Seq(RefreshToken)
    /\ keys \in BiometricCredential /\ links \in AuthIdentity
    /\ cooling \subseteq Identifiers \X Purposes
    /\ tickets \subseteq Ticket /\ challenged \subseteq Accounts
    /\ txn \in [Sessions -> Request \cup {None}]
    /\ endings \in [Accounts -> Nat] /\ proved \subseteq Accounts

\* What opens a session does so once: in requests that follow one another a code is
\* accepted at most once, and never after OTP_MAX_ATTEMPTS wrong ones
\* (verify_and_consume); however they overlap, a biometric challenge and an OAuth state
\* open at most one session each (GETDEL in biometric_service and oauth_service).
GoodOnce ==
    /\ ~scenario.overlap => \A c \in DOMAIN codes : uses[c] <= 1 /\ misses[c] <= MaxAttempts
    /\ \A n \in 1..MaxTickets : redeemed[n] <= 1

\* In requests that follow one another, every live session of an account was signed in
\* after the last time all its sessions were ended: by a password reset, "log out
\* everywhere", the reuse of a rotated token or a block (revoke_all_for_user,
\* _handle_token_reuse, set_status).
SessionsEndInTurn ==
    ~scenario.overlap =>
        \A t \in DOMAIN tokens : tokens[t].live => tokens[t].born = endings[tokens[t].account]

\* In requests that follow one another nothing of a deleted account is left, by
\* whatever way it was filled (delete_account), and its address is free again.
DeletedIsBlank ==
    ~scenario.overlap => \A a \in Accounts : account[a].deleted =>
        /\ account[a] = _wipe_user(account[a])
        /\ \A g \in Subjects : links[g] # a
        /\ \A d \in Devices : keys[a][d] = -1
        /\ \A t \in DOMAIN tokens : tokens[t].account = a => tokens[t].gone

\* However requests overlap, nobody holds a session, a password, a device key or a
\* Google link of an account whose identifier no code and no Google profile has
\* proven (upsert_provisional_user's promise).
NobodyEntersUnproved ==
    /\ \A t \in DOMAIN tokens : tokens[t].account \in proved
    /\ \A a \in Accounts : account[a].password # 0 => a \in proved
    /\ \A a \in Accounts, d \in Devices : keys[a][d] # -1 => a \in proved
    /\ \A g \in Subjects : links[g] # 0 => links[g] \in proved
=============================================================================
