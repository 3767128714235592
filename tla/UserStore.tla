----------------------------- MODULE UserStore ------------------------------
(***************************************************************************)
(* UserStore of apps/users/auth.py: users.json holds the password hash and *)
(* the role of every user and the hashed session tokens.  A login (POST    *)
(* /api/auth/token, on any thread of the server) reads the file, hashes    *)
(* the password for a while and rewrites the file with what it had read    *)
(* and one more token; "users add" and "users password" of the command     *)
(* line, and the server that starts without any user, do the same with the *)
(* entry of a user.  Nothing orders them, and other processes that found   *)
(* no file, or no user, at the very start may still be about to write what *)
(* they start with.  One user stands for all: every operation rewrites the *)
(* whole file.  Opening the file for writing empties it, the text arrives  *)
(* in a later step.                                                        *)
(***************************************************************************)
EXTENDS Naturals, FiniteSets

CONSTANTS Rivals,       \* other processes started on the empty directory
          Logins,       \* the requests for a token considered
          Changes,      \* the password changes considered
          Arrivals,     \* a bound: which of all these come, in one behaviour
          RoleOf,       \* "users add": what it creates the user as
          TOKEN_TTL,    \* the life of a token, in ticks of the clock
          MaxTime       \* bound on the clock

\* ROLE_PERMISSIONS; its keys are the roles there are.
ROLE_PERMISSIONS == [admin   |-> {"read", "create_audit", "retest", "manage_users"},
                     analyst |-> {"read", "create_audit", "retest"},
                     viewer  |-> {"read"}]
Roles == DOMAIN ROLE_PERMISSIONS

\* A change and an addition are named by the password they set, and so is the
\* addition of the default admin by a server that finds no user.
Adds == DOMAIN RoleOf
Boot == "admin-audit-2026"

Passwords == {Boot} \union Changes \union Adds

\* Assumed of the constants.
IsUserBounds ==
    /\ TOKEN_TTL \in Nat \ {0} /\ MaxTime \in Nat
    /\ \A a \in Adds : RoleOf[a] \in Roles
    /\ Logins \intersect Passwords = {} /\ Changes \intersect Adds = {}
    /\ Boot \notin Changes \union Adds
    /\ Rivals \intersect (Logins \union Passwords) = {}

Threads   == Logins \union Passwords \union Rivals
NoUser    == "no user"          \* instead of a password
Vouched   == "no password"      \* create_token, which asks for none
Times     == 0..(MaxTime + TOKEN_TTL)
Tokens    == [login: Logins, expires: Times]
Data      == [password: Passwords \union {NoUser}, role: Roles, tokens: SUBSET Tokens]

VARIABLES file,         \* users.json: "whole", "empty" or "mixed", and its data
          now,          \* time.time()
          thread,       \* program point, password presented, data read
          answered,     \* the tokens that were returned to their clients
          acknowledged, \* password and role of the last change acknowledged
          dead,         \* the requests whose server process has ended
          overlapped    \* two of the rewriting operations were under way at once

vars == <<file, now, thread, answered, acknowledged, dead, overlapped>>

\* Somebody without an entry has the permissions of a viewer.
NoData == [password |-> NoUser, role |-> "viewer", tokens |-> {}]
Idle   == [pc |-> "idle", presents |-> NoUser, data |-> NoData]

\* Where thread t begins, of those that are here.
Arrived(here, t) == CASE t \notin here               -> "refused"
                      [] t \in here \intersect Rivals -> "hashing"
                      [] OTHER                        -> "idle"

\* The file is as __init__ of the first store leaves it: without users;
\* the rivals have found it so, or have not found it.  Who does not come
\* gets nothing.
Init ==
    /\ file = [state |-> "whole", data |-> NoData]
    /\ now = 0
    /\ \E here \in Arrivals :
          /\ thread = [t \in Threads |-> [Idle EXCEPT !.pc = Arrived(here, t)]]
          /\ overlapped = (\E t, u \in Rivals \intersect here : t # u)
    /\ answered = {}
    /\ acknowledged = [password |-> NoUser, role |-> "viewer"]
    /\ dead = {}

-----------------------------------------------------------------------------
Active(t) == thread[t].pc \in {"booting", "hashing", "writing"} /\ t \notin dead

\* Thread t goes on from one program point to another.
Goto(t, from, to, data) ==
    /\ t \notin dead
    /\ thread[t].pc = from
    /\ thread' = [thread EXCEPT ![t].pc = to, ![t].data = data]

\* _read, and the first use of what it says; a file that cannot be parsed
\* raises, and the request or the process ends.
BeginRead(t, from, presents, to) ==
    /\ t \notin dead
    /\ thread[t].pc = from
    /\ thread' = [thread EXCEPT ![t] =
                    [pc |-> IF file.state = "whole" THEN to ELSE "raised",
                     presents |-> presents, data |-> file.data]]
    /\ overlapped' = (overlapped \/ \E u \in Threads \ {t} : Active(u))
    /\ UNCHANGED <<file, now, answered, acknowledged, dead>>

\* write_text opens users.json.
OpenUsers(t, data) ==
    /\ Goto(t, "hashing", "writing", data)
    /\ file' = [file EXCEPT !.state = "empty"]
    /\ UNCHANGED <<now, answered, acknowledged, dead, overlapped>>

\* The text arrives.  If another writer that had the file open has written
\* first, the end of its text can stick out: the texts differ by their tokens.
Overwritten(data) ==
    LET old == Cardinality(file.data.tokens)
        new == Cardinality(data.tokens)
    IN  CASE file.state = "empty" -> {"whole"}
          [] file.state = "whole" /\ new > old -> {"whole"}
          [] file.state = "whole" /\ new < old -> {"mixed"}
          [] OTHER -> {"whole", "mixed"}

WriteUsers(t) ==
    /\ Goto(t, "writing", "done", thread[t].data)
    /\ \E state \in Overwritten(thread[t].data) :
          file' = [state |-> state, data |-> thread[t].data]
    /\ UNCHANGED <<now, dead, overlapped>>

-----------------------------------------------------------------------------
(* verify, create_token and _issue_token: on a server that has started *)

BeginLogin(l) ==
    /\ thread[Boot].pc = "done"
    /\ \E presents \in Passwords \union {Vouched} :
          BeginRead(l, "idle", presents, "hashing")

\* The user the request names is there, and the digest matches if one is asked.
Verified(l) ==
    /\ thread[l].data.password # NoUser
    /\ thread[l].presents \in {thread[l].data.password, Vouched}

Refuse(l) ==
    /\ ~Verified(l)
    /\ Goto(l, "hashing", "refused", thread[l].data)
    /\ UNCHANGED <<file, now, answered, acknowledged, dead, overlapped>>

\* The tokens that have expired are dropped.
Valid(data) == {k \in data.tokens : k.expires > now}

\* Bug: the digest is not compared.
IssueUnchecked(l) ==
    OpenUsers(l, [thread[l].data EXCEPT !.tokens =
                    @ \union {[login |-> l, expires |-> now + TOKEN_TTL]}])

\* The new token is added to the data read before.
IssueToken(l) ==
    /\ Verified(l)
    /\ OpenUsers(l, [thread[l].data EXCEPT !.tokens =
                       Valid(thread[l].data)
                           \union {[login |-> l, expires |-> now + TOKEN_TTL]}])

TokenOf(l) == CHOOSE k \in thread[l].data.tokens : k.login = l

EndLogin(l) ==
    /\ WriteUsers(l)
    /\ answered' = answered \union {TokenOf(l)}
    /\ UNCHANGED acknowledged

-----------------------------------------------------------------------------
(* set_password and create_user, and the start of the server *)

BeginChange(p) == BeginRead(p, "idle", NoUser, "hashing")

RefuseChange(p) ==
    /\ p \in Changes /\ thread[p].data.password = NoUser
    /\ Goto(p, "hashing", "refused", thread[p].data)
    /\ UNCHANGED <<file, now, answered, acknowledged, dead, overlapped>>

\* Bug: the password read from the file is written back.
ChangeNothing(p) ==
    thread[p].data.password # NoUser /\ OpenUsers(p, thread[p].data)

ChangePassword(p) ==
    /\ thread[p].data.password # NoUser
    /\ OpenUsers(p, [thread[p].data EXCEPT !.password = p])

\* Bug: a user that exists keeps its role.
CreateUserOnce(p, role) ==
    OpenUsers(p, [thread[p].data EXCEPT !.password = p,
                     !.role = IF thread[p].data.password = NoUser THEN role ELSE @])

\* The entry is written whether or not there is one; the tokens stay.
CreateUser(p, role) ==
    OpenUsers(p, [thread[p].data EXCEPT !.password = p, !.role = role])

\* The role somebody asked for; a change of the password keeps the one there is.
RoleAsked(p) == CASE p \in Adds -> RoleOf[p]
                  [] p = Boot   -> "admin"
                  [] OTHER      -> acknowledged.role

EndChange(p) ==
    /\ WriteUsers(p)
    /\ acknowledged' = [password |-> p, role |-> RoleAsked(p)]
    /\ UNCHANGED answered

\* build_app looks for users; create_user reads the file again.
StartServer ==
    BeginRead(Boot, "idle", NoUser,
              IF file.data.password = NoUser THEN "booting" ELSE "done")

BootstrapAdmin == BeginRead(Boot, "booting", NoUser, "hashing")

\* What a process writes that has found no file (__init__), or a file without
\* users (build_app).
FirstData == {NoData, [NoData EXCEPT !.password = Boot, !.role = "admin"]}

\* A rival writes what it starts with, whatever is there by now.
OpenFirst(t) == \E data \in FirstData : OpenUsers(t, data)

\* (Where rewritings overlap, nothing is said of what was acknowledged.)
EndFirst(t) ==
    /\ WriteUsers(t)
    /\ acknowledged' = [password |-> thread[t].data.password, role |-> thread[t].data.role]
    /\ UNCHANGED answered

-----------------------------------------------------------------------------
\* user_for_token: the tokens that are accepted, when the file can be read.
Accepted == IF file.state = "whole" THEN Valid(file.data) ELSE {}

\* require: the role is the one the file has now, not when the token was issued.
Require(k, permission) ==
    k \in Accepted /\ permission \in ROLE_PERMISSIONS[file.data.role]

Tick ==
    /\ now < MaxTime
    /\ now' = now + 1
    /\ UNCHANGED <<file, thread, answered, acknowledged, dead, overlapped>>

\* The server ends at any point, once, and is started again.
Crash ==
    /\ dead = {}
    /\ thread[Boot].pc # "idle"
    /\ dead' = {l \in Logins : thread[l].pc # "idle"}
    /\ thread' = [thread EXCEPT ![Boot] = Idle]
    /\ UNCHANGED <<file, now, answered, acknowledged, overlapped>>

Login(l) == BeginLogin(l) \/ Refuse(l) \/ IssueToken(l) \/ EndLogin(l)
Change(p) == BeginChange(p) \/ RefuseChange(p) \/ ChangePassword(p) \/ EndChange(p)
Add(p) == BeginChange(p) \/ CreateUser(p, RoleAsked(p)) \/ EndChange(p)
Start == \/ StartServer \/ BootstrapAdmin
         \/ CreateUser(Boot, RoleAsked(Boot)) \/ EndChange(Boot)

Next == \/ \E l \in Logins : Login(l)
        \/ \E p \in Changes : Change(p)
        \/ \E p \in Adds : Add(p)
        \/ \E t \in Rivals : OpenFirst(t) \/ EndFirst(t)
        \/ Start \/ Tick \/ Crash

Spec == Init /\ [][Next]_vars

-----------------------------------------------------------------------------
(* Properties *)

TypeOK ==
    /\ file \in [state: {"whole", "empty", "mixed"}, data: Data]
    /\ now \in 0..MaxTime
    /\ thread \in [Threads -> [pc: {"idle", "booting", "hashing", "writing", "done",
                                   "refused", "raised"},
                              presents: Passwords \union {NoUser, Vouched}, data: Data]]
    /\ answered \in SUBSET Tokens
    /\ acknowledged \in [password: Passwords \union {NoUser}, role: Roles]
    /\ dead \in SUBSET Logins
    /\ overlapped \in BOOLEAN

\* No rewriting is under way, and the server has died inside none.
Settled ==
    /\ file.state # "empty"
    /\ \A t \in Threads : thread[t].pc # "writing"

\* As long as the rewriting operations have not overlapped, a token that was
\* returned is accepted until it expires, also after a restart ("survives
\* restarts, expires in 12h", auth.py:90), and permits exactly what the role
\* its user was last given permits, also when that was after the login.
SerialSessionsHold ==
    ~overlapped /\ Settled =>
        \A k \in answered : k.expires > now =>
            {p \in UNION {ROLE_PERMISSIONS[r] : r \in Roles} : Require(k, p)}
                = ROLE_PERMISSIONS[acknowledged.role]

\* As long as they have not overlapped, the password in force is the one of the
\* last change that was acknowledged: no login brings an older one back, and no
\* restart the default one.
SerialPasswordHolds ==
    ~overlapped /\ Settled =>
        file.state = "whole" /\ file.data.password = acknowledged.password

\* Even when they overlap: every accepted token goes back to a request that was
\* vouched for, or presented a password some operation had begun to write.
TokensAreEarned ==
    \A k \in Accepted :
        LET presented == thread[k.login].presents
        IN  \/ presented = Vouched
            \/ presented = Boot
            \/ thread[presented].pc \in {"writing", "done"}
=============================================================================
