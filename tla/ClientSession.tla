----------------------------- MODULE ClientSession -----------------------------
(***************************************************************************)
(* The two pages of the browser client and the session they share: the     *)
(* login form (static/login.js) and the requests of static/app.js with the *)
(* cookie and the token each carries.                                      *)
(*                                                                         *)
(* Flask keeps the session in the cookie: a request is judged by the nonce *)
(* in its own cookie, and every answer of a permanent session sets the     *)
(* cookie again.  A token stands for the nonce it is derived from.         *)
(***************************************************************************)
EXTENDS Integers, Sequences, SequencesExt, ClientUser

CONSTANTS MaxSessionOps, \* bound: things the user does
          MaxFlight      \* bound: requests on their way

ASSUME SessionAssumption == {MaxSessionOps, MaxFlight} \subseteq Nat

VARIABLES
    page,      \* "login" or "app"
    cookie,    \* the session: is a user in it, and its csrf_nonce (0: none)
    nonces,    \* nonces made so far
    token,     \* _csrfToken (0: null)
    flight,    \* requests on their way, as sent; a token's body not read yet
    healed,    \* the last answer came to api() and had a token
    error,     \* is the login error shown
    timers,    \* dismiss timers running
    dismiss,   \* is one of them dismissTimer
    busy,      \* is the login button disabled
    entering   \* a login succeeded; the page fades out

sessionVars == <<page, cookie, nonces, token, flight, healed, error, timers, dismiss, busy, entering, ops>>
loginForm == <<error, timers, dismiss, busy, entering>>

NoSession == [user |-> FALSE, nonce |-> 0]

\* The kinds of requests of the application; those for a token are followed by
\* the reading of their body.
TokenKinds == {"csrf", "first", "clearToken"}
Body(kind) == CASE kind = "csrf" -> "csrfBody" [] kind = "first" -> "firstBody" [] OTHER -> "clearTokenBody"
AppKinds == {"get", "post", "import", "clear", "fetch", "logout", "me"} \cup TokenKinds
            \cup {"csrfBody", "firstBody", "clearTokenBody"}

Request(kind, tok) == [kind |-> kind, cookie |-> cookie, token |-> tok]
Acts == UserActs(MaxSessionOps)

SessionInit ==
    /\ page = "login" /\ cookie = NoSession /\ nonces = 0 /\ token = 0 /\ flight = <<>>
    /\ healed = FALSE /\ error = FALSE /\ timers = 0 /\ dismiss = FALSE
    /\ busy = FALSE /\ entering = FALSE /\ ops = 0

Send(kind, tok) ==
    Len(flight) < MaxFlight /\ flight' = Append(flight, Request(kind, tok))

\* A page is loaded: what the other one kept in memory is gone, and so are the
\* requests on their way.  '/' leads on to the dashboard while a user is in
\* the cookie, '/dashboard' back to '/' otherwise.
Visit ==
    /\ page' = IF cookie'.user THEN "app" ELSE "login"
    /\ flight' = IF cookie'.user THEN <<[kind |-> "me", cookie |-> cookie', token |-> 0]>> ELSE <<>>
    /\ token' = 0 /\ healed' = FALSE /\ error' = FALSE /\ timers' = 0 /\ dismiss' = FALSE
    /\ busy' = FALSE /\ entering' = FALSE

-----------------------------------------------------------------------------
(* The login form *)

ClearError ==
    error' = FALSE /\ dismiss' = FALSE /\ timers' = IF dismiss THEN timers - 1 ELSE timers

ScheduleDismiss ==
    dismiss' = TRUE /\ timers' = IF dismiss THEN timers ELSE timers + 1

\* The button, or Ctrl+Enter, which a disabled button does not stop
Submit ==
    /\ page = "login" /\ Acts /\ Send("login", 0)
    /\ ClearError /\ busy' = TRUE
    /\ UNCHANGED <<page, cookie, nonces, token, healed, entering>>

\* login clears the session, a nonce with it.
LoggedIn(k) ==
    /\ flight[k].kind = "login" /\ flight' = RemoveAt(flight, k)
    /\ cookie' = [user |-> TRUE, nonce |-> 0] /\ entering' = TRUE
    /\ UNCHANGED <<page, nonces, token, healed, error, timers, dismiss, busy, ops>>

LoginFailed(k) ==
    /\ flight[k].kind = "login" /\ flight' = RemoveAt(flight, k)
    /\ error' = TRUE /\ ScheduleDismiss /\ busy' = FALSE
    /\ cookie' = IF flight[k].cookie.user THEN flight[k].cookie ELSE cookie
    /\ UNCHANGED <<page, nonces, token, healed, entering, ops>>

\* A timer fires, or the error's close button is pressed.
Dismissed ==
    /\ page = "login" /\ (timers > 0 \/ error) /\ ClearError
    /\ UNCHANGED <<page, cookie, nonces, token, flight, healed, busy, entering, ops>>

\* Typing: an error that is shown starts its three seconds again.
Typed ==
    /\ page = "login" /\ error /\ ScheduleDismiss
    /\ UNCHANGED <<page, cookie, nonces, token, flight, healed, error, busy, entering, ops>>

FadedOut == entering /\ UNCHANGED <<cookie, nonces, ops>> /\ Visit

-----------------------------------------------------------------------------
(* Requests of the application *)

\* api() with another method than GET fetches a token first, if it has none;
\* an upload sends what it has.
StartRequest(kind) ==
    /\ page = "app" /\ Acts
    /\ CASE kind = "post" /\ token = 0 -> Send("first", 0)
         [] kind \in {"post", "import"} -> Send(kind, token)
         [] kind = "clear"             -> Send("clearToken", 0)
         [] OTHER                      -> Send(kind, 0)
    /\ UNCHANGED <<page, cookie, nonces, token, healed, loginForm>>

RequestKinds == {"get", "post", "import", "clear", "fetch", "logout"}

Accepted(r) == r.token # 0 /\ r.token = r.cookie.nonce

\* The nonce after csrf_required: a new one for a change that is let through,
\* and for a token that is compared when there was none.
Rotated(r) == IF Accepted(r) \/ (r.token # 0 /\ r.cookie.nonce = 0) THEN nonces + 1 ELSE r.cookie.nonce

Answer(r) ==
    CASE r.kind \in {"post", "import", "clear"} -> Rotated(r)
      [] r.kind \in TokenKinds ->
           IF r.cookie.nonce = 0 THEN nonces + 1 ELSE r.cookie.nonce
      [] OTHER -> r.cookie.nonce

\* The browser sets the cookie of an answer.
SetCookie(r) ==
    /\ cookie' = [user |-> TRUE, nonce |-> Answer(r)]
    /\ nonces' = IF Answer(r) > nonces THEN Answer(r) ELSE nonces

\* Mutant: only an answer that is no error has its token read.
ReadHeaderIfOk(r) ==
    IF Answer(r) = 0 \/ (r.kind = "post" /\ ~Accepted(r))
    THEN UNCHANGED token /\ healed' = (Answer(r) # 0) ELSE token' = Answer(r) /\ healed' = TRUE

\* X-CSRF-Token, which an answer has if there is a nonce in the session
ReadHeader(r) ==
    IF Answer(r) = 0 THEN UNCHANGED token /\ healed' = FALSE ELSE token' = Answer(r) /\ healed' = TRUE

\* api(), also the upload of a backup: the header is read from any answer.
Answered(k) ==
    LET r == flight[k] IN
    /\ r.kind \in {"get", "post"} /\ r.cookie.user
    /\ flight' = RemoveAt(flight, k) /\ SetCookie(r) /\ ReadHeader(r)
    /\ UNCHANGED <<page, loginForm, ops>>

\* A sparkline, the users, an export, a file imported: nobody reads the header.
Fetched(k) ==
    LET r == flight[k] IN
    /\ r.kind \in {"fetch", "import"} /\ r.cookie.user
    /\ flight' = RemoveAt(flight, k) /\ SetCookie(r)
    /\ healed' = FALSE /\ UNCHANGED <<page, token, loginForm, ops>>

\* checkSession: the account is known; the token is asked for.
MeAnswered(k) ==
    LET r == flight[k] IN
    /\ r.kind = "me" /\ r.cookie.user
    /\ SetCookie(r) /\ flight' = Append(RemoveAt(flight, k), [kind |-> "csrf", cookie |-> cookie', token |-> 0])
    /\ healed' = FALSE /\ UNCHANGED <<page, token, loginForm, ops>>

\* A token is answered; its body is read later.
TokenAnswered(k) ==
    LET r == flight[k] IN
    /\ r.kind \in TokenKinds /\ r.cookie.user
    /\ SetCookie(r)
    /\ flight' = [flight EXCEPT ![k] = [kind |-> Body(r.kind), cookie |-> r.cookie, token |-> Answer(r)]]
    /\ healed' = FALSE /\ UNCHANGED <<page, token, loginForm, ops>>

\* The token of checkSession, or of api(), which sends its change now.
TokenRead(k) ==
    LET r == flight[k] IN
    /\ r.kind \in {"csrfBody", "firstBody"}
    /\ token' = r.token /\ healed' = FALSE
    /\ flight' = IF r.kind = "csrfBody" THEN RemoveAt(flight, k)
                 ELSE Append(RemoveAt(flight, k), Request("post", r.token))
    /\ UNCHANGED <<page, cookie, nonces, loginForm, ops>>

\* clear-logs keeps the token to itself.
ClearSent(k) ==
    LET r == flight[k] IN
    /\ r.kind = "clearTokenBody"
    /\ flight' = Append(RemoveAt(flight, k), Request("clear", r.token))
    /\ UNCHANGED <<page, cookie, nonces, token, healed, loginForm, ops>>

\* clear-logs reads the header of its answer only if that is no error.
Cleared(k) ==
    LET r == flight[k] IN
    /\ r.kind = "clear" /\ r.cookie.user
    /\ flight' = RemoveAt(flight, k) /\ SetCookie(r)
    /\ IF Accepted(r) THEN ReadHeader(r) ELSE UNCHANGED token /\ healed' = FALSE
    /\ UNCHANGED <<page, loginForm, ops>>

LoggedOut(k) ==
    /\ flight[k].kind = "logout" /\ cookie' = NoSession /\ UNCHANGED <<nonces, ops>> /\ Visit

\* An answer 401 takes every caller but the plain ones back to the login page.
Unauthorized(k) ==
    /\ flight[k].kind \in {"get", "post", "me"} /\ ~flight[k].cookie.user
    /\ UNCHANGED <<cookie, nonces, ops>> /\ Visit

\* Elsewhere it is as good as no answer; api() without a token sends its change.
Refused(k) ==
    LET r == flight[k] IN
    /\ r.kind \in TokenKinds \cup {"clear", "fetch", "import"} /\ ~r.cookie.user
    /\ flight' = IF r.kind = "first" THEN Append(RemoveAt(flight, k), Request("post", token))
                 ELSE RemoveAt(flight, k)
    /\ UNCHANGED <<page, cookie, nonces, token, healed, loginForm, ops>>

\* The session ends: its cookie is not accepted any more.
Expire ==
    /\ cookie.user /\ Acts /\ cookie' = NoSession /\ healed' = FALSE
    /\ UNCHANGED <<page, nonces, token, flight, loginForm>>

-----------------------------------------------------------------------------
SessionNext ==
    \/ Submit \/ Dismissed \/ Typed \/ FadedOut \/ Expire
    \/ \E kind \in RequestKinds : StartRequest(kind)
    \/ \E k \in DOMAIN flight :
         \/ LoggedIn(k) \/ LoginFailed(k) \/ Answered(k) \/ Fetched(k) \/ MeAnswered(k)
         \/ TokenAnswered(k) \/ TokenRead(k) \/ ClearSent(k) \/ Cleared(k) \/ LoggedOut(k)
         \/ Unauthorized(k) \/ Refused(k)

SessionSpec == SessionInit /\ [][SessionNext]_sessionVars

-----------------------------------------------------------------------------
(* Properties *)

Requests(kinds) == [kind : kinds, cookie : [user : BOOLEAN, nonce : Nat], token : Nat]

\* Every variable holds values of its type; each page has its own requests.
SessionTypeOK ==
    /\ page \in {"login", "app"} /\ cookie \in [user : BOOLEAN, nonce : Nat]
    /\ nonces \in Nat /\ token \in Nat /\ timers \in Nat /\ ops \in Nat
    /\ flight \in Seq(Requests(IF page = "login" THEN {"login"} ELSE AppKinds))
    /\ healed \in BOOLEAN /\ error \in BOOLEAN /\ dismiss \in BOOLEAN /\ busy \in BOOLEAN /\ entering \in BOOLEAN

\* After api() had an answer with a token, the next change is let through:
\* the token is the cookie's, however requests overlapped, and also when the
\* answer was the refusal of a token that was not.  An answer nobody read the
\* token of, or one without, ends that.
ApiAnswerHeals == healed => token = cookie.nonce

\* The login error goes when its own three seconds are over: one timer runs
\* while it is shown, and none before it or after it, although Ctrl+Enter
\* overlaps logins.
ErrorHasItsTimer == page = "login" => timers = (IF error THEN 1 ELSE 0)
==============================================================================
