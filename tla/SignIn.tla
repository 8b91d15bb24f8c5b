------------------------------- MODULE SignIn -------------------------------
(***************************************************************************)
(* The gate in front of the web app: AuthGate (src/ui/host/src/auth.tsx),  *)
(* the session event and the fetch wrapper (auth-session.ts) and the sign  *)
(* out of the account menu (shell.tsx).  The gate is one React component:  *)
(* `gate' is its state, `wire' the requests it has sent and not yet seen   *)
(* answered, `server' what the control plane knows (accounts, sessions and *)
(* one-time credentials are modelled from how the gate uses them).  A      *)
(* request is served and its answer received in separate steps, in any     *)
(* order, and it may fail before or after it took effect.                  *)
(***************************************************************************)
EXTENDS Naturals, FiniteSets

CONSTANTS Accounts,   \* the addresses a person may type
          NoOne,      \* no account
          MaxWire     \* bound: requests in flight at a time

VARIABLES gate, wire, server

signInVars == <<gate, wire, server>>

Modes == {"setup", "local", "oidc"}

FormKinds == {"link", "send", "verify", "setup"}

Request(kind, email) == [kind |-> kind, email |-> email, answer |-> "pending"]

\* What one page load starts from: both boot requests out, nothing known.
Boot(login, back) ==
  [status |-> "unknown", statusReady |-> FALSE,
   viewer |-> "none", account |-> NoOne, sessionReady |-> FALSE,
   loginToken |-> login, returnTo |-> back,
   email |-> CHOOSE a \in Accounts : TRUE, codeSent |-> FALSE, cooling |-> FALSE,
   busy |-> FALSE, token |-> FALSE]

BootRequests == {Request("status", NoOne), Request("me", NoOne)}

\* The credential of a login link is read from the URL once, at load, and
\* stripped from the address; the setup token is typed or read the same way.
SignInInit ==
  /\ \E mode \in Modes, login, back \in BOOLEAN, session \in Accounts \cup {NoOne} :
       /\ mode # "local" => ~login
       /\ mode = "setup" => session = NoOne
       /\ gate = Boot(login, back)
       /\ server = [mode |-> mode, session |-> session, codeFor |-> NoOne, linkFresh |-> login]
  /\ wire = BootRequests

(***************************************************************************)
(* What the gate renders.  The app itself, with every page and request of  *)
(* it, is mounted on the screen "app" only.                                *)
(***************************************************************************)
SignedInScreen == IF gate.returnTo THEN "oauth" ELSE "app"

FormScreen ==
  CASE gate.status = "setup" -> "setup"
    [] gate.status = "oidc" -> "sso"
    [] OTHER -> IF gate.codeSent THEN "code" ELSE "email"

Screen ==
  IF gate.token THEN "token"
  ELSE IF ~gate.sessionReady \/ ~gate.statusReady \/ gate.loginToken THEN "loading"
  ELSE IF gate.status = "unknown" THEN "unavailable"
  ELSE IF gate.viewer = "user" THEN SignedInScreen
  ELSE FormScreen

(***************************************************************************)
(* The person at the form                                                  *)
(***************************************************************************)
Post(kind, email) ==
  /\ Cardinality(wire) < MaxWire
  /\ wire' = wire \cup {Request(kind, email)}

\* The address field is editable until the code step: `disabled={codeSent}'.
TypeEmail(a) ==
  /\ Screen \in {"setup", "email"} /\ gate.email # a
  /\ gate' = [gate EXCEPT !.email = a]
  /\ UNCHANGED <<wire, server>>

submit ==
  /\ Screen \in {"setup", "email"} /\ ~gate.busy
  /\ Post(IF gate.status = "setup" THEN "setup" ELSE "send", gate.email)
  /\ gate' = [gate EXCEPT !.busy = TRUE]
  /\ UNCHANGED server

resendCode ==
  /\ Screen = "code" /\ ~gate.busy /\ ~gate.cooling
  /\ Post("send", gate.email)
  /\ gate' = [gate EXCEPT !.busy = TRUE]
  /\ UNCHANGED server

\* The sixth digit submits on its own; the boxes are disabled while busy.
verifyCode ==
  /\ Screen = "code" /\ ~gate.busy
  /\ Post("verify", gate.email)
  /\ gate' = [gate EXCEPT !.busy = TRUE]
  /\ UNCHANGED server

changeEmail ==
  /\ Screen = "code" /\ ~gate.busy
  /\ gate' = [gate EXCEPT !.codeSent = FALSE]
  /\ UNCHANGED <<wire, server>>

\* The resend deadline passes on the wall clock.
CooldownEnds ==
  /\ gate.cooling
  /\ gate' = [gate EXCEPT !.cooling = FALSE]
  /\ UNCHANGED <<wire, server>>

\* "Continue to Fanout" under the ingest token that is shown once.
ContinueToFanout ==
  /\ Screen = "token"
  /\ Post("refresh", NoOne)
  /\ gate' = [gate EXCEPT !.viewer = "user", !.token = FALSE]
  /\ UNCHANGED server

\* Any request of the mounted app, through authorizedFetch.
UseApp ==
  /\ Screen = "app" /\ \A r \in wire : r.kind # "api"
  /\ Post("api", NoOne)
  /\ UNCHANGED <<gate, server>>

SignOut ==
  /\ Screen = "app" /\ \A r \in wire : r.kind # "logout"
  /\ Post("logout", NoOne)
  /\ UNCHANGED <<gate, server>>

\* The browser loads the page again: what was in flight is not received.
Reload ==
  /\ gate' = [Boot(FALSE, gate.returnTo) EXCEPT !.email = gate.email]
  /\ wire' = BootRequests
  /\ UNCHANGED server

(***************************************************************************)
(* The server                                                              *)
(***************************************************************************)
Answered(r, a) == wire' = (wire \ {r}) \cup {[r EXCEPT !.answer = a]}

\* The session expires, or is revoked elsewhere.
ExpireSession ==
  /\ server.session # NoOne
  /\ server' = [server EXCEPT !.session = NoOne]
  /\ UNCHANGED <<gate, wire>>

ServeRead(r) ==
  /\ r.kind \in {"status", "me", "refresh", "api"}
  /\ Answered(r, CASE r.kind = "status" -> server.mode
                   [] r.kind = "api" -> IF server.session = NoOne THEN "401" ELSE "ok"
                   [] OTHER -> server.session)
  /\ UNCHANGED server

ServeSend(r) ==
  /\ r.kind = "send"
  /\ server' = [server EXCEPT !.codeFor = r.email]
  /\ Answered(r, "ok")

\* A code and a link work once; a wrong code is refused.
ServeCredential(r) ==
  /\ r.kind \in {"verify", "link", "setup"}
  /\ LET valid == CASE r.kind = "verify" -> server.codeFor = r.email
                    [] r.kind = "link" -> server.linkFresh
                    [] r.kind = "setup" -> server.mode = "setup"
     IN \/ /\ valid
           /\ server' = [server EXCEPT
                !.session = IF r.kind = "link" THEN CHOOSE a \in Accounts : TRUE ELSE r.email,
                !.codeFor = IF r.kind = "verify" THEN NoOne ELSE @,
                !.linkFresh = @ /\ r.kind # "link",
                !.mode = IF r.kind = "setup" THEN "local" ELSE @]
           /\ Answered(r, "ok")
        \/ Answered(r, "refused") /\ UNCHANGED server

ServeLogout(r) ==
  /\ r.kind = "logout"
  /\ Answered(r, IF server.session = NoOne THEN "401" ELSE "ok")
  /\ server' = [server EXCEPT !.session = NoOne]

Serve(r) ==
  /\ r.answer = "pending"
  /\ ServeRead(r) \/ ServeSend(r) \/ ServeCredential(r) \/ ServeLogout(r)
  /\ UNCHANGED gate

\* The connection fails, before the request was served or after.
Fail(r) ==
  /\ r.answer \notin {"failed"}
  /\ Answered(r, "failed")
  /\ UNCHANGED <<gate, server>>

(***************************************************************************)
(* Answers arrive                                                          *)
(***************************************************************************)
Took(r) == wire' = wire \ {r}

ReceiveStatus(r) ==
  /\ r.kind = "status"
  /\ gate' = [gate EXCEPT !.statusReady = TRUE,
                          !.status = IF r.answer = "failed" THEN @ ELSE r.answer]
  /\ Took(r)

\* loadAccount, then the effect on [loginToken, sessionReady, viewer]: the link
\* is redeemed when no session was found.
ReceiveMe(r) ==
  /\ r.kind = "me"
  /\ LET found == r.answer \in Accounts
         redeem == gate.loginToken /\ ~found
     IN /\ gate' = [gate EXCEPT !.sessionReady = TRUE,
                                !.viewer = IF found THEN "user" ELSE "none",
                                !.account = IF found THEN r.answer ELSE NoOne,
                                !.busy = @ \/ redeem]
        /\ wire' = (wire \ {r}) \cup (IF redeem THEN {Request("link", NoOne)} ELSE {})

\* refreshAccount only fills the account in: a failed reload does not undo a login.
ReceiveRefresh(r) ==
  /\ r.kind = "refresh"
  /\ gate' = [gate EXCEPT !.account = IF r.answer \in Accounts THEN r.answer ELSE @]
  /\ Took(r)

ReceiveLink(r) ==
  /\ r.kind = "link"
  /\ gate' = [gate EXCEPT !.loginToken = FALSE, !.busy = FALSE,
                          !.viewer = IF r.answer = "ok" THEN "user" ELSE @]
  /\ wire' = (wire \ {r}) \cup (IF r.answer = "ok" THEN {Request("refresh", NoOne)} ELSE {})

ReceiveSend(r) ==
  /\ r.kind = "send"
  /\ gate' = IF r.answer = "ok"
             THEN [gate EXCEPT !.busy = FALSE, !.codeSent = TRUE, !.cooling = TRUE]
             ELSE [gate EXCEPT !.busy = FALSE]
  /\ Took(r)

ReceiveVerify(r) ==
  /\ r.kind = "verify"
  /\ gate' = IF r.answer = "ok"
             THEN [gate EXCEPT !.busy = FALSE, !.viewer = "user",
                               !.codeSent = FALSE, !.cooling = FALSE]
             ELSE [gate EXCEPT !.busy = FALSE]
  /\ wire' = (wire \ {r}) \cup (IF r.answer = "ok" THEN {Request("refresh", NoOne)} ELSE {})

\* The first setup answers with the ingest token, shown once on its own screen.
ReceiveSetup(r) ==
  /\ r.kind = "setup"
  /\ gate' = [gate EXCEPT !.busy = FALSE, !.token = r.answer = "ok"]
  /\ Took(r)

\* clearSession: the event every 401 raises, heard by the gate while mounted.
handleUnauthorized == gate' = [gate EXCEPT !.viewer = "none", !.account = NoOne]

authorizedFetch(r) ==
  /\ r.kind = "api"
  /\ IF r.answer = "401" THEN handleUnauthorized ELSE UNCHANGED gate
  /\ Took(r)

\* A sign-out that failed leaves everything as it was and says so; one that
\* succeeded, or found no session, loads the page again.
logout(r) ==
  /\ r.kind = "logout"
  /\ IF r.answer = "failed"
     THEN UNCHANGED gate /\ Took(r)
     ELSE /\ gate' = [Boot(FALSE, gate.returnTo) EXCEPT !.email = gate.email]
          /\ wire' = BootRequests

Receive(r) ==
  /\ r.answer # "pending"
  /\ \/ ReceiveStatus(r) \/ ReceiveMe(r) \/ ReceiveRefresh(r) \/ ReceiveLink(r)
     \/ ReceiveSend(r) \/ ReceiveVerify(r) \/ ReceiveSetup(r)
     \/ authorizedFetch(r) \/ logout(r)
  /\ UNCHANGED server

SignInPerson ==
  \/ \E a \in Accounts : TypeEmail(a)
  \/ submit \/ resendCode \/ verifyCode \/ changeEmail \/ CooldownEnds
  \/ ContinueToFanout \/ UseApp \/ SignOut \/ Reload

SignInNext ==
  \/ SignInPerson \/ ExpireSession
  \/ \E r \in wire : Serve(r) \/ Fail(r) \/ Receive(r)

\* One form request at a time, and the form is disabled exactly meanwhile: a
\* second submit of a code, a link or the setup token is not sent.
FormBusy ==
  LET form == {r \in wire : r.kind \in FormKinds}
  IN Cardinality(form) <= 1 /\ (gate.busy <=> form # {})

\* A person who is signed in is signed out on the page only by a request that was
\* refused as unauthorized, or by a page that loads again: no late answer of the
\* boot requests takes the app away.
OnlyExpiry ==
  gate.viewer = "user" /\ gate'.viewer = "none" /\ gate'.sessionReady =>
    \E r \in wire \ wire' : r.kind = "api" /\ r.answer = "401"
=============================================================================
