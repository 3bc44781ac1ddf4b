---------------------------- MODULE SessionTabs ----------------------------
(***************************************************************************)
(* The tabs of one browser: the api client's interceptors, its shared      *)
(* silent refresh, sign-in and sign-out.  The tabs share localStorage and  *)
(* the refresh cookie; each has its own JavaScript, its own calls and its  *)
(* own refresh under way.                                                  *)
(*                                                                         *)
(* Sessions are numbered as they start and CC_Token is the number of the   *)
(* session it is for.  An access token may expire whenever it is used, so  *)
(* a call may be answered 401 at any time.  Of the server, which           *)
(* RefreshTokens models, only what a browser sees is here.                 *)
(***************************************************************************)
EXTENDS Naturals, FiniteSets

CONSTANTS
  Tab,
  MaxSessions,  \* bound: sign-ins
  MaxAsks,      \* bound: refreshes asked for
  MaxCalls      \* bound: calls of a tab in flight

VARIABLES
  store,    \* CC_Token: its session, or 0
  cookie,   \* the refresh cookie: session and generation
  live,     \* the server's newest generation of each session, 0 once it is revoked
  page,     \* where each tab is: at the sign-in, in either of its steps, or inside the app
  claims,   \* the session each tab is signing in to, or 0
  calls,    \* each tab's calls in flight, replayed ones aside
  asks,     \* refreshes in flight, with the calls that wait for them and what was answered
  started,  \* how many were asked for
  leaving,  \* sign-outs in flight: the cookie they carry, and whether they were served
  newest,   \* the newest session
  spoilt    \* history: sessions that something outside the refresh disturbed

net  == <<asks, started, leaving>>
tabs == <<store, cookie, live, page, claims, calls, net, newest, spoilt>>

NoCookie == [session |-> 0, gen |-> 0]

InitTabs ==
  /\ store = 0 /\ cookie = NoCookie /\ live = [s \in 0..MaxSessions |-> 0]
  /\ page = [t \in Tab |-> "login"] /\ claims = [t \in Tab |-> 0] /\ calls = [t \in Tab |-> 0]
  /\ asks = {} /\ started = 0 /\ leaving = {} /\ newest = 0 /\ spoilt = {}

-----------------------------------------------------------------------------
(* Signing in and out. *)

AtLogin(t) == page[t] = "login" /\ claims[t] = 0

\* The answer of the login, or of its second step, sets the cookie; what is still under way
\* for an older session, or in another tab's sign-in, disturbs this one.
SignedIn(t) ==
  /\ AtLogin(t) /\ newest < MaxSessions
  /\ newest' = newest + 1
  /\ cookie' = [session |-> newest', gen |-> 1]
  /\ live' = [live EXCEPT ![newest'] = 1]
  /\ claims' = [claims EXCEPT ![t] = newest']
  /\ spoilt' = spoilt \cup
       (IF asks = {} /\ leaving = {} /\ \A u \in Tab : claims[u] = 0 THEN {} ELSE {newest'})
  /\ UNCHANGED <<store, page, calls, net>>

\* finishLogin, once DeviceOwner.claim is done.
FinishLogin(t) ==
  /\ claims[t] # 0
  /\ store' = claims[t]
  /\ claims' = [claims EXCEPT ![t] = 0]
  /\ page' = [page EXCEPT ![t] = "app"]
  /\ UNCHANGED <<cookie, live, calls, net, newest, spoilt>>

\* A password or a code refused with 401 is not refreshed: it clears what another tab may
\* have stored.
WrongPassword(t) ==
  /\ AtLogin(t)
  /\ store' = 0
  /\ spoilt' = spoilt \cup {newest}
  /\ UNCHANGED <<cookie, live, page, claims, calls, net, newest>>

\* ProtectedRoute: a tab opened, or reloaded, goes in with whatever token is stored.
OpenTab(t) ==
  /\ AtLogin(t) /\ store # 0
  /\ page' = [page EXCEPT ![t] = "app"]
  /\ UNCHANGED <<store, cookie, live, claims, calls, net, newest, spoilt>>

\* The header removes the credentials, App.handleLogout posts the sign-out and does not wait.
Logout(t) ==
  /\ page[t] = "app" /\ store # 0
  /\ store' = 0
  /\ page' = [page EXCEPT ![t] = "login"]
  /\ leaving' = leaving \cup {[of |-> cookie, served |-> FALSE]}
  /\ spoilt' = spoilt \cup {newest}
  /\ UNCHANGED <<cookie, live, claims, calls, asks, started, newest>>

LogoutServed(l) ==
  /\ ~l.served
  /\ leaving' = (leaving \ {l}) \cup {[l EXCEPT !.served = TRUE]}
  /\ live' = [s \in DOMAIN live |-> IF s = l.of.session THEN 0 ELSE live[s]]
  /\ UNCHANGED <<store, cookie, page, claims, calls, asks, started, newest, spoilt>>

\* The answer clears the cookie, whosever it is by now; a failed one is ignored.
LogoutAnswered(l) ==
  /\ leaving' = leaving \ {l}
  /\ \/ l.served /\ cookie' = NoCookie
     \/ UNCHANGED cookie
  /\ UNCHANGED <<store, live, page, claims, calls, asks, started, newest, spoilt>>

-----------------------------------------------------------------------------
(* Calls and the silent refresh. *)

Waiting(t) == IF \E r \in asks : r.tab = t THEN (CHOOSE r \in asks : r.tab = t).waits ELSE 0
InFlight(t) == calls[t] + Waiting(t)

Call(t) ==
  /\ page[t] = "app" /\ InFlight(t) < MaxCalls
  /\ calls' = [calls EXCEPT ![t] = @ + 1]
  /\ UNCHANGED <<store, cookie, live, page, claims, net, newest, spoilt>>

\* Answered with anything but 401.
Done(t) ==
  /\ calls[t] > 0
  /\ calls' = [calls EXCEPT ![t] = @ - 1]
  /\ UNCHANGED <<store, cookie, live, page, claims, net, newest, spoilt>>

Ask(t, waits) == [n |-> started + 1, tab |-> t, of |-> cookie, waits |-> waits, got |-> "none"]

\* One more refresh of this tab; another tab's, with the same cookie, may overtake it.
Start(t, waits) ==
  /\ started < MaxAsks
  /\ asks' = asks \cup {Ask(t, waits)} /\ started' = started + 1
  /\ spoilt' = IF \E r \in asks : r.tab # t THEN spoilt \cup {newest} ELSE spoilt

\* Faulty variant: each 401 asks for a refresh of its own.
UnsharedRefresh(t, waits) == Start(t, waits)

\* refreshAccessToken: concurrent 401s of a tab share one refresh.
RefreshAccessToken(t, waits) ==
  LET mine == {r \in asks : r.tab = t} IN
  \/ /\ mine # {}
     /\ asks' = (asks \ mine) \cup {[r EXCEPT !.waits = @ + waits] : r \in mine}
     /\ UNCHANGED <<started, spoilt>>
  \/ mine = {} /\ Start(t, waits)

\* A call's first 401.
Unauthorized(t) ==
  /\ calls[t] > 0
  /\ calls' = [calls EXCEPT ![t] = @ - 1]
  /\ RefreshAccessToken(t, 1)
  /\ UNCHANGED <<store, cookie, live, page, claims, leaving, newest>>

\* connect_error "Invalid token": the socket's next attempt reads the new one.
SocketRefused(t) ==
  /\ page[t] = "app"
  /\ RefreshAccessToken(t, 0)
  /\ UNCHANGED <<store, cookie, live, page, claims, calls, leaving, newest>>

\* The server: rotated; the cookie of a race's loser is kept, or taken for a thief's and
\* the session revoked; the rest is refused, and its cookie cleared.
Serve(r) ==
  LET s == r.of.session
      Says(what) == asks' = (asks \ {r}) \cup {[r EXCEPT !.got = what]}
  IN
  /\ r.got = "none"
  /\ \/ live[s] > 0 /\ live[s] = r.of.gen /\ live' = [live EXCEPT ![s] = @ + 1] /\ Says("new")
     \/ live[s] > r.of.gen /\ \/ UNCHANGED live /\ Says("kept")
                              \/ live' = [live EXCEPT ![s] = 0] /\ Says("refused")
     \/ live[s] = 0 /\ UNCHANGED live /\ Says("refused")
  /\ UNCHANGED <<store, cookie, page, claims, calls, started, leaving, newest, spoilt>>

\* The calls that waited are replayed with the new token; a replay's answer goes to its
\* caller, 401 or not.
Answered(r) ==
  /\ r.got = "new"
  /\ asks' = asks \ {r}
  /\ cookie' = [r.of EXCEPT !.gen = @ + 1]
  /\ store' = r.of.session
  /\ UNCHANGED <<live, page, claims, calls, started, leaving, newest, spoilt>>

\* clearSessionAndRedirect, for each call that waited: a tab inside the app is loaded anew,
\* and its JavaScript with all it waited for is gone.  A socket's refresh clears nothing.
ClearSession(r) ==
  LET reload == r.waits > 0 /\ page[r.tab] = "app" IN
  /\ store' = IF r.waits > 0 THEN 0 ELSE store
  /\ page' = IF reload THEN [page EXCEPT ![r.tab] = "login"] ELSE page
  /\ calls' = IF reload THEN [calls EXCEPT ![r.tab] = 0] ELSE calls
  /\ asks' = IF reload THEN {q \in asks : q.tab # r.tab} ELSE asks \ {r}

Rejected(r) ==
  /\ r.got \in {"kept", "refused"}
  /\ cookie' = IF r.got = "refused" THEN NoCookie ELSE cookie
  /\ ClearSession(r)
  /\ UNCHANGED <<live, claims, started, leaving, newest, spoilt>>

\* catch(() => null): no answer, one of a server in trouble, or a throttled one.
Lost(r) ==
  /\ ClearSession(r)
  /\ spoilt' = spoilt \cup {newest}
  /\ UNCHANGED <<cookie, live, claims, started, leaving, newest>>

NextTabs ==
  \/ \E t \in Tab : \/ SignedIn(t) \/ FinishLogin(t) \/ WrongPassword(t) \/ OpenTab(t) \/ Logout(t)
                    \/ Call(t) \/ Done(t) \/ Unauthorized(t) \/ SocketRefused(t)
  \/ \E l \in leaving : LogoutServed(l) \/ LogoutAnswered(l)
  \/ \E r \in asks : Serve(r) \/ Answered(r) \/ Rejected(r) \/ Lost(r)

-----------------------------------------------------------------------------
(* Properties. *)

TabsTypeOK ==
  /\ store \in 0..MaxSessions /\ newest \in 0..MaxSessions
  /\ cookie.session \in 0..MaxSessions /\ cookie.gen \in 0..MaxAsks + 1
  /\ page \in [Tab -> {"login", "app"}] /\ claims \in [Tab -> 0..MaxSessions]
  /\ \A r \in asks : /\ r.tab \in Tab /\ r.waits \in 0..MaxCalls
                     /\ r.got \in {"none", "new", "kept", "refused"}
  /\ Cardinality(asks) <= started /\ started <= MaxAsks

\* A browser stays signed in however many of its calls expire together and are refreshed
\* and replayed, in whatever order they are answered: CC_Token is of its newest session
\* until that one is revoked, signed out, or disturbed by a lost answer, another tab's
\* refresh at the same time, a wrong password typed, or what an older session left behind.
KeepsItsSession ==
  newest > 0 /\ live[newest] > 0 /\ newest \notin spoilt /\ (\A t \in Tab : claims[t] = 0)
    => store = newest
=============================================================================
