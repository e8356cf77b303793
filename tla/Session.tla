------------------------------ MODULE Session ------------------------------
(***************************************************************************)
(* The shell of the dashboard: the token in the browser's storage          *)
(* (lib/api.ts), the pages that sign in (app/login/page.tsx,               *)
(* app/register/page.tsx), the two that only pass on (app/page.tsx,        *)
(* app/dashboard/page.tsx) and the layout around every page of an app      *)
(* (app/dashboard/layout.tsx).                                             *)
(*                                                                         *)
(* A handler goes on after its page has been left: it no longer changes    *)
(* the page's state, but it still stores its token and pushes its route.   *)
(* Storage is shared with other tabs.  A route is a page or, for the pages *)
(* of an app, the app.                                                     *)
(***************************************************************************)
EXTENDS Naturals, FiniteSets

CONSTANTS
  Accounts,
  NoOne,       \* nobody signed in; the owner of an app not yet created
  Apps,        \* bound: the apps that can be created
  NoApp,
  MaxCalls,    \* bound: calls under way at once (the index page makes two)
  MaxTimers    \* bound: sign-ins and their delayed redirects at once

ASSUME SessionAssumption ==
  /\ NoApp \notin Apps /\ Apps \cap {"home", "login", "register", "index"} = {}
  /\ MaxCalls \in Nat \ {0, 1} /\ MaxTimers \in Nat
  /\ NoOne \notin Accounts

Calls == 1..MaxCalls
SignInPages == {"login", "register"}
Dashboard == {"index"} \cup Apps
Routes == {"home"} \cup SignInPages \cup Dashboard

VARIABLES
  owner,     \* the server: owner of each app
  token,     \* aps_token, by the account it was issued to
  route,     \* the page shown
  signing,   \* loading of a sign-in page
  message,   \* its error or successMsg
  timers,    \* delayed redirects under way
  spinning,  \* loading of the index page
  apps, selected, modal,   \* the layout: apps, selectedApp, showCreateModal
  call,      \* the calls
  turned,    \* ghost: the token changed since the layout was mounted
  calm       \* ghost: since then no call of the layout failed or ran beside
             \* another, and no call from elsewhere created an app

form   == <<signing, message>>
layout == <<apps, selected, modal>>
vars == <<owner, token, route, signing, message, timers, spinning, apps,
          selected, modal, call, turned, calm>>

(* A call: what it is and how far it got ("free", "sent", "ok"); the       *)
(* account of its token, until it is served, or the one to get a token for;*)
(* whether the page that made it is still shown; the app of the path, or   *)
(* none; the apps of the render that made it; those the server answered.   *)
Unused == [kind |-> "none", pc |-> "free", who |-> NoOne, live |-> FALSE,
           path |-> NoApp, base |-> {}, data |-> {}]

AppsOf(account) == {a \in Apps : owner[a] = account /\ account # NoOne}

Free(calls) == {i \in Calls : calls[i].pc = "free"}

(* A call is put in a free slot.                                           *)
Put(calls, record) ==
  [calls EXCEPT ![CHOOSE i \in Calls : i \in Free(calls)] =
     [record EXCEPT !.pc = "sent", !.live = TRUE]]

Clear(i) == [call EXCEPT ![i] = Unused]

(* Faulty: the layout outlives the dashboard.                              *)
PageLeftNotLayout(kind, r) ==
  \/ kind \in SignInPages /\ r # kind
  \/ kind = "index" /\ r # "index"

(* The page of a call goes with its route, the layout with the dashboard.  *)
PageLeft(kind, r) ==
  \/ kind \in SignInPages /\ r # kind
  \/ kind \in {"apps", "create"} /\ r \notin Dashboard
  \/ kind = "index" /\ r # "index"

(* What is left of the calls on route r.  A list of apps has no use but for*)
(* its layout; the other answers do more.                                  *)
Orphaned(calls, r) ==
  [i \in Calls |->
     IF ~PageLeft(calls[i].kind, r) THEN calls[i]
     ELSE IF calls[i].kind = "apps" THEN Unused
     ELSE [calls[i] EXCEPT !.live = FALSE]]

(* fetchWithAuth sends the token stored at the time of the call.           *)
LoadingApps(t, r) == [Unused EXCEPT !.kind = "apps", !.who = t,
                                    !.path = IF r \in Apps THEN r ELSE NoApp]

IndexLoading(t) == [Unused EXCEPT !.kind = "index", !.who = t]

(* Going to route r with token t: pages that are new are mounted, and load.*)
Mounts(calls, t, r) ==
  LET entered == IF r \in Dashboard /\ route \notin Dashboard
                 THEN Put(calls, LoadingApps(t, r)) ELSE calls
  IN IF r = "index" /\ route # "index" THEN Put(entered, IndexLoading(t))
     ELSE entered

(* Room for what route r loads; a bound.                                   *)
Room(calls, r) ==
  Cardinality(Free(calls)) >= (IF r \notin Dashboard THEN 0 ELSE
    (IF route \notin Dashboard THEN 1 ELSE 0)
      + (IF r = "index" /\ route # "index" THEN 1 ELSE 0))

(* The pages' own state is new when they are mounted.                      *)
Show(r, calls, t) ==
  /\ Room(Orphaned(calls, r), r)
  /\ route' = r
  /\ call' = Mounts(Orphaned(calls, r), t, r)
  /\ IF r = route /\ r \in SignInPages THEN UNCHANGED form
     ELSE signing' = FALSE /\ message' = "none"
  /\ spinning' = (IF r = route THEN spinning ELSE r = "index")

(* The router keeps the layout from one page of the dashboard to another.  *)
LayoutStays(r) == route \in Dashboard /\ r \in Dashboard

NewLayout == apps' = {} /\ selected' = NoApp /\ modal' = FALSE /\ calm' = TRUE

Go(r) ==
  /\ Show(r, call, token)
  /\ IF LayoutStays(r) THEN UNCHANGED <<layout, turned, calm>>
     ELSE NewLayout /\ turned' = FALSE

(* The dashboard is opened.                                                *)
Init ==
  /\ owner = [a \in Apps |-> NoOne] /\ token = NoOne
  /\ route = "home"
  /\ signing = FALSE /\ message = "none" /\ timers = 0 /\ spinning = FALSE
  /\ apps = {} /\ selected = NoApp /\ modal = FALSE
  /\ call = [i \in Calls |-> Unused]
  /\ turned = FALSE /\ calm = TRUE

----------------------------------------------------------------------------
(* Moving around.                                                          *)

(* Home passes on.                                                         *)
HomeEffect ==
  /\ route = "home"
  /\ Go(IF token # NoOne THEN "index" ELSE "login")
  /\ UNCHANGED <<owner, token, timers>>

(* Links between the pages, and the browser's back and forward.            *)
Browse(r) ==
  /\ r # route
  /\ Go(r)
  /\ UNCHANGED <<owner, token, timers>>

(* The page is loaded anew: whatever ran on it is gone.                    *)
Reload(r) ==
  /\ route' = r
  /\ LET none == [i \in Calls |-> Unused]
         entered == IF r \in Dashboard THEN Put(none, LoadingApps(token, r))
                    ELSE none
     IN call' = IF r = "index" THEN Put(entered, IndexLoading(token))
                ELSE entered
  /\ signing' = FALSE /\ message' = "none" /\ timers' = 0
  /\ spinning' = (r = "index")
  /\ NewLayout /\ turned' = FALSE
  /\ UNCHANGED <<owner, token>>

(* Another tab signs in or out.                                            *)
OtherTab(t) ==
  /\ token' = t /\ turned' = (turned \/ t # token)
  /\ UNCHANGED <<owner, route, form, timers, spinning, layout, call, calm>>

(* The sidebar: the apps of the switcher, if there are any, and its button.*)
Sidebar ==
  [options |-> IF route \in Dashboard THEN apps ELSE {},
   buttons |-> IF route \in Dashboard THEN {"create"} ELSE {}]

(* Another app is chosen in the switcher.                                  *)
SelectApp(a) ==
  /\ a \in Sidebar.options
  /\ Show(a, call, token)
  /\ selected' = a
  /\ UNCHANGED <<owner, token, timers, apps, modal, turned, calm>>

Logout ==
  /\ route \in Dashboard
  /\ token' = NoOne
  /\ Show("login", call, NoOne)
  /\ NewLayout /\ turned' = FALSE
  /\ UNCHANGED <<owner, timers>>

----------------------------------------------------------------------------
(* Signing in.                                                             *)

SignIns == {i \in Calls : call[i].kind \in SignInPages}

(* What can be pressed on the cards of the two pages: the button that sends*)
(* is disabled while a call is under way.                                  *)
LoginForm ==
  IF route # "login" THEN {}
  ELSE {"tabs", "demo"} \cup (IF signing THEN {} ELSE {"submit"})

RegisterForm == IF route = "register" /\ ~signing THEN {"submit"} ELSE {}

(* The tab of the login page that registers differs in the endpoint only.  *)
Submit(account) ==
  /\ "submit" \in LoginForm \cup RegisterForm /\ Free(call) # {}
  /\ Cardinality(SignIns) + timers < MaxTimers
  /\ signing' = TRUE /\ message' = "none"
  /\ call' = Put(call, [Unused EXCEPT !.kind = route, !.who = account])
  /\ UNCHANGED <<owner, token, route, timers, spinning, layout, turned, calm>>

(* Passwords of the register page that differ, or are too short.           *)
SubmitRefused ==
  /\ "submit" \in RegisterForm
  /\ message' = "error"
  /\ UNCHANGED <<owner, token, route, signing, timers, spinning, layout, call,
                 turned, calm>>

(* The tabs of the login page, and its demo button.                        *)
ChangeTab ==
  /\ LoginForm \cap {"tabs", "demo"} # {} /\ message = "error"
  /\ message' = "none"
  /\ UNCHANGED <<owner, token, route, signing, timers, spinning, layout, call,
                 turned, calm>>

(* The account, new or with its password, is given a token.                *)
ServeSignIn(i) ==
  /\ i \in SignIns /\ call[i].pc = "sent"
  /\ call' = [call EXCEPT ![i].pc = "ok"]
  /\ UNCHANGED <<owner, token, route, form, timers, spinning, layout, turned,
                 calm>>

(* The token is stored, and the redirect comes 400 ms later.               *)
LoginAnswered(i) ==
  /\ call[i].kind = "login" /\ call[i].pc = "ok"
  /\ token' = call[i].who /\ turned' = (turned \/ token' # token)
  /\ IF call[i].live THEN signing' = FALSE /\ message' = "success"
     ELSE UNCHANGED form
  /\ timers' = timers + 1
  /\ call' = Clear(i)
  /\ UNCHANGED <<owner, route, spinning, layout, calm>>

Redirect ==
  /\ timers > 0 /\ timers' = timers - 1
  /\ Go("index")
  /\ UNCHANGED <<owner, token>>

(* The register page goes to the dashboard at once, from wherever the user *)
(* is by then.                                                             *)
RegisterAnswered(i) ==
  /\ call[i].kind = "register" /\ call[i].pc = "ok"
  /\ token' = call[i].who
  /\ Show("index", Clear(i), token')
  /\ IF LayoutStays("index")
     THEN turned' = (turned \/ token' # token) /\ UNCHANGED <<layout, calm>>
     ELSE turned' = FALSE /\ NewLayout
  /\ UNCHANGED <<owner, timers>>

(* Faulty: a call that fails leaves the button disabled.                   *)
SignInFailedSigning(i) ==
  /\ i \in SignIns
  /\ IF call[i].live THEN message' = "error" /\ UNCHANGED signing
     ELSE UNCHANGED form
  /\ call' = Clear(i)
  /\ UNCHANGED <<owner, token, route, timers, spinning, layout, turned, calm>>

(* Refused, or the call is lost before or after it is served.              *)
SignInFailed(i) ==
  /\ i \in SignIns
  /\ IF call[i].live THEN signing' = FALSE /\ message' = "error"
     ELSE UNCHANGED form
  /\ call' = Clear(i)
  /\ UNCHANGED <<owner, token, route, timers, spinning, layout, turned, calm>>

----------------------------------------------------------------------------
(* The lists of apps.                                                      *)

(* Nobody gets an answer without a token.  That one is refused, a token    *)
(* that has expired is, and a call is lost, ends in the same way: it fails.*)
(* No answer clears the token.                                             *)
ServeApps(i) ==
  /\ call[i].kind \in {"apps", "index"} /\ call[i].pc = "sent"
  /\ call[i].who # NoOne
  /\ call' = [call EXCEPT ![i].pc = "ok", ![i].data = AppsOf(call[i].who),
                          ![i].who = NoOne]
  /\ UNCHANGED <<owner, token, route, form, timers, spinning, layout, turned,
                 calm>>

(* The app of the path is selected if it is listed, else the first one; if *)
(* there is none, what was selected stays so.                              *)
AppsAnswered(i) ==
  /\ call[i].kind = "apps" /\ call[i].pc = "ok"
  /\ apps' = call[i].data
  /\ \/ call[i].data = {} /\ UNCHANGED selected
     \/ call[i].path \in call[i].data /\ selected' = call[i].path
     \/ call[i].path \notin call[i].data /\ selected' \in call[i].data
  /\ call' = Clear(i)
  /\ UNCHANGED <<owner, token, route, form, timers, spinning, modal, turned,
                 calm>>

AppsFailed(i) ==
  /\ call[i].kind = "apps"
  /\ calm' = FALSE
  /\ call' = Clear(i)
  /\ UNCHANGED <<owner, token, route, form, timers, spinning, layout, turned>>

(* The index page goes to the first app, even when it is no longer shown.  *)
IndexAnswered(i) ==
  /\ call[i].kind = "index" /\ call[i].pc = "ok"
  /\ \E a \in call[i].data :
       /\ Show(a, Clear(i), token)
       /\ IF LayoutStays(a) THEN UNCHANGED <<layout, turned, calm>>
          ELSE NewLayout /\ turned' = FALSE
  /\ UNCHANGED <<owner, token, timers>>

(* No app, no list of apps, or no answer.                                  *)
IndexStays(i) ==
  /\ call[i].kind = "index" /\ (call[i].pc = "ok" => call[i].data = {})
  /\ spinning' = (spinning /\ ~call[i].live)
  /\ call' = Clear(i)
  /\ UNCHANGED <<owner, token, route, form, timers, layout, turned, calm>>

----------------------------------------------------------------------------
(* Creating an app.                                                        *)

(* What can be pressed in the modal, which covers the sidebar.             *)
CreateForm == IF modal THEN {"cancel", "submit"} ELSE {}

ToggleModal ==
  /\ \/ "create" \in Sidebar.buttons /\ ~modal /\ modal' = TRUE
     \/ "cancel" \in CreateForm /\ modal' = FALSE
  /\ UNCHANGED <<owner, token, route, form, timers, spinning, apps, selected,
                 call, turned, calm>>

OfLayout == {i \in Calls : call[i].kind \in {"apps", "create"} /\ call[i].live}

(* A new app with a name, and the apps of this render.  The button stays   *)
(* enabled.                                                                *)
CreateApp ==
  /\ "submit" \in CreateForm /\ Free(call) # {}
  /\ call' = Put(call, [Unused EXCEPT !.kind = "create", !.who = token,
                                      !.base = apps])
  /\ calm' = (calm /\ OfLayout = {})
  /\ UNCHANGED <<owner, token, route, form, timers, spinning, layout, turned>>

ServeCreate(i) ==
  /\ call[i].kind = "create" /\ call[i].pc = "sent"
  /\ \E a \in Apps :
       /\ call[i].who # NoOne /\ owner[a] = NoOne
       /\ owner' = [owner EXCEPT ![a] = call[i].who]
       /\ call' = [call EXCEPT ![i].pc = "ok", ![i].data = {a},
                               ![i].who = NoOne]
  /\ calm' = (calm /\ call[i].live)
  /\ UNCHANGED <<token, route, form, timers, spinning, layout, turned>>

(* Faulty: the new app replaces those of the render.                       *)
CreateAnsweredAlone(i) ==
  /\ call[i].kind = "create" /\ call[i].pc = "ok"
  /\ \E a \in call[i].data :
       /\ Show(a, Clear(i), token)
       /\ IF call[i].live
          THEN apps' = {a} /\ selected' = a /\ modal' = FALSE
                 /\ UNCHANGED <<turned, calm>>
          ELSE IF LayoutStays(a) THEN UNCHANGED <<layout, turned>> /\ calm' = FALSE
          ELSE NewLayout /\ turned' = FALSE
  /\ UNCHANGED <<owner, token, timers>>

(* It is added to the apps of the render that asked for it, and shown.     *)
CreateAnswered(i) ==
  /\ call[i].kind = "create" /\ call[i].pc = "ok"
  /\ \E a \in call[i].data :
       /\ Show(a, Clear(i), token)
       /\ IF call[i].live
          THEN apps' = call[i].base \cup {a} /\ selected' = a /\ modal' = FALSE
                 /\ UNCHANGED <<turned, calm>>
          ELSE IF LayoutStays(a) THEN UNCHANGED <<layout, turned>> /\ calm' = FALSE
          ELSE NewLayout /\ turned' = FALSE
  /\ UNCHANGED <<owner, token, timers>>

CreateFailed(i) ==
  /\ call[i].kind = "create"
  /\ calm' = FALSE
  /\ call' = Clear(i)
  /\ UNCHANGED <<owner, token, route, form, timers, spinning, layout, turned>>

----------------------------------------------------------------------------
SigningIn ==
  (\E account \in Accounts : Submit(account)) \/ SubmitRefused \/ ChangeTab

UseLayout ==
  Logout \/ (\E a \in Apps : SelectApp(a)) \/ ToggleModal \/ CreateApp

User ==
  \/ SigningIn \/ UseLayout
  \/ \E r \in Routes : Browse(r) \/ Reload(r)
  \/ \E t \in Accounts \cup {NoOne} : OtherTab(t)

Answer(i) ==
  \/ ServeSignIn(i) \/ LoginAnswered(i) \/ RegisterAnswered(i) \/ SignInFailed(i)
  \/ ServeApps(i) \/ AppsAnswered(i) \/ AppsFailed(i)
  \/ IndexAnswered(i) \/ IndexStays(i)
  \/ ServeCreate(i) \/ CreateAnswered(i) \/ CreateFailed(i)

Next == User \/ HomeEffect \/ Redirect \/ \E i \in Calls : Answer(i)

Spec == Init /\ [][Next]_vars

----------------------------------------------------------------------------
(* lib/api.ts:24-35, layout.tsx:43-93, 137-157: whichever answers come     *)
(* late, the apps in the sidebar are those of the account signed in, unless*)
(* the token was changed under the layout, and the one selected is among   *)
(* them, unless none is left (an empty list may come after a new app).     *)
AppsAreTheAccounts ==
  /\ ~turned => \A a \in apps : owner[a] = token
  /\ selected \in apps \cup {NoApp} \/ apps = {}

(* layout.tsx:47-93: used one call at a time, the sidebar lists every app  *)
(* of the account that this layout's calls have created or read.           *)
CalmListIsComplete ==
  route \in Dashboard /\ calm /\ ~turned /\ OfLayout = {}
    => AppsOf(token) \subseteq apps

(* login/page.tsx:17-47, 115-120, register/page.tsx:17-52,                *)
(* dashboard/page.tsx:39-50: a form's button is disabled exactly while its *)
(* one call is under way, whoever is told "Redirecting..." has a redirect  *)
(* under way, and the spinner of the index page turns exactly as long as   *)
(* its own call, no matter what came of calls from earlier visits.         *)
BusyWhileCalling ==
  LET live(kinds) == {i \in Calls : call[i].kind \in kinds /\ call[i].live}
  IN /\ signing <=> live(SignInPages) # {}
     /\ message = "success" => timers > 0
     /\ spinning <=> live({"index"}) # {}
     /\ Cardinality(live(SignInPages)) <= 1
=============================================================================
