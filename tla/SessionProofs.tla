---------------------------- MODULE SessionProofs ----------------------------
(***************************************************************************)
(* Proofs about Session, for every set of accounts and apps and any number *)
(* of calls under way: whichever answers come late, the sidebar shows the  *)
(* apps of the account signed in, used one call at a time it shows all of  *)
(* them, and what is disabled or spinning has its call under way.          *)
(***************************************************************************)
EXTENDS Session, TLAPS, FiniteSetTheorems

USE SessionAssumption

Kinds == {"none", "login", "register", "index", "apps", "create"}

CallRecords ==
  [kind : Kinds, pc : {"free", "sent", "ok"}, who : Accounts \cup {NoOne},
   live : BOOLEAN, path : Apps \cup {NoApp}, base : SUBSET Apps, data : SUBSET Apps]

(* The type of every variable.                                             *)
SessionTypeOK ==
  /\ owner \in [Apps -> Accounts \cup {NoOne}]
  /\ token \in Accounts \cup {NoOne}
  /\ route \in Routes
  /\ signing \in BOOLEAN /\ message \in {"none", "error", "success"}
  /\ timers \in Nat /\ spinning \in BOOLEAN
  /\ apps \subseteq Apps /\ selected \in Apps \cup {NoApp} /\ modal \in BOOLEAN
  /\ call \in [Calls -> CallRecords]
  /\ turned \in BOOLEAN /\ calm \in BOOLEAN

(* A call the page that made it still waits for, by what it is.            *)
OfSignIn(x) == x.kind \in SignInPages /\ x.live
OfIndex(x) == x.kind = "index" /\ x.live
OfShell(x) == x.kind \in {"apps", "create"} /\ x.live

(* What is known of a call while route r is shown: whoever waits for it is *)
(* shown, and what it has brought so far.                                  *)
Sound(x, r) ==
  /\ x.pc = "free" => x = Unused
  /\ x.pc # "free" => x.kind # "none"
  /\ x.kind = "apps" => x.live
  /\ OfSignIn(x) => r = x.kind
  /\ OfIndex(x) => r = "index"
  /\ OfShell(x) => r \in Dashboard
  /\ x.pc = "sent" => x.data = {}
  /\ x.kind = "create" /\ x.pc = "ok" => \E a \in Apps : x.data = {a}

CallInv == \A i \in Calls : Sound(call[i], route)

(* Unless the token has been changed, the calls of the layout speak for    *)
(* the account signed in, and bring what is its own.                       *)
OwnInv ==
  /\ ~turned =>
       /\ apps \subseteq AppsOf(token)
       /\ \A i \in Calls : OfShell(call[i]) =>
            /\ call[i].pc = "sent" => call[i].who = token
            /\ call[i].base \subseteq AppsOf(token)
            /\ call[i].data \subseteq AppsOf(token)
  /\ selected \in apps \cup {NoApp} \/ apps = {}

(* Used one call at a time, what is not yet listed is on its way.          *)
CalmInv ==
  route \in Dashboard /\ calm /\ ~turned =>
    /\ \A i, j \in Calls : OfShell(call[i]) /\ OfShell(call[j]) => i = j
    /\ (\A i \in Calls : ~OfShell(call[i])) => AppsOf(token) \subseteq apps
    /\ \A i \in Calls : OfShell(call[i]) =>
         /\ call[i].kind = "apps" /\ call[i].pc = "ok" => AppsOf(token) \subseteq call[i].data
         /\ call[i].kind = "create" => AppsOf(token) \subseteq call[i].base \cup call[i].data

(* What is disabled or spinning has one call under way.                    *)
BusyInv ==
  /\ signing <=> \E i \in Calls : OfSignIn(call[i])
  /\ \A i, j \in Calls : OfSignIn(call[i]) /\ OfSignIn(call[j]) => i = j
  /\ message = "success" => timers > 0
  /\ spinning <=> \E i \in Calls : OfIndex(call[i])
  /\ \A i, j \in Calls : OfIndex(call[i]) /\ OfIndex(call[j]) => i = j

SessionInv == SessionTypeOK /\ CallInv /\ OwnInv /\ CalmInv /\ BusyInv

----------------------------------------------------------------------------
(* How calls are made and left behind.                                     *)

Sent(x) == [x EXCEPT !.pc = "sent", !.live = TRUE]

(* The kinds of routes.                                                    *)
LEMMA RouteKinds ==
  /\ Dashboard \subseteq Routes /\ SignInPages \subseteq Routes /\ "home" \in Routes
  /\ "home" \notin Dashboard /\ Dashboard \cap SignInPages = {}
  /\ "index" \in Dashboard /\ "index" \notin Apps /\ Apps \subseteq Dashboard
  BY DEF Dashboard, Routes, SignInPages

(* What is sent first by each page is a record of a call.                  *)
LEMMA Records ==
  /\ Unused \in CallRecords
  /\ \A t \in Accounts \cup {NoOne}, r \in Routes :
       Sent(LoadingApps(t, r)) \in CallRecords /\ Sent(IndexLoading(t)) \in CallRecords
<1>1. Unused \in CallRecords
  BY DEF Unused, CallRecords, Kinds
<1>2. ASSUME NEW t \in Accounts \cup {NoOne}, NEW r \in Routes
      PROVE  Sent(LoadingApps(t, r)) \in CallRecords /\ Sent(IndexLoading(t)) \in CallRecords
  BY DEF Unused, CallRecords, Kinds, Sent, LoadingApps, IndexLoading
<1> QED
  BY <1>1, <1>2

(* With one slot free there is one, and with two there is another.         *)
LEMMA FreeSlots ==
  ASSUME NEW calls
  PROVE  /\ Cardinality(Free(calls)) \in Nat
         /\ Cardinality(Free(calls)) >= 1 => Free(calls) # {}
         /\ Cardinality(Free(calls)) >= 2 => \A i \in Free(calls) : Free(calls) \ {i} # {}
<1>1. IsFiniteSet(Calls)
  BY FS_Interval DEF Calls
<1>2. IsFiniteSet(Free(calls)) /\ Cardinality(Free(calls)) \in Nat
  BY <1>1, FS_Subset, FS_CardinalityType DEF Free
<1>3. ASSUME Cardinality(Free(calls)) >= 1 PROVE Free(calls) # {}
  BY <1>2, <1>3, FS_EmptySet
<1>4. ASSUME Cardinality(Free(calls)) >= 2, NEW i \in Free(calls)
      PROVE  Free(calls) \ {i} # {}
  <2>1. Cardinality(Free(calls) \ {i}) = Cardinality(Free(calls)) - 1
    BY <1>2, FS_RemoveElement
  <2> QED
    BY <1>2, <1>4, <2>1, FS_EmptySet
<1> QED
  BY <1>2, <1>3, <1>4

(* A call is put in a slot that was free, and nowhere else.                *)
LEMMA Putting ==
  ASSUME NEW calls \in [Calls -> CallRecords], Free(calls) # {},
         NEW x, Sent(x) \in CallRecords
  PROVE  /\ Put(calls, x) \in [Calls -> CallRecords]
         /\ \E i \in Free(calls) :
              /\ Put(calls, x) = [calls EXCEPT ![i] = Sent(x)]
              /\ Put(calls, x)[i] = Sent(x)
              /\ \A j \in Calls \ {i} : Put(calls, x)[j] = calls[j]
              /\ Free(Put(calls, x)) = Free(calls) \ {i}
<1> DEFINE i == CHOOSE k \in Calls : k \in Free(calls)
<1>1. i \in Free(calls) /\ i \in Calls
  BY DEF Free
<1>2. Put(calls, x) = [calls EXCEPT ![i] = Sent(x)]
  BY DEF Put, Sent
<1> HIDE DEF i
<1>3. Put(calls, x)[i] = Sent(x) /\ \A j \in Calls \ {i} : Put(calls, x)[j] = calls[j]
  BY <1>1, <1>2
<1>4. Sent(x).pc = "sent"
  <2> DEFINE y == Sent(x)
  <2>1. y = [x EXCEPT !.pc = "sent", !.live = TRUE] /\ y \in CallRecords
    BY DEF Sent
  <2>2. "pc" \in DOMAIN x
    <3>1. DOMAIN y = DOMAIN x
      BY <2>1
    <3>2. "pc" \in DOMAIN y
      BY <2>1 DEF CallRecords
    <3> QED
      BY <3>1, <3>2
  <2> QED
    BY <2>1, <2>2
<1>5. Free(Put(calls, x)) = Free(calls) \ {i}
  BY <1>1, <1>3, <1>4 DEF Free
<1> QED
  BY <1>1, <1>2, <1>3, <1>5

(* What the pages that are new on route r have sent.                       *)
LEMMA Mounted ==
  ASSUME NEW calls \in [Calls -> CallRecords], NEW t \in Accounts \cup {NoOne},
         NEW r \in Routes, Room(calls, r), NEW m, m = Mounts(calls, t, r)
  PROVE  /\ m \in [Calls -> CallRecords]
         /\ \A i \in Calls \ Free(calls) : m[i] = calls[i]
         /\ r \in Dashboard /\ route \notin Dashboard => \E i \in Free(calls) :
              /\ m[i] = Sent(LoadingApps(t, r))
              /\ \A j \in Free(calls) \ {i} : m[j] \in {calls[j], Sent(IndexLoading(t))}
         /\ ~(r \in Dashboard /\ route \notin Dashboard) =>
              \A j \in Free(calls) : m[j] \in {calls[j], Sent(IndexLoading(t))}
         /\ r = "index" /\ route # "index" => \E i \in Free(calls) :
              /\ m[i] = Sent(IndexLoading(t))
              /\ \A j \in Free(calls) \ {i} : m[j] \in {calls[j], Sent(LoadingApps(t, r))}
         /\ ~(r = "index" /\ route # "index") =>
              \A j \in Free(calls) : m[j] \in {calls[j], Sent(LoadingApps(t, r))}
<1> DEFINE a == LoadingApps(t, r)
           x == IndexLoading(t)
           e == IF r \in Dashboard /\ route \notin Dashboard THEN Put(calls, a) ELSE calls
<1>1. Sent(a) \in CallRecords /\ Sent(x) \in CallRecords
  BY Records
<1>2. m = IF r = "index" /\ route # "index" THEN Put(e, x) ELSE e
  BY DEF Mounts
<1>3. Free(calls) \subseteq Calls /\ "index" \in Dashboard
  BY RouteKinds DEF Free
<1>4. CASE r \in Dashboard /\ route \notin Dashboard
  <2>1. Free(calls) # {}
    BY <1>4, FreeSlots DEF Room
  <2>2. e = Put(calls, a)
    BY <1>4
  <2> HIDE DEF a, x, e
  <2>3. e \in [Calls -> CallRecords]
    BY <1>1, <2>1, <2>2, Putting
  <2>4. PICK i \in Free(calls) : /\ e[i] = Sent(a)
                                 /\ \A j \in Calls \ {i} : e[j] = calls[j]
                                 /\ Free(e) = Free(calls) \ {i}
    BY <1>1, <2>1, <2>2, Putting
  <2>5. CASE r = "index"
    <3>1. route # "index"
      BY <1>3, <1>4
    <3>2. Free(e) # {}
      BY <1>4, <2>4, <2>5, <3>1, FreeSlots DEF Room
    <3>3. m = Put(e, x) /\ m \in [Calls -> CallRecords]
      BY <1>1, <1>2, <2>3, <2>5, <3>1, <3>2, Putting
    <3>4. PICK k \in Free(e) : m[k] = Sent(x) /\ \A j \in Calls \ {k} : m[j] = e[j]
      BY <1>1, <2>3, <3>2, <3>3, Putting
    <3>5. k \in Free(calls) /\ k # i /\ m[i] = Sent(a)
      BY <1>3, <2>4, <3>4
    <3> QED
      BY <1>3, <1>4, <2>4, <2>5, <3>1, <3>3, <3>4, <3>5 DEF a, x
  <2>6. CASE r # "index"
    BY <1>2, <1>3, <1>4, <2>3, <2>4, <2>6 DEF a, x
  <2> QED
    BY <2>5, <2>6
<1>5. CASE ~(r \in Dashboard /\ route \notin Dashboard)
  <2>1. e = calls
    BY <1>5
  <2>2. CASE r = "index" /\ route # "index"
    <3>1. Free(calls) # {}
      BY <1>3, <1>5, <2>2, FreeSlots DEF Room
    <3>2. m = Put(calls, x)
      BY <1>2, <2>1, <2>2
    <3> HIDE DEF a, x, e
    <3>3. m \in [Calls -> CallRecords]
      BY <1>1, <3>1, <3>2, Putting
    <3>4. PICK k \in Free(calls) : m[k] = Sent(x) /\ \A j \in Calls \ {k} : m[j] = calls[j]
      BY <1>1, <3>1, <3>2, Putting
    <3> QED
      BY <1>3, <1>5, <2>2, <3>3, <3>4 DEF a, x
  <2>3. CASE ~(r = "index" /\ route # "index")
    BY <1>2, <1>5, <2>1, <2>3
  <2> QED
    BY <2>2, <2>3
<1> QED
  BY <1>4, <1>5

(* What is left of a call on route r.                                      *)
LEMMA Leaving ==
  ASSUME NEW calls \in [Calls -> CallRecords], NEW r \in Routes, NEW o,
         o = Orphaned(calls, r), \A i \in Calls : Sound(calls[i], route)
  PROVE  /\ o \in [Calls -> CallRecords]
         /\ \A i \in Calls :
              /\ i \in Free(o) => o[i] = Unused
              /\ Sound(o[i], r)
              /\ OfShell(o[i]) => o[i] = calls[i]
              /\ OfShell(calls[i]) /\ r \in Dashboard => o[i] = calls[i]
              /\ OfSignIn(o[i]) <=> OfSignIn(calls[i]) /\ r = route
              /\ OfIndex(o[i]) <=> OfIndex(calls[i]) /\ r = route
<1>1. ASSUME NEW i \in Calls
      PROVE  /\ o[i] \in CallRecords
             /\ \/ o[i] = calls[i] /\ ~PageLeft(calls[i].kind, r)
                \/ o[i] = Unused /\ calls[i].kind = "apps" /\ r \notin Dashboard
                \/ /\ o[i] = [calls[i] EXCEPT !.live = FALSE]
                   /\ PageLeft(calls[i].kind, r) /\ calls[i].kind # "apps"
  <2>1. o[i] = IF ~PageLeft(calls[i].kind, r) THEN calls[i]
               ELSE IF calls[i].kind = "apps" THEN Unused
               ELSE [calls[i] EXCEPT !.live = FALSE]
    BY DEF Orphaned
  <2>2. calls[i] \in CallRecords /\ [calls[i] EXCEPT !.live = FALSE] \in CallRecords
    BY DEF CallRecords
  <2> QED
    BY <2>1, <2>2, Records DEF PageLeft, SignInPages
<1>2. o \in [Calls -> CallRecords]
  BY <1>1 DEF Orphaned
<1>3. ASSUME NEW i \in Calls
      PROVE  /\ o[i].pc = "free" => o[i] = Unused
             /\ Sound(o[i], r)
             /\ OfShell(o[i]) => o[i] = calls[i]
             /\ OfShell(calls[i]) /\ r \in Dashboard => o[i] = calls[i]
             /\ OfSignIn(o[i]) <=> OfSignIn(calls[i]) /\ r = route
             /\ OfIndex(o[i]) <=> OfIndex(calls[i]) /\ r = route
  <2> DEFINE x == calls[i]
             y == o[i]
  <2>1. x \in CallRecords /\ Sound(x, route)
    OBVIOUS
  <2> HIDE DEF x, y
  <2>2. CASE y = x /\ ~PageLeft(x.kind, r)
    BY <2>1, <2>2, RouteKinds DEF Sound, PageLeft, OfShell, OfSignIn, OfIndex, SignInPages,
       CallRecords, Kinds, x, y
  <2>3. CASE y = Unused /\ x.kind = "apps" /\ r \notin Dashboard
    BY <2>1, <2>3, RouteKinds DEF Sound, OfShell, OfSignIn, OfIndex, SignInPages, Unused,
       CallRecords, Kinds, x, y
  <2>4. CASE y = [x EXCEPT !.live = FALSE] /\ PageLeft(x.kind, r) /\ x.kind # "apps"
    <3>1. /\ y.pc = x.pc /\ y.kind = x.kind /\ y.data = x.data /\ y.live = FALSE
          /\ x.pc # "free"
      BY <2>1, <2>4 DEF CallRecords, PageLeft, Sound, Unused, SignInPages
    <3> QED
      BY <2>1, <2>4, <3>1, RouteKinds DEF Sound, PageLeft, OfShell, OfSignIn, OfIndex,
         SignInPages, CallRecords, Kinds, x, y
  <2> QED
    BY <1>1, <2>2, <2>3, <2>4 DEF x, y
<1> QED
  BY <1>2, <1>3 DEF Free

(* The calls of the layout stay with it, and a new layout has one.         *)
ShellFollows(calls, t, r) ==
  /\ route \in Dashboard /\ r \in Dashboard => \A i \in Calls :
       /\ OfShell(call'[i]) <=> OfShell(calls[i])
       /\ OfShell(calls[i]) => call'[i] = calls[i]
  /\ route \notin Dashboard /\ r \in Dashboard => \E i \in Calls :
       /\ call'[i] = Sent(LoadingApps(t, r))
       /\ \A j \in Calls \ {i} : ~OfShell(call'[j])
  /\ r \notin Dashboard => \A i \in Calls : ~OfShell(call'[i])

(* So do those of a page.                                                  *)
PagesFollow(calls, r) ==
  /\ \A i \in Calls : OfSignIn(call'[i]) <=> OfSignIn(calls[i]) /\ r = route
  /\ r = route => \A i \in Calls : OfIndex(call'[i]) <=> OfIndex(calls[i])
  /\ r # route /\ r = "index" => \E i \in Calls :
       OfIndex(call'[i]) /\ \A j \in Calls \ {i} : ~OfIndex(call'[j])
  /\ r # route /\ r # "index" => \A i \in Calls : ~OfIndex(call'[i])

(* What a page that is shown finds: its own calls, and those that stay.     *)
LEMMA Shown ==
  ASSUME NEW calls \in [Calls -> CallRecords], NEW t \in Accounts \cup {NoOne},
         NEW r \in Routes, \A i \in Calls : Sound(calls[i], route), Show(r, calls, t)
  PROVE  /\ route' = r /\ call' \in [Calls -> CallRecords]
         /\ \A i \in Calls : Sound(call'[i], r)
         /\ ShellFollows(calls, t, r) /\ PagesFollow(calls, r)
<1> DEFINE o == Orphaned(calls, r)
           a == Sent(LoadingApps(t, r))
           x == Sent(IndexLoading(t))
<1>1. route' = r /\ Room(o, r) /\ call' = Mounts(o, t, r)
  BY DEF Show
<1>2. /\ o \in [Calls -> CallRecords]
      /\ \A i \in Calls :
           /\ i \in Free(o) => o[i] = Unused
           /\ Sound(o[i], r)
           /\ OfShell(o[i]) => o[i] = calls[i]
           /\ OfShell(calls[i]) /\ r \in Dashboard => o[i] = calls[i]
           /\ OfSignIn(o[i]) <=> OfSignIn(calls[i]) /\ r = route
           /\ OfIndex(o[i]) <=> OfIndex(calls[i]) /\ r = route
  BY Leaving
<1>3. /\ OfShell(a) /\ ~OfSignIn(a) /\ ~OfIndex(a) /\ (r \in Dashboard => Sound(a, r))
      /\ OfIndex(x) /\ ~OfSignIn(x) /\ ~OfShell(x) /\ (r = "index" => Sound(x, r))
      /\ ~OfShell(Unused) /\ ~OfIndex(Unused) /\ ~OfSignIn(Unused)
  BY DEF Sound, Sent, LoadingApps, IndexLoading, Unused, OfShell, OfSignIn, OfIndex,
         SignInPages
<1> HIDE DEF o, a, x
<1>4. /\ call' \in [Calls -> CallRecords]
      /\ \A i \in Calls \ Free(o) : call'[i] = o[i]
      /\ r \in Dashboard /\ route \notin Dashboard => \E i \in Free(o) :
           /\ call'[i] = a
           /\ \A j \in Free(o) \ {i} : call'[j] \in {o[j], x}
      /\ ~(r \in Dashboard /\ route \notin Dashboard) =>
           \A j \in Free(o) : call'[j] \in {o[j], x}
      /\ r = "index" /\ route # "index" => \E i \in Free(o) :
           /\ call'[i] = x
           /\ \A j \in Free(o) \ {i} : call'[j] \in {o[j], a}
      /\ ~(r = "index" /\ route # "index") =>
           \A j \in Free(o) : call'[j] \in {o[j], a}
  BY <1>1, <1>2, Mounted DEF a, x
<1>5. ASSUME NEW i \in Calls
      PROVE  \/ call'[i] = o[i]
             \/ i \in Free(o) /\ call'[i] = a /\ r \in Dashboard /\ route \notin Dashboard
             \/ i \in Free(o) /\ call'[i] = x /\ r = "index" /\ route # "index"
  <2>1. CASE i \notin Free(o)
    BY <1>4, <2>1
  <2>2. CASE i \in Free(o)
    <3>1. call'[i] = o[i] \/ call'[i] = a \/ call'[i] = x
      BY <1>4, <2>2
    <3>2. a # x
      BY <1>3
    <3> QED
      BY <1>4, <2>2, <3>1, <3>2
  <2> QED
    BY <2>1, <2>2
<1>6. \A i \in Calls : Sound(call'[i], r)
  BY <1>2, <1>3, <1>5
<1>7. ShellFollows(calls, t, r)
  <2>1. ASSUME route \in Dashboard, r \in Dashboard, NEW i \in Calls
        PROVE  /\ OfShell(call'[i]) <=> OfShell(calls[i])
               /\ OfShell(calls[i]) => call'[i] = calls[i]
    <3>1. call'[i] = o[i] \/ (i \in Free(o) /\ call'[i] = x)
      BY <1>5, <2>1
    <3>2. OfShell(o[i]) <=> OfShell(calls[i])
      BY <1>2, <2>1
    <3>3. i \in Free(o) => ~OfShell(o[i])
      BY <1>2, <1>3
    <3> QED
      BY <1>2, <1>3, <2>1, <3>1, <3>2, <3>3
  <2>2. ASSUME route \notin Dashboard
        PROVE  \A i \in Calls : ~OfShell(o[i])
    <3> TAKE i \in Calls
    <3>1. Sound(calls[i], route) /\ (OfShell(o[i]) => o[i] = calls[i])
      BY <1>2
    <3> QED
      BY <2>2, <3>1 DEF Sound
  <2>3. ASSUME route \notin Dashboard, r \in Dashboard
        PROVE  \E i \in Calls : call'[i] = a /\ \A j \in Calls \ {i} : ~OfShell(call'[j])
    <3>1. PICK i \in Free(o) : /\ call'[i] = a
                               /\ \A j \in Free(o) \ {i} : call'[j] \in {o[j], x}
      BY <1>4, <2>3
    <3>2. ASSUME NEW j \in Calls \ {i} PROVE ~OfShell(call'[j])
      BY <1>3, <1>4, <2>2, <2>3, <3>1
    <3>3. i \in Calls
      BY DEF Free
    <3> QED
      BY <3>1, <3>2, <3>3
  <2>4. ASSUME r \notin Dashboard, NEW i \in Calls PROVE ~OfShell(call'[i])
    BY <1>6, <2>4 DEF Sound
  <2> QED
    BY <2>1, <2>3, <2>4 DEF ShellFollows, a
<1>8. PagesFollow(calls, r)
  <2>1. \A i \in Calls : OfSignIn(call'[i]) <=> OfSignIn(calls[i]) /\ r = route
    BY <1>2, <1>3, <1>5
  <2>2. r = route => \A i \in Calls : OfIndex(call'[i]) <=> OfIndex(calls[i])
    BY <1>2, <1>3, <1>5
  <2>3. ASSUME r # route, r = "index"
        PROVE  \E i \in Calls : OfIndex(call'[i]) /\ \A j \in Calls \ {i} : ~OfIndex(call'[j])
    <3>1. PICK i \in Free(o) : /\ call'[i] = x
                               /\ \A j \in Free(o) \ {i} : call'[j] \in {o[j], a}
      BY <1>4, <2>3
    <3>2. ASSUME NEW j \in Calls \ {i} PROVE ~OfIndex(call'[j])
      BY <1>2, <1>3, <1>4, <2>3, <3>1
    <3>3. i \in Calls
      BY DEF Free
    <3> QED
      BY <1>3, <3>1, <3>2, <3>3
  <2>4. r # route /\ r # "index" => \A i \in Calls : ~OfIndex(call'[i])
    BY <1>2, <1>3, <1>5
  <2> QED
    BY <2>1, <2>2, <2>3, <2>4 DEF PagesFollow
<1> QED
  BY <1>1, <1>4, <1>6, <1>7, <1>8

----------------------------------------------------------------------------
(* What a step keeps, by the part of the shell it concerns.                *)

(* A slot no longer in use.                                                *)
LEMMA Cleared ==
  ASSUME SessionTypeOK, CallInv, NEW i \in Calls
  PROVE  /\ Clear(i) \in [Calls -> CallRecords]
         /\ Clear(i)[i] = Unused /\ \A j \in Calls \ {i} : Clear(i)[j] = call[j]
         /\ \A j \in Calls : Sound(Clear(i)[j], route)
         /\ ~OfShell(Unused) /\ ~OfSignIn(Unused) /\ ~OfIndex(Unused)
<1>1. /\ ~OfShell(Unused) /\ ~OfSignIn(Unused) /\ ~OfIndex(Unused)
      /\ Sound(Unused, route)
  BY DEF OfShell, OfSignIn, OfIndex, Unused, Sound, SignInPages
<1>2. /\ Clear(i) \in [Calls -> CallRecords]
      /\ Clear(i)[i] = Unused /\ \A j \in Calls \ {i} : Clear(i)[j] = call[j]
  BY Records DEF Clear, SessionTypeOK
<1> QED
  BY <1>1, <1>2 DEF CallInv

(* The layout's list and calls stay what they are.                         *)
LEMMA SameShell ==
  ASSUME OwnInv, CalmInv, owner' = owner, apps' = apps,
         \A i \in Calls : /\ OfShell(call'[i]) <=> OfShell(call[i])
                          /\ OfShell(call[i]) => call'[i] = call[i],
         ~turned' => ~turned /\ token' = token,
         calm' /\ route' \in Dashboard => calm /\ route \in Dashboard,
         selected' = selected \/ selected' \in apps
  PROVE  OwnInv' /\ CalmInv'
<1>1. ~turned' => AppsOf(token)' = AppsOf(token)
  BY DEF AppsOf
<1>2. OwnInv'
  BY <1>1 DEF OwnInv
<1>3. CalmInv'
  <2> SUFFICES ASSUME route' \in Dashboard, calm', ~turned'
               PROVE  /\ \A i, j \in Calls : OfShell(call'[i]) /\ OfShell(call'[j]) => i = j
                      /\ (\A i \in Calls : ~OfShell(call'[i])) => AppsOf(token) \subseteq apps
                      /\ \A i \in Calls : OfShell(call'[i]) =>
                           /\ call'[i].kind = "apps" /\ call'[i].pc = "ok" =>
                                AppsOf(token) \subseteq call'[i].data
                           /\ call'[i].kind = "create" =>
                                AppsOf(token) \subseteq call'[i].base \cup call'[i].data
    BY <1>1 DEF CalmInv
  <2> QED
    BY DEF CalmInv
<1> QED
  BY <1>2, <1>3

(* A layout that is new has the call for its list, and nothing else.       *)
LEMMA NewShell ==
  ASSUME NEW calls, NEW t, NEW r, route' = r, ShellFollows(calls, t, r), ~LayoutStays(r),
         token' = t, NewLayout
  PROVE  OwnInv' /\ CalmInv'
<1>1. /\ Sent(LoadingApps(t, r)).pc = "sent" /\ Sent(LoadingApps(t, r)).who = t
      /\ Sent(LoadingApps(t, r)).kind = "apps"
      /\ Sent(LoadingApps(t, r)).base = {} /\ Sent(LoadingApps(t, r)).data = {}
      /\ OfShell(Sent(LoadingApps(t, r)))
  BY DEF Sent, LoadingApps, Unused, OfShell
<1>2. CASE r \notin Dashboard
  BY <1>2 DEF NewLayout, ShellFollows, OwnInv, CalmInv
<1>3. CASE r \in Dashboard
  <2>1. PICK i \in Calls : /\ call'[i] = Sent(LoadingApps(t, r))
                           /\ \A j \in Calls \ {i} : ~OfShell(call'[j])
    BY <1>3 DEF ShellFollows, LayoutStays
  <2>2. \A j \in Calls : OfShell(call'[j]) => j = i
    BY <2>1
  <2>3. OwnInv'
    BY <1>1, <2>1, <2>2 DEF NewLayout, OwnInv
  <2>4. CalmInv'
    BY <1>1, <2>1, <2>2 DEF CalmInv
  <2> QED
    BY <2>3, <2>4
<1> QED
  BY <1>2, <1>3

(* The pages' own calls stay what they are.                                *)
LEMMA SamePages ==
  ASSUME BusyInv, UNCHANGED <<signing, spinning>>, message' = message \/ message' # "success",
         timers' = timers,
         \A i \in Calls : /\ OfSignIn(call'[i]) <=> OfSignIn(call[i])
                          /\ OfIndex(call'[i]) <=> OfIndex(call[i])
  PROVE  BusyInv'
  BY DEF BusyInv

(* The pages' own calls go with them, and so does what they disable.       *)
LEMMA ShownPages ==
  ASSUME SessionTypeOK, CallInv, BusyInv, NEW calls, NEW t, NEW r \in Routes,
         Show(r, calls, t), PagesFollow(calls, r), \A i \in Calls : Sound(call'[i], r),
         r = route => \A i \in Calls : OfIndex(calls[i]) <=> OfIndex(call[i]),
         r \in SignInPages => timers' = timers,
         r = route /\ r \in SignInPages => calls = call
  PROVE  BusyInv'
<1>1. spinning' = (IF r = route THEN spinning ELSE r = "index")
  BY DEF Show
<1>2. /\ spinning' <=> \E i \in Calls : OfIndex(call'[i])
      /\ \A i, j \in Calls : OfIndex(call'[i]) /\ OfIndex(call'[j]) => i = j
  <2>1. CASE r = route
    BY <1>1, <2>1 DEF PagesFollow, BusyInv
  <2>2. CASE r # route /\ r = "index"
    BY <1>1, <2>2 DEF PagesFollow
  <2>3. CASE r # route /\ r # "index"
    BY <1>1, <2>3 DEF PagesFollow
  <2> QED
    BY <2>1, <2>2, <2>3
<1>3. /\ signing' <=> \E i \in Calls : OfSignIn(call'[i])
      /\ \A i, j \in Calls : OfSignIn(call'[i]) /\ OfSignIn(call'[j]) => i = j
      /\ message' = "success" => timers' > 0
  <2>1. CASE r = route /\ r \in SignInPages
    BY <2>1 DEF Show, form, PagesFollow, BusyInv
  <2>2. CASE ~(r = route /\ r \in SignInPages)
    <3>1. signing' = FALSE /\ message' = "none"
      BY <2>2 DEF Show
    <3>2. \A i \in Calls : ~OfSignIn(call'[i])
      <4>1. ASSUME NEW i \in Calls, OfSignIn(call'[i]) PROVE FALSE
        <5>1. OfSignIn(calls[i]) /\ r = route
          BY <4>1 DEF PagesFollow
        <5> QED
          BY <2>2, <4>1, <5>1 DEF Sound, OfSignIn
      <4> QED
        BY <4>1
    <3> QED
      BY <3>1, <3>2
  <2> QED
    BY <2>1, <2>2
<1> QED
  BY <1>2, <1>3 DEF BusyInv

----------------------------------------------------------------------------
(* Each action keeps the invariant.                                        *)

(* A page is shown: everything but the layout follows from Show.           *)
LEMMA ShowKeeps ==
  ASSUME SessionInv, NEW calls \in [Calls -> CallRecords],
         NEW t \in Accounts \cup {NoOne}, NEW r \in Routes, Show(r, calls, t),
         \A i \in Calls : Sound(calls[i], route),
         r = route => \A i \in Calls : OfIndex(calls[i]) <=> OfIndex(call[i]),
         r = route /\ r \in SignInPages => calls = call,
         timers' \in Nat, r \in SignInPages => timers' = timers,
         owner' = owner, token' \in Accounts \cup {NoOne},
         apps' \subseteq Apps, selected' \in Apps \cup {NoApp}, modal' \in BOOLEAN,
         turned' \in BOOLEAN, calm' \in BOOLEAN
  PROVE  SessionTypeOK' /\ CallInv' /\ BusyInv' /\ ShellFollows(calls, t, r) /\ route' = r
<1>1. /\ route' = r /\ call' \in [Calls -> CallRecords]
      /\ \A i \in Calls : Sound(call'[i], r)
      /\ ShellFollows(calls, t, r) /\ PagesFollow(calls, r)
  BY Shown
<1>2. /\ signing' \in BOOLEAN /\ message' \in {"none", "error", "success"}
      /\ spinning' \in BOOLEAN
  BY DEF Show, form, SessionInv, SessionTypeOK
<1>3. SessionTypeOK'
  BY <1>1, <1>2 DEF SessionInv, SessionTypeOK
<1>4. CallInv'
  BY <1>1 DEF CallInv
<1>5. BusyInv'
  BY <1>1, ShownPages DEF SessionInv
<1> QED
  BY <1>1, <1>3, <1>4, <1>5

(* Going somewhere by a link, the pages that pass on, or a late redirect.  *)
LEMMA GoKeeps ==
  ASSUME SessionInv, NEW r \in Routes, Go(r), UNCHANGED <<owner, token>>,
         timers' \in Nat, r \in SignInPages => timers' = timers
  PROVE  SessionInv'
<1>1. /\ Show(r, call, token) /\ call \in [Calls -> CallRecords]
      /\ token \in Accounts \cup {NoOne}
      /\ \A i \in Calls : Sound(call[i], route)
  BY DEF Go, SessionInv, SessionTypeOK, CallInv
<1>2. /\ apps' \subseteq Apps /\ selected' \in Apps \cup {NoApp} /\ modal' \in BOOLEAN
      /\ turned' \in BOOLEAN /\ calm' \in BOOLEAN
  BY DEF Go, NewLayout, SessionInv, SessionTypeOK, layout
<1>3. SessionTypeOK' /\ CallInv' /\ BusyInv' /\ ShellFollows(call, token, r) /\ route' = r
  BY <1>1, <1>2, ShowKeeps
<1>4. CASE LayoutStays(r)
  <2>1. \A i \in Calls : /\ OfShell(call'[i]) <=> OfShell(call[i])
                         /\ OfShell(call[i]) => call'[i] = call[i]
    BY <1>3, <1>4 DEF LayoutStays, ShellFollows
  <2>2. UNCHANGED <<apps, selected, turned, calm>> /\ route \in Dashboard
    BY <1>4 DEF Go, layout, LayoutStays
  <2> QED
    BY <1>3, <2>1, <2>2, SameShell DEF SessionInv
<1>5. CASE ~LayoutStays(r)
  <2>1. NewLayout
    BY <1>5 DEF Go
  <2> QED
    BY <1>3, <1>5, <2>1, NewShell DEF SessionInv
<1> QED
  BY <1>4, <1>5

(* A call that is not of the layout, and at most one of the pages, ends.   *)
LEMMA ClearKeepsTypes ==
  ASSUME SessionTypeOK, CallInv, NEW i \in Calls, call' = Clear(i), route' = route
  PROVE  /\ call' \in [Calls -> CallRecords] /\ CallInv'
         /\ call'[i] = Unused /\ \A j \in Calls \ {i} : call'[j] = call[j]
         /\ ~OfShell(call'[i]) /\ ~OfSignIn(call'[i]) /\ ~OfIndex(call'[i])
  BY Cleared DEF CallInv

(* Home passes on to the dashboard or to the login page.                    *)
LEMMA HomeKeeps == SessionInv /\ HomeEffect => SessionInv'
<1> SUFFICES ASSUME SessionInv, HomeEffect PROVE SessionInv'
  OBVIOUS
<1>1. timers' \in Nat
  BY DEF HomeEffect, SessionInv, SessionTypeOK
<1>2. Go("index") \/ Go("login")
  BY DEF HomeEffect
<1>3. "index" \in Routes /\ "login" \in Routes
  BY DEF Routes, Dashboard, SignInPages
<1> QED
  BY <1>1, <1>2, <1>3, GoKeeps DEF HomeEffect

(* A link, or the browser's back and forward.                               *)
LEMMA BrowseKeeps ==
  ASSUME SessionInv, NEW r \in Routes, Browse(r)
  PROVE  SessionInv'
  BY GoKeeps DEF Browse, SessionInv, SessionTypeOK

(* The redirect that comes late, from wherever the user is by then.         *)
LEMMA RedirectKeeps == SessionInv /\ Redirect => SessionInv'
<1> SUFFICES ASSUME SessionInv, Redirect PROVE SessionInv'
  OBVIOUS
<1>1. timers' \in Nat
  BY DEF Redirect, SessionInv, SessionTypeOK
<1>2. "index" \in Routes /\ "index" \notin SignInPages
  BY DEF Routes, Dashboard, SignInPages
<1> QED
  BY <1>1, <1>2, GoKeeps DEF Redirect

(* Whatever ran on the page is gone; what it loads anew is under way.      *)
LEMMA ReloadKeeps ==
  ASSUME SessionInv, NEW r \in Routes, Reload(r)
  PROVE  SessionInv'
<1> USE DEF SessionInv
<1> DEFINE none == [i \in Calls |-> Unused]
           a == LoadingApps(token, r)
           x == IndexLoading(token)
           e == IF r \in Dashboard THEN Put(none, a) ELSE none
<1>1. /\ route' = r /\ call' = IF r = "index" THEN Put(e, x) ELSE e
      /\ signing' = FALSE /\ message' = "none" /\ timers' = 0
      /\ spinning' = (r = "index") /\ NewLayout /\ turned' = FALSE
      /\ UNCHANGED <<owner, token>>
  BY DEF Reload
<1>2. /\ none \in [Calls -> CallRecords] /\ Sent(a) \in CallRecords /\ Sent(x) \in CallRecords
      /\ Free(none) = Calls /\ 1 \in Calls /\ 2 \in Calls
      /\ \A i \in Calls : none[i] = Unused
  BY Records DEF SessionTypeOK, Free, Unused, Calls
<1>3. /\ OfShell(Sent(a)) /\ ~OfSignIn(Sent(a)) /\ ~OfIndex(Sent(a))
      /\ (r \in Dashboard => Sound(Sent(a), r))
      /\ OfIndex(Sent(x)) /\ ~OfSignIn(Sent(x)) /\ ~OfShell(Sent(x))
      /\ (r = "index" => Sound(Sent(x), r))
      /\ ~OfShell(Unused) /\ ~OfIndex(Unused) /\ ~OfSignIn(Unused) /\ Sound(Unused, r)
      /\ Sent(a).pc = "sent" /\ Sent(a).who = token /\ Sent(a).kind = "apps"
      /\ Sent(a).base = {} /\ Sent(a).data = {}
  BY DEF Sound, Sent, LoadingApps, IndexLoading, Unused, OfShell, OfSignIn, OfIndex,
         SignInPages
<1> HIDE DEF none, a, x
<1>4. /\ call' \in [Calls -> CallRecords]
      /\ \A i \in Calls : Sound(call'[i], r) /\ ~OfSignIn(call'[i])
      /\ \A i, j \in Calls : OfIndex(call'[i]) /\ OfIndex(call'[j]) => i = j
      /\ (r = "index") <=> \E i \in Calls : OfIndex(call'[i])
      /\ \A i, j \in Calls : OfShell(call'[i]) /\ OfShell(call'[j]) => i = j
      /\ \A i \in Calls : OfShell(call'[i]) => call'[i] = Sent(a)
      /\ r \in Dashboard => \E i \in Calls : OfShell(call'[i])
  <2>1. CASE r \notin Dashboard
    <3>1. call' = none /\ r # "index"
      BY <1>1, <2>1, RouteKinds
    <3> QED
      BY <1>2, <1>3, <2>1, <3>1
  <2>2. CASE r \in Dashboard
    <3>1. e = Put(none, a)
      BY <2>2
    <3> HIDE DEF e
    <3>2. e \in [Calls -> CallRecords]
      BY <1>2, <3>1, Putting
    <3>3. PICK i \in Calls : /\ e[i] = Sent(a) /\ \A j \in Calls \ {i} : e[j] = Unused
                             /\ Free(e) = Calls \ {i}
      BY <1>2, <3>1, Putting
    <3>4. CASE r # "index"
      BY <1>1, <1>3, <2>2, <3>2, <3>3, <3>4
    <3>5. CASE r = "index"
      <4>1. Free(e) # {}
        <5>1. 1 # 2
          OBVIOUS
        <5> QED
          BY <1>2, <3>3, <5>1
      <4>2. call' = Put(e, x) /\ call' \in [Calls -> CallRecords]
        BY <1>1, <1>2, <3>2, <3>5, <4>1, Putting
      <4>3. PICK k \in Free(e) : call'[k] = Sent(x) /\ \A j \in Calls \ {k} : call'[j] = e[j]
        BY <1>2, <3>2, <4>1, <4>2, Putting
      <4> QED
        BY <1>3, <2>2, <3>3, <3>5, <4>2, <4>3
    <3> QED
      BY <3>4, <3>5
  <2> QED
    BY <2>1, <2>2
<1>5. SessionTypeOK' /\ CallInv' /\ BusyInv'
  BY <1>1, <1>4 DEF SessionTypeOK, CallInv, BusyInv, NewLayout
<1>6. OwnInv' /\ CalmInv'
  BY <1>1, <1>3, <1>4 DEF OwnInv, CalmInv, NewLayout
<1> QED
  BY <1>5, <1>6

(* A token changed by another tab is a token turned.                        *)
LEMMA OtherTabKeeps ==
  ASSUME SessionInv, NEW t \in Accounts \cup {NoOne}, OtherTab(t)
  PROVE  SessionInv'
<1> USE DEF SessionInv
<1>1. /\ UNCHANGED <<owner, route, signing, message, timers, spinning, apps, selected, modal,
                     call, calm>>
      /\ token' = t /\ turned' = (turned \/ t # token)
  BY DEF OtherTab, form, layout
<1>2. SessionTypeOK' /\ CallInv' /\ BusyInv'
  BY <1>1 DEF SessionTypeOK, CallInv, BusyInv
<1>3. OwnInv' /\ CalmInv'
  BY <1>1, SameShell
<1> QED
  BY <1>2, <1>3

(* Another app is selected, of those listed.                                *)
LEMMA SelectKeeps ==
  ASSUME SessionInv, NEW a \in Apps, SelectApp(a)
  PROVE  SessionInv'
<1>1. /\ Show(a, call, token) /\ call \in [Calls -> CallRecords]
      /\ token \in Accounts \cup {NoOne} /\ a \in Routes /\ a \notin SignInPages
      /\ a \in Dashboard /\ route \in Dashboard /\ a \in apps
      /\ \A i \in Calls : Sound(call[i], route)
  BY RouteKinds DEF SelectApp, Sidebar, SessionInv, SessionTypeOK, CallInv
<1>2. UNCHANGED <<owner, token, timers, apps, modal, turned, calm>> /\ selected' = a
  BY DEF SelectApp
<1>3. /\ apps' \subseteq Apps /\ selected' \in Apps \cup {NoApp} /\ modal' \in BOOLEAN
      /\ turned' \in BOOLEAN /\ calm' \in BOOLEAN /\ timers' \in Nat
  BY <1>2 DEF SessionInv, SessionTypeOK
<1>4. SessionTypeOK' /\ CallInv' /\ BusyInv' /\ ShellFollows(call, token, a) /\ route' = a
  BY <1>1, <1>2, <1>3, ShowKeeps
<1>5. \A i \in Calls : /\ OfShell(call'[i]) <=> OfShell(call[i])
                       /\ OfShell(call[i]) => call'[i] = call[i]
  BY <1>1, <1>4 DEF ShellFollows
<1> QED
  BY <1>1, <1>2, <1>4, <1>5, SameShell DEF SessionInv

(* Logging out takes the layout with it.                                    *)
LEMMA LogoutKeeps == SessionInv /\ Logout => SessionInv'
<1> SUFFICES ASSUME SessionInv, Logout PROVE SessionInv'
  OBVIOUS
<1>1. /\ Show("login", call, NoOne) /\ call \in [Calls -> CallRecords]
      /\ NoOne \in Accounts \cup {NoOne} /\ "login" \in Routes /\ "login" \notin Dashboard
      /\ route # "login"
      /\ \A i \in Calls : Sound(call[i], route)
  BY DEF Logout, SessionInv, SessionTypeOK, CallInv, Routes, Dashboard, SignInPages
<1>2. UNCHANGED <<owner, timers>> /\ token' = NoOne /\ NewLayout /\ turned' = FALSE
  BY DEF Logout
<1>3. /\ apps' \subseteq Apps /\ selected' \in Apps \cup {NoApp} /\ modal' \in BOOLEAN
      /\ turned' \in BOOLEAN /\ calm' \in BOOLEAN /\ timers' \in Nat
  BY <1>2 DEF SessionInv, SessionTypeOK, NewLayout
<1>4. /\ SessionTypeOK' /\ CallInv' /\ BusyInv' /\ ShellFollows(call, NoOne, "login")
      /\ route' = "login"
  BY <1>1, <1>2, <1>3, ShowKeeps
<1>5. ~LayoutStays("login")
  BY <1>1 DEF LayoutStays
<1> QED
  BY <1>2, <1>4, <1>5, NewShell DEF SessionInv

(* A call is made: it is there, and every other one is what it was.        *)
LEMMA Made ==
  ASSUME SessionTypeOK, CallInv, Free(call) # {}, NEW x, Sent(x) \in CallRecords,
         Sound(Sent(x), route), call' = Put(call, x), route' = route
  PROVE  /\ call' \in [Calls -> CallRecords] /\ CallInv'
         /\ \E i \in Calls : /\ call[i] = Unused /\ call'[i] = Sent(x)
                             /\ \A j \in Calls \ {i} : call'[j] = call[j]
<1>1. call \in [Calls -> CallRecords]
  BY DEF SessionTypeOK
<1>2. PICK i \in Free(call) : call'[i] = Sent(x) /\ \A j \in Calls \ {i} : call'[j] = call[j]
  BY <1>1, Putting
<1>3. i \in Calls /\ call[i] = Unused
  BY DEF Free, CallInv, Sound
<1>4. call' \in [Calls -> CallRecords]
  BY <1>1, Putting
<1>5. CallInv'
  BY <1>2 DEF CallInv
<1> QED
  BY <1>2, <1>3, <1>4, <1>5

(* A form is sent, and its button disabled.                                 *)
LEMMA SubmitKeeps ==
  ASSUME SessionInv, NEW account \in Accounts, Submit(account)
  PROVE  SessionInv'
<1> DEFINE x == [Unused EXCEPT !.kind = route, !.who = account]
<1>1. /\ UNCHANGED <<owner, token, route, timers, spinning, apps, selected, modal, turned, calm>>
      /\ route \in SignInPages /\ ~signing /\ Free(call) # {}
      /\ signing' = TRUE /\ message' = "none" /\ call' = Put(call, x)
  BY DEF Submit, LoginForm, RegisterForm, SignInPages, layout
<1>2. /\ Sent(x) \in CallRecords /\ Sound(Sent(x), route)
      /\ OfSignIn(Sent(x)) /\ ~OfIndex(Sent(x)) /\ ~OfShell(Sent(x))
      /\ ~OfSignIn(Unused) /\ ~OfIndex(Unused) /\ ~OfShell(Unused)
  BY <1>1 DEF Sent, Unused, CallRecords, Kinds, Sound, OfSignIn, OfIndex, OfShell, SignInPages
<1> HIDE DEF x
<1>3. /\ call' \in [Calls -> CallRecords] /\ CallInv'
      /\ \E i \in Calls : /\ call[i] = Unused /\ call'[i] = Sent(x)
                          /\ \A j \in Calls \ {i} : call'[j] = call[j]
  BY <1>1, <1>2, Made DEF SessionInv
<1>4. PICK i \in Calls : /\ call[i] = Unused /\ call'[i] = Sent(x)
                         /\ \A j \in Calls \ {i} : call'[j] = call[j]
  BY <1>3
<1>5. SessionTypeOK'
  BY <1>1, <1>3 DEF SessionInv, SessionTypeOK
<1>6. BusyInv'
  BY <1>1, <1>2, <1>4 DEF SessionInv, BusyInv
<1>7. OwnInv' /\ CalmInv'
  BY <1>1, <1>2, <1>4, SameShell DEF SessionInv
<1> QED
  BY <1>3, <1>5, <1>6, <1>7 DEF SessionInv

(* A form changes by itself.                                                *)
LEMMA FormKeeps == SessionInv /\ (SubmitRefused \/ ChangeTab \/ ToggleModal) => SessionInv'
<1> SUFFICES ASSUME SessionInv, SubmitRefused \/ ChangeTab \/ ToggleModal PROVE SessionInv'
  OBVIOUS
<1>1. /\ UNCHANGED <<owner, token, route, signing, timers, spinning, apps, selected,
                     call, turned, calm>>
      /\ message' = message \/ message' \in {"error", "none"}
      /\ modal' \in BOOLEAN
  BY DEF SubmitRefused, ChangeTab, ToggleModal, form, layout, SessionInv, SessionTypeOK
<1>2. SessionTypeOK' /\ CallInv' /\ BusyInv'
  BY <1>1 DEF SessionInv, SessionTypeOK, CallInv, BusyInv
<1>3. OwnInv' /\ CalmInv'
  BY <1>1, SameShell DEF SessionInv
<1> QED
  BY <1>2, <1>3 DEF SessionInv

(* One call has got further, and is still waited for by whom it was.       *)
LEMMA Progress ==
  ASSUME SessionTypeOK, CallInv, NEW i \in Calls, NEW x \in CallRecords, Sound(x, route),
         call' = [call EXCEPT ![i] = x], route' = route
  PROVE  /\ call' \in [Calls -> CallRecords] /\ CallInv'
         /\ call'[i] = x /\ \A j \in Calls \ {i} : call'[j] = call[j]
  BY DEF SessionTypeOK, CallInv

(* A token is issued; whoever waits goes on waiting.                        *)
LEMMA ServeSignInKeeps ==
  ASSUME SessionInv, NEW i \in Calls, ServeSignIn(i)
  PROVE  SessionInv'
<1> DEFINE x == [call[i] EXCEPT !.pc = "ok"]
<1>1. /\ UNCHANGED <<owner, token, route, signing, message, timers, spinning, apps, selected,
                     modal, turned, calm>>
      /\ call[i].kind \in SignInPages /\ call[i].pc = "sent"
      /\ call' = [call EXCEPT ![i] = x]
  BY DEF ServeSignIn, SignIns, form, layout
<1>2. call[i] \in CallRecords /\ Sound(call[i], route)
  BY DEF SessionInv, SessionTypeOK, CallInv
<1>3. /\ x \in CallRecords /\ Sound(x, route) /\ ~OfShell(x) /\ ~OfShell(call[i])
      /\ OfSignIn(x) <=> OfSignIn(call[i])
      /\ OfIndex(x) <=> OfIndex(call[i])
  BY <1>1, <1>2 DEF CallRecords, Sound, OfSignIn, OfIndex, OfShell, SignInPages
<1> HIDE DEF x
<1>4. /\ call' \in [Calls -> CallRecords] /\ CallInv'
      /\ call'[i] = x /\ \A j \in Calls \ {i} : call'[j] = call[j]
  BY <1>1, <1>3, Progress DEF SessionInv
<1>5. SessionTypeOK'
  BY <1>1, <1>4 DEF SessionInv, SessionTypeOK
<1>6. BusyInv'
  BY <1>1, <1>3, <1>4, SamePages DEF SessionInv
<1>7. OwnInv' /\ CalmInv'
  BY <1>1, <1>3, <1>4, SameShell DEF SessionInv
<1> QED
  BY <1>4, <1>5, <1>6, <1>7 DEF SessionInv

(* The end of a sign-in, and of a failed one.                              *)
LEMMA SignInEnds ==
  ASSUME SessionInv, NEW i \in Calls, LoginAnswered(i) \/ SignInFailed(i)
  PROVE  SessionInv'
<1>1. /\ UNCHANGED <<owner, route, spinning, apps, selected, modal, calm>>
      /\ call[i].kind \in SignInPages
      /\ call' = Clear(i)
      /\ token' \in Accounts \cup {NoOne} /\ turned' \in BOOLEAN
      /\ ~turned' => ~turned /\ token' = token
      /\ call[i].live => signing' = FALSE
      /\ call[i].live /\ message' = "success" => timers' > 0
      /\ call[i].live => message' \in {"success", "error"}
      /\ ~call[i].live => signing' = signing /\ message' = message
      /\ timers' \in Nat /\ timers' >= timers
  <2>1. /\ call[i] \in CallRecords /\ timers \in Nat /\ turned \in BOOLEAN
        /\ token \in Accounts \cup {NoOne}
        /\ call[i].who \in Accounts \cup {NoOne}
    BY DEF SessionInv, SessionTypeOK, CallRecords
  <2>2. CASE LoginAnswered(i)
    <3>1. /\ UNCHANGED <<owner, route, spinning, apps, selected, modal, calm>>
          /\ call[i].kind \in SignInPages /\ call' = Clear(i)
          /\ token' = call[i].who /\ turned' = (turned \/ token' # token)
          /\ timers' = timers + 1
      BY <2>2 DEF LoginAnswered, SignInPages, layout
    <3>2. /\ call[i].live => signing' = FALSE /\ message' = "success"
          /\ ~call[i].live => signing' = signing /\ message' = message
      BY <2>2 DEF LoginAnswered, form
    <3>3. turned' \in BOOLEAN /\ (~turned' => ~turned /\ token' = token)
      BY <2>1, <3>1
    <3>4. token' \in Accounts \cup {NoOne} /\ timers' \in Nat /\ timers' > 0 /\ timers' >= timers
      BY <2>1, <3>1
    <3> QED
      BY <3>1, <3>2, <3>3, <3>4
  <2>3. CASE SignInFailed(i)
    <3>1. /\ UNCHANGED <<owner, token, route, timers, spinning, apps, selected, modal,
                         turned, calm>>
          /\ call[i].kind \in SignInPages /\ call' = Clear(i)
      BY <2>3 DEF SignInFailed, SignIns, layout
    <3>2. /\ call[i].live => signing' = FALSE /\ message' = "error"
          /\ ~call[i].live => signing' = signing /\ message' = message
      BY <2>3 DEF SignInFailed, form
    <3> QED
      BY <2>1, <3>1, <3>2
  <2> QED
    BY <2>2, <2>3
<1>2. /\ call' \in [Calls -> CallRecords] /\ CallInv'
      /\ call'[i] = Unused /\ \A j \in Calls \ {i} : call'[j] = call[j]
      /\ ~OfShell(call'[i]) /\ ~OfSignIn(call'[i]) /\ ~OfIndex(call'[i])
  BY <1>1, ClearKeepsTypes DEF SessionInv
<1>3. /\ ~OfShell(call[i]) /\ ~OfIndex(call[i])
      /\ OfSignIn(call[i]) <=> call[i].live
  <2>1. call[i].live \in BOOLEAN
    BY DEF SessionInv, SessionTypeOK, CallRecords
  <2> QED
    BY <1>1, <2>1 DEF OfShell, OfIndex, OfSignIn, SignInPages
<1>4. SessionTypeOK'
  BY <1>1, <1>2 DEF SessionInv, SessionTypeOK, CallRecords
<1>5. BusyInv'
  <2>1. timers \in Nat /\ BusyInv
    BY DEF SessionInv, SessionTypeOK
  <2>2. /\ spinning' <=> \E j \in Calls : OfIndex(call'[j])
        /\ \A j, k \in Calls : OfIndex(call'[j]) /\ OfIndex(call'[k]) => j = k
        /\ \A j, k \in Calls : OfSignIn(call'[j]) /\ OfSignIn(call'[k]) => j = k
    BY <1>1, <1>2, <1>3, <2>1 DEF BusyInv
  <2>3. signing' <=> \E j \in Calls : OfSignIn(call'[j])
    BY <1>1, <1>2, <1>3, <2>1 DEF BusyInv
  <2>4. message' = "success" => timers' > 0
    BY <1>1, <2>1 DEF BusyInv
  <2> QED
    BY <2>2, <2>3, <2>4 DEF BusyInv
<1>6. OwnInv' /\ CalmInv'
  BY <1>1, <1>2, <1>3, SameShell DEF SessionInv
<1> QED
  BY <1>2, <1>4, <1>5, <1>6 DEF SessionInv

(* The register page stores its token and goes to the dashboard.           *)
LEMMA RegisterKeeps ==
  ASSUME SessionInv, NEW i \in Calls, RegisterAnswered(i)
  PROVE  SessionInv'
<1>1. /\ call[i].kind = "register" /\ UNCHANGED <<owner, timers>>
      /\ token' = call[i].who /\ Show("index", Clear(i), token')
      /\ call[i] \in CallRecords /\ call[i].who \in Accounts \cup {NoOne}
      /\ "index" \in Routes /\ "index" \notin SignInPages /\ "index" \in Dashboard
  BY RouteKinds DEF RegisterAnswered, SessionInv, SessionTypeOK, CallRecords, SignInPages
<1>2. /\ Clear(i) \in [Calls -> CallRecords]
      /\ Clear(i)[i] = Unused /\ \A j \in Calls \ {i} : Clear(i)[j] = call[j]
      /\ \A j \in Calls : Sound(Clear(i)[j], route)
      /\ ~OfShell(Unused) /\ ~OfSignIn(Unused) /\ ~OfIndex(Unused)
  BY Cleared DEF SessionInv
<1>3. ~OfShell(call[i]) /\ ~OfIndex(call[i])
  BY <1>1 DEF OfShell, OfIndex
<1>4. /\ LayoutStays("index") => /\ turned' = (turned \/ token' # token)
                                 /\ UNCHANGED <<apps, selected, modal, calm>>
      /\ ~LayoutStays("index") => turned' = FALSE /\ NewLayout
  BY DEF RegisterAnswered, layout
<1>5. /\ apps' \subseteq Apps /\ selected' \in Apps \cup {NoApp} /\ modal' \in BOOLEAN
      /\ turned' \in BOOLEAN /\ calm' \in BOOLEAN /\ timers' \in Nat
      /\ token' \in Accounts \cup {NoOne}
  BY <1>1, <1>4 DEF SessionInv, SessionTypeOK, NewLayout
<1>6. \A j \in Calls : /\ OfIndex(Clear(i)[j]) <=> OfIndex(call[j])
                       /\ OfShell(Clear(i)[j]) <=> OfShell(call[j])
                       /\ OfShell(call[j]) => Clear(i)[j] = call[j]
  BY <1>2, <1>3
<1>7. /\ SessionTypeOK' /\ CallInv' /\ BusyInv' /\ ShellFollows(Clear(i), token', "index")
      /\ route' = "index"
  BY <1>1, <1>2, <1>5, <1>6, ShowKeeps
<1>8. CASE LayoutStays("index")
  <2>1. \A j \in Calls : /\ OfShell(call'[j]) <=> OfShell(call[j])
                         /\ OfShell(call[j]) => call'[j] = call[j]
    BY <1>6, <1>7, <1>8 DEF LayoutStays, ShellFollows
  <2>2. /\ turned' = (turned \/ token' # token)
        /\ UNCHANGED <<apps, selected, modal, calm>> /\ route \in Dashboard
    BY <1>4, <1>8 DEF LayoutStays
  <2>3. ~turned' => ~turned /\ token' = token
    BY <2>2
  <2>4. OwnInv /\ CalmInv
    BY DEF SessionInv
  <2>5. OwnInv' /\ CalmInv'
    BY <1>1, <2>1, <2>2, <2>3, <2>4, SameShell
  <2> QED
    BY <1>7, <2>5 DEF SessionInv
<1>9. CASE ~LayoutStays("index")
  BY <1>4, <1>7, <1>9, NewShell DEF SessionInv
<1> QED
  BY <1>8, <1>9

(* The server reads the apps of the account the call was made for.         *)
LEMMA ServeAppsKeeps ==
  ASSUME SessionInv, NEW i \in Calls, ServeApps(i)
  PROVE  SessionInv'
<1> DEFINE d == AppsOf(call[i].who)
           x == [call[i] EXCEPT !.pc = "ok", !.data = d, !.who = NoOne]
<1>1. /\ UNCHANGED <<owner, token, route, signing, message, timers, spinning, apps, selected,
                     modal, turned, calm>>
      /\ call[i].kind \in {"apps", "index"} /\ call[i].pc = "sent"
      /\ call' = [call EXCEPT ![i].pc = "ok", ![i].data = d, ![i].who = NoOne]
  BY DEF ServeApps, form, layout
<1>2. call[i] \in CallRecords /\ Sound(call[i], route) /\ d \subseteq Apps
      /\ call \in [Calls -> CallRecords]
  BY DEF SessionInv, SessionTypeOK, CallInv, AppsOf
<1> HIDE DEF d
<1>3. call' = [call EXCEPT ![i] = x]
  BY <1>1, <1>2
<1>4. /\ x \in CallRecords /\ x.kind = call[i].kind /\ x.live = call[i].live
      /\ x.base = call[i].base /\ x.pc = "ok" /\ x.data = d
  BY <1>2 DEF CallRecords
<1> HIDE DEF x
<1>5. /\ Sound(x, route)
      /\ OfSignIn(x) <=> OfSignIn(call[i])
      /\ OfIndex(x) <=> OfIndex(call[i])
      /\ OfShell(x) <=> OfShell(call[i])
  BY <1>1, <1>2, <1>4 DEF Sound, OfSignIn, OfIndex, OfShell
<1>6. /\ call' \in [Calls -> CallRecords] /\ CallInv'
      /\ call'[i] = x /\ \A j \in Calls \ {i} : call'[j] = call[j]
  BY <1>1, <1>3, <1>4, <1>5, Progress DEF SessionInv
<1>7. SessionTypeOK'
  BY <1>1, <1>6 DEF SessionInv, SessionTypeOK
<1>8. BusyInv'
  BY <1>1, <1>5, <1>6, SamePages DEF SessionInv
<1>9. ~turned /\ OfShell(call[i]) => d = AppsOf(token)
  BY <1>1 DEF SessionInv, OwnInv, d
<1>10. AppsOf(token)' = AppsOf(token)
  BY <1>1 DEF AppsOf
<1>11. \A j \in Calls : OfShell(call'[j]) <=> OfShell(call[j])
  BY <1>5, <1>6
<1>12. OwnInv'
  <2>1. ASSUME ~turned, NEW j \in Calls, OfShell(call'[j])
        PROVE  /\ call'[j].pc = "sent" => call'[j].who = token
               /\ call'[j].base \subseteq AppsOf(token)
               /\ call'[j].data \subseteq AppsOf(token)
    <3>1. CASE j = i
      BY <1>4, <1>5, <1>6, <1>9, <2>1, <3>1 DEF SessionInv, OwnInv
    <3>2. CASE j # i
      BY <1>6, <2>1, <3>2 DEF SessionInv, OwnInv
    <3> QED
      BY <3>1, <3>2
  <2> QED
    BY <1>1, <1>10, <2>1 DEF SessionInv, OwnInv
<1>13. CalmInv'
  <2> SUFFICES ASSUME route \in Dashboard, calm, ~turned
               PROVE  /\ \A j, k \in Calls : OfShell(call'[j]) /\ OfShell(call'[k]) => j = k
                      /\ (\A j \in Calls : ~OfShell(call'[j])) => AppsOf(token) \subseteq apps
                      /\ \A j \in Calls : OfShell(call'[j]) =>
                           /\ call'[j].kind = "apps" /\ call'[j].pc = "ok" =>
                                AppsOf(token) \subseteq call'[j].data
                           /\ call'[j].kind = "create" =>
                                AppsOf(token) \subseteq call'[j].base \cup call'[j].data
    BY <1>1, <1>10 DEF CalmInv
  <2>1. /\ \A j, k \in Calls : OfShell(call'[j]) /\ OfShell(call'[k]) => j = k
        /\ (\A j \in Calls : ~OfShell(call'[j])) => AppsOf(token) \subseteq apps
    BY <1>11 DEF SessionInv, CalmInv
  <2>2. ASSUME NEW j \in Calls, OfShell(call'[j])
        PROVE  /\ call'[j].kind = "apps" /\ call'[j].pc = "ok" =>
                    AppsOf(token) \subseteq call'[j].data
               /\ call'[j].kind = "create" =>
                    AppsOf(token) \subseteq call'[j].base \cup call'[j].data
    <3>1. CASE j = i
      BY <1>1, <1>4, <1>5, <1>6, <1>9, <2>2, <3>1
    <3>2. CASE j # i
      BY <1>6, <2>2, <3>2 DEF SessionInv, CalmInv
    <3> QED
      BY <3>1, <3>2
  <2> QED
    BY <2>1, <2>2
<1> QED
  BY <1>6, <1>7, <1>8, <1>12, <1>13 DEF SessionInv

(* The list of apps has come: it is the account's.                         *)
LEMMA AppsAnsweredKeeps ==
  ASSUME SessionInv, NEW i \in Calls, AppsAnswered(i)
  PROVE  SessionInv'
<1>1. /\ UNCHANGED <<owner, token, route, signing, message, timers, spinning, modal,
                     turned, calm>>
      /\ call[i].kind = "apps" /\ call[i].pc = "ok" /\ apps' = call[i].data
      /\ call' = Clear(i)
  BY DEF AppsAnswered, form
<1>2. /\ call[i] \in CallRecords /\ call[i].data \subseteq Apps /\ OfShell(call[i])
      /\ ~OfSignIn(call[i]) /\ ~OfIndex(call[i])
  <2>1. call[i] \in CallRecords /\ Sound(call[i], route)
    BY DEF SessionInv, SessionTypeOK, CallInv
  <2> QED
    BY <1>1, <2>1 DEF CallRecords, Sound, OfShell, OfSignIn, OfIndex, SignInPages
<1>3. /\ selected' = selected \/ selected' \in apps'
      /\ selected' \in apps' \cup {NoApp} \/ apps' = {}
  BY <1>1 DEF AppsAnswered
<1>4. /\ call' \in [Calls -> CallRecords] /\ CallInv'
      /\ call'[i] = Unused /\ \A j \in Calls \ {i} : call'[j] = call[j]
      /\ ~OfShell(call'[i]) /\ ~OfSignIn(call'[i]) /\ ~OfIndex(call'[i])
  BY <1>1, ClearKeepsTypes DEF SessionInv
<1>5. SessionTypeOK'
  BY <1>1, <1>2, <1>3, <1>4 DEF SessionInv, SessionTypeOK
<1>6. BusyInv'
  BY <1>1, <1>2, <1>4, SamePages DEF SessionInv
<1>7. AppsOf(token)' = AppsOf(token)
  BY <1>1 DEF AppsOf
<1>8. \A j \in Calls : OfShell(call'[j]) => j # i /\ call'[j] = call[j] /\ OfShell(call[j])
  BY <1>4
<1>9. OwnInv'
  BY <1>1, <1>2, <1>3, <1>7, <1>8 DEF SessionInv, OwnInv
<1>10. CalmInv'
  <2>1. ASSUME route \in Dashboard, calm, ~turned
        PROVE  /\ \A j \in Calls : ~OfShell(call'[j])
               /\ AppsOf(token) \subseteq apps'
    BY <1>1, <1>2, <1>8, <2>1 DEF SessionInv, CalmInv
  <2> QED
    BY <1>1, <1>7, <2>1 DEF CalmInv
<1> QED
  BY <1>4, <1>5, <1>6, <1>9, <1>10 DEF SessionInv

(* A call of the layout that failed: what it shows may be short from then. *)
LEMMA ShellFailedKeeps ==
  ASSUME SessionInv, NEW i \in Calls, AppsFailed(i) \/ CreateFailed(i)
  PROVE  SessionInv'
<1>1. /\ UNCHANGED <<owner, token, route, signing, message, timers, spinning, apps, selected,
                     modal, turned>>
      /\ call[i].kind \in {"apps", "create"} /\ calm' = FALSE /\ call' = Clear(i)
  BY DEF AppsFailed, CreateFailed, form, layout
<1>2. ~OfSignIn(call[i]) /\ ~OfIndex(call[i])
  BY <1>1 DEF OfSignIn, OfIndex, SignInPages
<1>3. /\ call' \in [Calls -> CallRecords] /\ CallInv'
      /\ call'[i] = Unused /\ \A j \in Calls \ {i} : call'[j] = call[j]
      /\ ~OfShell(call'[i]) /\ ~OfSignIn(call'[i]) /\ ~OfIndex(call'[i])
  BY <1>1, ClearKeepsTypes DEF SessionInv
<1>4. SessionTypeOK'
  BY <1>1, <1>3 DEF SessionInv, SessionTypeOK
<1>5. BusyInv'
  BY <1>1, <1>2, <1>3, SamePages DEF SessionInv
<1>6. AppsOf(token)' = AppsOf(token)
  BY <1>1 DEF AppsOf
<1>7. OwnInv' /\ CalmInv'
  BY <1>1, <1>3, <1>6 DEF SessionInv, OwnInv, CalmInv
<1> QED
  BY <1>3, <1>4, <1>5, <1>7 DEF SessionInv

(* The index page has its answer, and goes to the first app.               *)
LEMMA IndexAnsweredKeeps ==
  ASSUME SessionInv, NEW i \in Calls, IndexAnswered(i)
  PROVE  SessionInv'
<1>1. PICK a \in call[i].data :
        /\ Show(a, Clear(i), token)
        /\ IF LayoutStays(a) THEN UNCHANGED <<layout, turned, calm>>
           ELSE NewLayout /\ turned' = FALSE
  BY DEF IndexAnswered
<1>2. /\ call[i].kind = "index" /\ UNCHANGED <<owner, token, timers>>
      /\ call[i] \in CallRecords /\ a \in Apps /\ token \in Accounts \cup {NoOne}
  BY DEF IndexAnswered, SessionInv, SessionTypeOK, CallRecords
<1>3. /\ a \in Routes /\ a \notin SignInPages /\ a \in Dashboard /\ a # "index"
  BY <1>2, RouteKinds
<1>4. /\ Clear(i) \in [Calls -> CallRecords]
      /\ Clear(i)[i] = Unused /\ \A j \in Calls \ {i} : Clear(i)[j] = call[j]
      /\ \A j \in Calls : Sound(Clear(i)[j], route)
      /\ ~OfShell(Unused) /\ ~OfSignIn(Unused) /\ ~OfIndex(Unused)
  BY Cleared DEF SessionInv
<1>5. ~OfShell(call[i])
  BY <1>2 DEF OfShell
<1>6. /\ LayoutStays(a) => UNCHANGED <<apps, selected, modal, turned, calm>>
      /\ ~LayoutStays(a) => turned' = FALSE /\ NewLayout
  BY <1>1 DEF layout
<1>7. /\ apps' \subseteq Apps /\ selected' \in Apps \cup {NoApp} /\ modal' \in BOOLEAN
      /\ turned' \in BOOLEAN /\ calm' \in BOOLEAN /\ timers' \in Nat
  BY <1>2, <1>6 DEF SessionInv, SessionTypeOK, NewLayout
<1>8. \A j \in Calls : /\ OfShell(Clear(i)[j]) <=> OfShell(call[j])
                       /\ OfShell(call[j]) => Clear(i)[j] = call[j]
  BY <1>4, <1>5
<1>9. a = route => \A j \in Calls : OfIndex(Clear(i)[j]) <=> OfIndex(call[j])
  <2> SUFFICES ASSUME a = route, NEW j \in Calls
               PROVE  ~OfIndex(Clear(i)[j]) /\ ~OfIndex(call[j])
    OBVIOUS
  <2>1. Sound(call[j], route) /\ Sound(Clear(i)[j], route)
    BY <1>4 DEF SessionInv, CallInv
  <2> QED
    BY <1>3, <2>1 DEF Sound
<1>10. /\ SessionTypeOK' /\ CallInv' /\ BusyInv' /\ ShellFollows(Clear(i), token, a)
       /\ route' = a
  BY <1>1, <1>2, <1>3, <1>4, <1>7, <1>9, ShowKeeps
<1>11. CASE LayoutStays(a)
  <2>1. \A j \in Calls : /\ OfShell(call'[j]) <=> OfShell(call[j])
                         /\ OfShell(call[j]) => call'[j] = call[j]
    BY <1>8, <1>10, <1>11 DEF LayoutStays, ShellFollows
  <2>2. UNCHANGED <<apps, selected, turned, calm>> /\ route \in Dashboard
    BY <1>6, <1>11 DEF LayoutStays
  <2> QED
    BY <1>2, <1>10, <2>1, <2>2, SameShell DEF SessionInv
<1>12. CASE ~LayoutStays(a)
  BY <1>2, <1>6, <1>10, <1>12, NewShell DEF SessionInv
<1> QED
  BY <1>11, <1>12

(* The index page has none to go to, or no answer.                         *)
LEMMA IndexStaysKeeps ==
  ASSUME SessionInv, NEW i \in Calls, IndexStays(i)
  PROVE  SessionInv'
<1>1. /\ UNCHANGED <<owner, token, route, signing, message, timers, apps, selected, modal,
                     turned, calm>>
      /\ call[i].kind = "index" /\ spinning' = (spinning /\ ~call[i].live)
      /\ call' = Clear(i)
  BY DEF IndexStays, form, layout
<1>2. /\ call' \in [Calls -> CallRecords] /\ CallInv'
      /\ call'[i] = Unused /\ \A j \in Calls \ {i} : call'[j] = call[j]
      /\ ~OfShell(call'[i]) /\ ~OfSignIn(call'[i]) /\ ~OfIndex(call'[i])
  BY <1>1, ClearKeepsTypes DEF SessionInv
<1>3. /\ ~OfShell(call[i]) /\ ~OfSignIn(call[i])
      /\ OfIndex(call[i]) <=> call[i].live
      /\ call[i].live \in BOOLEAN /\ spinning \in BOOLEAN
  <2>1. call[i].live \in BOOLEAN /\ spinning \in BOOLEAN
    BY DEF SessionInv, SessionTypeOK, CallRecords
  <2> QED
    BY <1>1, <2>1 DEF OfShell, OfIndex, OfSignIn, SignInPages
<1>4. SessionTypeOK'
  BY <1>1, <1>2, <1>3 DEF SessionInv, SessionTypeOK
<1>5. BusyInv'
  <2>1. BusyInv
    BY DEF SessionInv
  <2>2. /\ signing' <=> \E j \in Calls : OfSignIn(call'[j])
        /\ \A j, k \in Calls : OfSignIn(call'[j]) /\ OfSignIn(call'[k]) => j = k
        /\ \A j, k \in Calls : OfIndex(call'[j]) /\ OfIndex(call'[k]) => j = k
        /\ message' = "success" => timers' > 0
    BY <1>1, <1>2, <1>3, <2>1 DEF BusyInv
  <2>3. spinning' <=> \E j \in Calls : OfIndex(call'[j])
    BY <1>1, <1>2, <1>3, <2>1 DEF BusyInv
  <2> QED
    BY <2>2, <2>3 DEF BusyInv
<1>6. OwnInv' /\ CalmInv'
  BY <1>1, <1>2, <1>3, SameShell DEF SessionInv
<1> QED
  BY <1>2, <1>4, <1>5, <1>6 DEF SessionInv

(* The form for a new app is one of the layout's.                          *)
ModalInv == modal => route \in Dashboard

(* It goes with the layout.                                                *)
LEMMA ModalStep == ModalInv /\ [Next]_vars => ModalInv'
<1> SUFFICES ASSUME ModalInv, [Next]_vars PROVE ModalInv'
  OBVIOUS
<1>1. ASSUME NEW r, Go(r) PROVE ModalInv'
  BY <1>1 DEF Go, Show, LayoutStays, NewLayout, layout, ModalInv
<1>2. CASE UNCHANGED vars
  BY <1>2 DEF vars, ModalInv
<1>3. CASE HomeEffect \/ Redirect
  BY <1>1, <1>3 DEF HomeEffect, Redirect
<1>4. ASSUME NEW r \in Routes, Browse(r) \/ Reload(r) PROVE ModalInv'
  BY <1>1, <1>4 DEF Browse, Reload, NewLayout, ModalInv
<1>5. ASSUME NEW t, OtherTab(t) PROVE ModalInv'
  BY <1>5 DEF OtherTab, layout, ModalInv
<1>6. CASE SigningIn
  BY <1>6 DEF SigningIn, Submit, SubmitRefused, ChangeTab, layout, ModalInv
<1>7. CASE UseLayout
  <2>1. ASSUME NEW a \in Apps, SelectApp(a) PROVE ModalInv'
    BY <2>1 DEF SelectApp, Show, Dashboard, ModalInv
  <2>2. CASE Logout
    BY <2>2 DEF Logout, NewLayout, ModalInv
  <2>3. CASE ToggleModal \/ CreateApp
    BY <2>3 DEF ToggleModal, Sidebar, CreateApp, layout, ModalInv
  <2> QED
    BY <1>7, <2>1, <2>2, <2>3 DEF UseLayout
<1>8. ASSUME NEW i \in Calls, Answer(i) PROVE ModalInv'
  <2>1. CASE ServeSignIn(i) \/ LoginAnswered(i) \/ SignInFailed(i)
    BY <2>1 DEF ServeSignIn, LoginAnswered, SignInFailed, layout, ModalInv
  <2>2. CASE ServeApps(i) \/ AppsAnswered(i) \/ AppsFailed(i) \/ IndexStays(i)
    BY <2>2 DEF ServeApps, AppsAnswered, AppsFailed, IndexStays, layout, ModalInv
  <2>3. CASE ServeCreate(i) \/ CreateFailed(i)
    BY <2>3 DEF ServeCreate, CreateFailed, layout, ModalInv
  <2>4. CASE RegisterAnswered(i)
    BY <2>4 DEF RegisterAnswered, Show, LayoutStays, NewLayout, layout, ModalInv
  <2>5. CASE IndexAnswered(i)
    BY <2>5 DEF IndexAnswered, Show, LayoutStays, NewLayout, layout, ModalInv
  <2>6. CASE CreateAnswered(i)
    BY <2>6 DEF CreateAnswered, Show, LayoutStays, NewLayout, layout, ModalInv
  <2> QED
    BY <1>8, <2>1, <2>2, <2>3, <2>4, <2>5, <2>6 DEF Answer
<1> QED
  BY <1>2, <1>3, <1>4, <1>5, <1>6, <1>7, <1>8 DEF Next, User

(* The form of the sidebar sends a new app, with the apps it was shown.    *)
LEMMA CreateKeeps == SessionInv /\ ModalInv /\ CreateApp => SessionInv'
<1> SUFFICES ASSUME SessionInv, ModalInv, CreateApp PROVE SessionInv'
  OBVIOUS
<1> DEFINE x == [Unused EXCEPT !.kind = "create", !.who = token, !.base = apps]
<1>1. /\ UNCHANGED <<owner, token, route, signing, message, timers, spinning, apps, selected,
                     modal, turned>>
      /\ modal /\ Free(call) # {} /\ call' = Put(call, x)
      /\ calm' = (calm /\ OfLayout = {})
  BY DEF CreateApp, CreateForm, form, layout
<1>2. route \in Dashboard /\ apps \subseteq Apps /\ token \in Accounts \cup {NoOne}
  BY <1>1 DEF SessionInv, SessionTypeOK, ModalInv
<1>3. /\ Sent(x) \in CallRecords /\ Sound(Sent(x), route)
      /\ ~OfSignIn(Sent(x)) /\ ~OfIndex(Sent(x)) /\ OfShell(Sent(x))
      /\ ~OfSignIn(Unused) /\ ~OfIndex(Unused) /\ ~OfShell(Unused)
      /\ Sent(x).kind = "create" /\ Sent(x).pc = "sent" /\ Sent(x).who = token
      /\ Sent(x).base = apps /\ Sent(x).data = {}
  BY <1>2 DEF Sent, Unused, CallRecords, Kinds, Sound, OfSignIn, OfIndex, OfShell, SignInPages
<1> HIDE DEF x
<1>4. /\ call' \in [Calls -> CallRecords] /\ CallInv'
      /\ \E i \in Calls : /\ call[i] = Unused /\ call'[i] = Sent(x)
                          /\ \A j \in Calls \ {i} : call'[j] = call[j]
  BY <1>1, <1>3, Made DEF SessionInv
<1>5. PICK i \in Calls : /\ call[i] = Unused /\ call'[i] = Sent(x)
                         /\ \A j \in Calls \ {i} : call'[j] = call[j]
  BY <1>4
<1>6. SessionTypeOK'
  BY <1>1, <1>4 DEF SessionInv, SessionTypeOK
<1>7. BusyInv'
  BY <1>1, <1>3, <1>5, SamePages DEF SessionInv
<1>8. AppsOf(token)' = AppsOf(token)
  BY <1>1 DEF AppsOf
<1>9. OwnInv'
  BY <1>1, <1>3, <1>5, <1>8 DEF SessionInv, OwnInv
<1>10. CalmInv'
  <2>1. ASSUME calm', ~turned
        PROVE  /\ \A j \in Calls : OfShell(call'[j]) => j = i
               /\ AppsOf(token) \subseteq apps
    <3>1. calm /\ \A j \in Calls : ~OfShell(call[j])
      BY <1>1, <2>1 DEF OfLayout, OfShell
    <3> QED
      BY <1>2, <1>5, <2>1, <3>1 DEF SessionInv, CalmInv
  <2>2. ASSUME route \in Dashboard, calm', ~turned
        PROVE  /\ \A j, k \in Calls : OfShell(call'[j]) /\ OfShell(call'[k]) => j = k
               /\ (\A j \in Calls : ~OfShell(call'[j])) => AppsOf(token) \subseteq apps
               /\ \A j \in Calls : OfShell(call'[j]) =>
                    /\ call'[j].kind = "apps" /\ call'[j].pc = "ok" =>
                         AppsOf(token) \subseteq call'[j].data
                    /\ call'[j].kind = "create" =>
                         AppsOf(token) \subseteq call'[j].base \cup call'[j].data
    BY <1>3, <1>5, <2>1, <2>2
  <2> QED
    BY <1>1, <1>8, <2>2 DEF CalmInv
<1> QED
  BY <1>4, <1>6, <1>7, <1>9, <1>10 DEF SessionInv

(* The server creates the app, for the account the call was made for.      *)
LEMMA ServeCreateKeeps ==
  ASSUME SessionInv, NEW i \in Calls, ServeCreate(i)
  PROVE  SessionInv'
<1>1. PICK a \in Apps :
        /\ call[i].who # NoOne /\ owner[a] = NoOne
        /\ owner' = [owner EXCEPT ![a] = call[i].who]
        /\ call' = [call EXCEPT ![i].pc = "ok", ![i].data = {a}, ![i].who = NoOne]
  BY DEF ServeCreate
<1> DEFINE x == [call[i] EXCEPT !.pc = "ok", !.data = {a}, !.who = NoOne]
<1>2. /\ UNCHANGED <<token, route, signing, message, timers, spinning, apps, selected, modal,
                     turned>>
      /\ call[i].kind = "create" /\ call[i].pc = "sent"
      /\ calm' = (calm /\ call[i].live)
  BY DEF ServeCreate, form, layout
<1>3. /\ call[i] \in CallRecords /\ Sound(call[i], route)
      /\ call \in [Calls -> CallRecords] /\ owner \in [Apps -> Accounts \cup {NoOne}]
      /\ calm \in BOOLEAN
  BY DEF SessionInv, SessionTypeOK, CallInv
<1>4. call' = [call EXCEPT ![i] = x]
  BY <1>1, <1>3
<1>5. /\ x \in CallRecords /\ x.kind = "create" /\ x.live = call[i].live
      /\ x.base = call[i].base /\ x.pc = "ok" /\ x.data = {a}
      /\ call[i].live \in BOOLEAN /\ call[i].who \in Accounts \cup {NoOne}
  BY <1>2, <1>3 DEF CallRecords
<1> HIDE DEF x
<1>6. /\ Sound(x, route)
      /\ OfSignIn(x) <=> OfSignIn(call[i])
      /\ OfIndex(x) <=> OfIndex(call[i])
      /\ OfShell(x) <=> OfShell(call[i])
      /\ OfShell(call[i]) <=> call[i].live
  BY <1>2, <1>3, <1>5 DEF Sound, OfSignIn, OfIndex, OfShell, SignInPages
<1>7. /\ call' \in [Calls -> CallRecords] /\ CallInv'
      /\ call'[i] = x /\ \A j \in Calls \ {i} : call'[j] = call[j]
  BY <1>2, <1>4, <1>5, <1>6, Progress DEF SessionInv
<1>8. SessionTypeOK'
  <2>1. owner' \in [Apps -> Accounts \cup {NoOne}] /\ calm' \in BOOLEAN
    BY <1>1, <1>2, <1>3, <1>5
  <2> QED
    BY <1>2, <1>7, <2>1 DEF SessionInv, SessionTypeOK
<1>9. BusyInv'
  BY <1>2, <1>6, <1>7, SamePages DEF SessionInv
<1>10. /\ AppsOf(token) \subseteq AppsOf(token)'
       /\ AppsOf(token)' \subseteq AppsOf(token) \cup {a}
       /\ call[i].who = token => a \in AppsOf(token)'
  BY <1>1, <1>2, <1>3 DEF AppsOf
<1>11. \A j \in Calls : OfShell(call'[j]) <=> OfShell(call[j])
  BY <1>6, <1>7
<1>12. OwnInv'
  <2>1. ASSUME ~turned, NEW j \in Calls, OfShell(call'[j])
        PROVE  /\ call'[j].pc = "sent" => call'[j].who = token
               /\ call'[j].base \subseteq AppsOf(token)'
               /\ call'[j].data \subseteq AppsOf(token)'
    <3>1. /\ call[j].pc = "sent" => call[j].who = token
          /\ call[j].base \subseteq AppsOf(token)
          /\ call[j].data \subseteq AppsOf(token)
      BY <1>11, <2>1 DEF SessionInv, OwnInv
    <3>2. CASE j = i
      BY <1>2, <1>5, <1>7, <1>10, <3>1, <3>2
    <3>3. CASE j # i
      BY <1>7, <1>10, <3>1, <3>3
    <3> QED
      BY <3>2, <3>3
  <2>2. ~turned => apps \subseteq AppsOf(token)'
    BY <1>10 DEF SessionInv, OwnInv
  <2> QED
    BY <1>2, <2>1, <2>2 DEF SessionInv, OwnInv
<1>13. CalmInv'
  <2>1. ASSUME route \in Dashboard, calm', ~turned
        PROVE  /\ \A j \in Calls : OfShell(call'[j]) => j = i
               /\ OfShell(call'[i])
               /\ AppsOf(token)' \subseteq x.base \cup x.data
    <3>1. calm /\ call[i].live
      BY <1>2, <2>1
    <3>2. OfShell(call[i]) /\ call[i].data = {}
      BY <1>2, <1>3, <1>6, <3>1 DEF Sound
    <3>3. /\ \A j \in Calls : OfShell(call[j]) => j = i
          /\ AppsOf(token) \subseteq call[i].base \cup call[i].data
      BY <1>2, <2>1, <3>1, <3>2 DEF SessionInv, CalmInv
    <3> QED
      BY <1>5, <1>10, <1>11, <3>2, <3>3
  <2>2. ASSUME route \in Dashboard, calm', ~turned
        PROVE  /\ \A j, k \in Calls : OfShell(call'[j]) /\ OfShell(call'[k]) => j = k
               /\ (\A j \in Calls : ~OfShell(call'[j])) => AppsOf(token)' \subseteq apps
               /\ \A j \in Calls : OfShell(call'[j]) =>
                    /\ call'[j].kind = "apps" /\ call'[j].pc = "ok" =>
                         AppsOf(token)' \subseteq call'[j].data
                    /\ call'[j].kind = "create" =>
                         AppsOf(token)' \subseteq call'[j].base \cup call'[j].data
    BY <1>5, <1>7, <2>1, <2>2
  <2> QED
    BY <1>2, <2>2 DEF CalmInv
<1> QED
  BY <1>7, <1>8, <1>9, <1>12, <1>13 DEF SessionInv

(* The new app is shown: added to the apps its form was shown with, or, for*)
(* a layout that has gone meanwhile, only gone to.                         *)
LEMMA CreateAnsweredKeeps ==
  ASSUME SessionInv, NEW i \in Calls, CreateAnswered(i)
  PROVE  SessionInv'
<1>1. PICK a \in call[i].data :
        /\ Show(a, Clear(i), token)
        /\ IF call[i].live
           THEN apps' = call[i].base \cup {a} /\ selected' = a /\ modal' = FALSE
                  /\ UNCHANGED <<turned, calm>>
           ELSE IF LayoutStays(a) THEN UNCHANGED <<layout, turned>> /\ calm' = FALSE
           ELSE NewLayout /\ turned' = FALSE
  BY DEF CreateAnswered
<1>2. /\ call[i].kind = "create" /\ call[i].pc = "ok" /\ UNCHANGED <<owner, token, timers>>
      /\ call[i] \in CallRecords /\ a \in Apps /\ token \in Accounts \cup {NoOne}
      /\ Sound(call[i], route) /\ call[i].base \subseteq Apps /\ call[i].live \in BOOLEAN
  BY DEF CreateAnswered, SessionInv, SessionTypeOK, CallRecords, CallInv
<1>3. /\ a \in Routes /\ a \notin SignInPages /\ a \in Dashboard /\ a # "index"
      /\ call[i].data = {a}
      /\ OfShell(call[i]) <=> call[i].live
      /\ call[i].live => route \in Dashboard
  BY <1>2, RouteKinds DEF Sound, OfShell
<1>4. /\ Clear(i) \in [Calls -> CallRecords]
      /\ Clear(i)[i] = Unused /\ \A j \in Calls \ {i} : Clear(i)[j] = call[j]
      /\ \A j \in Calls : Sound(Clear(i)[j], route)
      /\ ~OfShell(Unused) /\ ~OfSignIn(Unused) /\ ~OfIndex(Unused)
  BY Cleared DEF SessionInv
<1>5. /\ call[i].live => /\ apps' = call[i].base \cup {a} /\ selected' = a
                         /\ modal' = FALSE /\ UNCHANGED <<turned, calm>>
      /\ ~call[i].live /\ LayoutStays(a) =>
           UNCHANGED <<apps, selected, modal, turned>> /\ calm' = FALSE
      /\ ~call[i].live /\ ~LayoutStays(a) => turned' = FALSE /\ NewLayout
  BY <1>1 DEF layout
<1>6. /\ apps' \subseteq Apps /\ selected' \in Apps \cup {NoApp} /\ modal' \in BOOLEAN
      /\ turned' \in BOOLEAN /\ calm' \in BOOLEAN /\ timers' \in Nat
  BY <1>2, <1>5 DEF SessionInv, SessionTypeOK, NewLayout
<1>7. a = route => \A j \in Calls : OfIndex(Clear(i)[j]) <=> OfIndex(call[j])
  <2> SUFFICES ASSUME a = route, NEW j \in Calls
               PROVE  ~OfIndex(Clear(i)[j]) /\ ~OfIndex(call[j])
    OBVIOUS
  <2>1. Sound(call[j], route) /\ Sound(Clear(i)[j], route)
    BY <1>4 DEF SessionInv, CallInv
  <2> QED
    BY <1>3, <2>1 DEF Sound
<1>8. /\ SessionTypeOK' /\ CallInv' /\ BusyInv' /\ ShellFollows(Clear(i), token, a)
      /\ route' = a
  BY <1>1, <1>2, <1>3, <1>4, <1>6, <1>7, ShowKeeps
<1>9. LayoutStays(a) => \A j \in Calls : /\ OfShell(call'[j]) <=> OfShell(Clear(i)[j])
                                         /\ OfShell(Clear(i)[j]) => call'[j] = Clear(i)[j]
  BY <1>8 DEF LayoutStays, ShellFollows
<1>10. CASE call[i].live
  <2>1. \A j \in Calls : OfShell(call'[j]) => j # i /\ call'[j] = call[j] /\ OfShell(call[j])
    BY <1>3, <1>4, <1>9, <1>10 DEF LayoutStays
  <2>2. AppsOf(token)' = AppsOf(token)
    BY <1>2 DEF AppsOf
  <2>3. OwnInv'
    <3>1. ~turned => apps' \subseteq AppsOf(token)
      BY <1>3, <1>5, <1>10 DEF SessionInv, OwnInv
    <3>2. ASSUME ~turned, NEW j \in Calls, OfShell(call'[j])
          PROVE  /\ call'[j].pc = "sent" => call'[j].who = token
                 /\ call'[j].base \subseteq AppsOf(token)
                 /\ call'[j].data \subseteq AppsOf(token)
      BY <2>1, <3>2 DEF SessionInv, OwnInv
    <3> QED
      BY <1>2, <1>5, <1>10, <2>2, <3>1, <3>2 DEF OwnInv
  <2>4. CalmInv'
    <3>1. ASSUME calm, ~turned
          PROVE  (\A j \in Calls : ~OfShell(call'[j])) /\ AppsOf(token) \subseteq apps'
      BY <1>2, <1>3, <1>5, <1>10, <2>1, <3>1 DEF SessionInv, CalmInv
    <3>2. UNCHANGED <<token, turned, calm>>
      BY <1>2, <1>5, <1>10
    <3> QED
      BY <2>2, <3>1, <3>2 DEF CalmInv
  <2> QED
    BY <1>8, <2>3, <2>4 DEF SessionInv
<1>11. CASE ~call[i].live /\ LayoutStays(a)
  <2>1. \A j \in Calls : /\ OfShell(call'[j]) <=> OfShell(call[j])
                         /\ OfShell(call[j]) => call'[j] = call[j]
    BY <1>3, <1>4, <1>9, <1>11
  <2>2. UNCHANGED <<apps, selected, turned>> /\ calm' = FALSE
    BY <1>5, <1>11
  <2> QED
    BY <1>2, <1>8, <2>1, <2>2, SameShell DEF SessionInv
<1>12. CASE ~call[i].live /\ ~LayoutStays(a)
  BY <1>2, <1>5, <1>8, <1>12, NewShell DEF SessionInv
<1> QED
  BY <1>2, <1>10, <1>11, <1>12

(* It starts so.                                                           *)
LEMMA InitSession == Init => SessionInv /\ ModalInv
<1> SUFFICES ASSUME Init PROVE SessionInv /\ ModalInv
  OBVIOUS
<1>1. /\ ~OfShell(Unused) /\ ~OfSignIn(Unused) /\ ~OfIndex(Unused)
      /\ Sound(Unused, route)
  BY DEF OfShell, OfSignIn, OfIndex, Unused, Sound, SignInPages
<1>2. \A i \in Calls : call[i] = Unused
  BY DEF Init
<1>3. SessionTypeOK
  <2>1. call \in [Calls -> CallRecords]
    BY Records DEF Init
  <2> QED
    BY <2>1 DEF Init, SessionTypeOK, Routes
<1>4. CallInv /\ OwnInv /\ BusyInv
  BY <1>1, <1>2 DEF Init, CallInv, OwnInv, BusyInv
<1>5. CalmInv /\ ModalInv
  BY RouteKinds DEF Init, CalmInv, ModalInv
<1> QED
  BY <1>3, <1>4, <1>5 DEF SessionInv

(* And every step keeps it.                                                *)
LEMMA SessionStep == SessionInv /\ ModalInv /\ [Next]_vars => SessionInv'
<1> SUFFICES ASSUME SessionInv, ModalInv, [Next]_vars PROVE SessionInv'
  OBVIOUS
<1>1. CASE UNCHANGED vars
  BY <1>1 DEF vars, SessionInv, SessionTypeOK, CallInv, OwnInv, CalmInv, BusyInv, AppsOf
<1>2. CASE HomeEffect \/ Redirect
  BY <1>2, HomeKeeps, RedirectKeeps
<1>3. CASE SigningIn
  BY <1>3, SubmitKeeps, FormKeeps DEF SigningIn
<1>4. CASE UseLayout
  BY <1>4, LogoutKeeps, SelectKeeps, FormKeeps, CreateKeeps DEF UseLayout
<1>5. ASSUME NEW r \in Routes, Browse(r) \/ Reload(r) PROVE SessionInv'
  BY <1>5, BrowseKeeps, ReloadKeeps
<1>6. ASSUME NEW t \in Accounts \cup {NoOne}, OtherTab(t) PROVE SessionInv'
  BY <1>6, OtherTabKeeps
<1>7. ASSUME NEW i \in Calls, Answer(i) PROVE SessionInv'
  <2>1. CASE ServeSignIn(i) \/ LoginAnswered(i) \/ RegisterAnswered(i) \/ SignInFailed(i)
    BY <2>1, ServeSignInKeeps, SignInEnds, RegisterKeeps
  <2>2. CASE ServeApps(i) \/ AppsAnswered(i) \/ AppsFailed(i)
    BY <2>2, ServeAppsKeeps, AppsAnsweredKeeps, ShellFailedKeeps
  <2>3. CASE IndexAnswered(i) \/ IndexStays(i)
    BY <2>3, IndexAnsweredKeeps, IndexStaysKeeps
  <2>4. CASE ServeCreate(i) \/ CreateAnswered(i) \/ CreateFailed(i)
    BY <2>4, ServeCreateKeeps, CreateAnsweredKeeps, ShellFailedKeeps
  <2> QED
    BY <1>7, <2>1, <2>2, <2>3, <2>4 DEF Answer
<1> QED
  BY <1>1, <1>2, <1>3, <1>4, <1>5, <1>6, <1>7 DEF Next, User

----------------------------------------------------------------------------
(* The results.                                                            *)

(* layout.tsx:43-93, 137-157 with the pages around it: what is known of    *)
(* every call under way, of the list in the sidebar and of the spinners.   *)
THEOREM SessionInvariant == Spec => []SessionInv
<1>1. Init => SessionInv /\ ModalInv
  BY InitSession
<1>2. SessionInv /\ ModalInv /\ [Next]_vars => SessionInv' /\ ModalInv'
  BY SessionStep, ModalStep
<1> QED
  BY <1>1, <1>2, PTL DEF Spec

(* lib/api.ts:24-35, layout.tsx:43-93, 137-157: however late the answers   *)
(* come, the sidebar shows the apps of the account signed in, unless the   *)
(* token was changed under the layout, and selects one of them.            *)
THEOREM AppsAreOwn == Spec => []AppsAreTheAccounts
<1>1. SessionInv => AppsAreTheAccounts
  BY DEF SessionInv, OwnInv, AppsAreTheAccounts, AppsOf
<1> QED
  BY <1>1, SessionInvariant, PTL

(* layout.tsx:47-93: used one call at a time, the sidebar lists every app  *)
(* of the account that this layout's calls have created or read.           *)
THEOREM CalmIsComplete == Spec => []CalmListIsComplete
<1>1. SessionInv => CalmListIsComplete
  <2> SUFFICES ASSUME SessionInv, route \in Dashboard, calm, ~turned, OfLayout = {}
               PROVE  AppsOf(token) \subseteq apps
    BY DEF CalmListIsComplete
  <2>1. \A i \in Calls : ~OfShell(call[i])
    BY DEF OfLayout, OfShell
  <2> QED
    BY <2>1 DEF SessionInv, CalmInv
<1> QED
  BY <1>1, SessionInvariant, PTL

(* login/page.tsx:17-47, 115-120, register/page.tsx:17-52,                 *)
(* dashboard/page.tsx:39-50: a form's button is disabled exactly while its *)
(* one call is under way, whoever is told "Redirecting..." has a redirect  *)
(* under way, and the spinner of the index page turns as long as its call. *)
THEOREM BusyIsCalling == Spec => []BusyWhileCalling
<1>1. SessionInv => BusyWhileCalling
  <2> SUFFICES ASSUME SessionInv PROVE BusyWhileCalling
    OBVIOUS
  <2> DEFINE live(kinds) == {i \in Calls : call[i].kind \in kinds /\ call[i].live}
             s == live(SignInPages)
  <2>1. signing <=> s # {}
    BY DEF SessionInv, BusyInv, OfSignIn
  <2>2. spinning <=> live({"index"}) # {}
    BY DEF SessionInv, BusyInv, OfIndex
  <2>3. message = "success" => timers > 0
    BY DEF SessionInv, BusyInv
  <2>4. \A i, j \in s : i = j
    BY DEF SessionInv, BusyInv, OfSignIn
  <2>5. Cardinality(s) <= 1
    <3> HIDE DEF s
    <3>1. CASE s = {}
      BY <3>1, FS_EmptySet
    <3>2. CASE s # {}
      <4>1. PICK i : s = {i}
        BY <2>4, <3>2
      <4>2. Cardinality({i}) = 1
        BY FS_Singleton
      <4> QED
        BY <4>1, <4>2
    <3> QED
      BY <3>1, <3>2
  <2> QED
    BY <2>1, <2>2, <2>3, <2>5 DEF BusyWhileCalling
<1> QED
  BY <1>1, SessionInvariant, PTL
=============================================================================
