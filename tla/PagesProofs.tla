---------------------------- MODULE PagesProofs ----------------------------
(***************************************************************************)
(* The documentation shows the article of its URL, and lists it, for any   *)
(* articles and any length of the browser's history.                       *)
(*                                                                         *)
(* UrlShowsItsArticle speaks of the page at rest only.  To be inductive it *)
(* needs what holds while a push is under way: the page already shows what *)
(* the push goes to, or still shows what its URL says.                     *)
(*                                                                         *)
(* And the two pages around it: a search of the history that is under way  *)
(* is the last one and finds the newest of at least what was stored when it*)
(* began, which is what its answer needs; a "Copied" always has its timer. *)
(***************************************************************************)
EXTENDS Pages, SequenceTheorems, TLAPS

DocsTyped ==
  /\ entries \in Seq(Docs) /\ at \in 0..Len(entries)
  /\ page = "docs" => at > 0
  /\ page # "docs" => pending = Nothing
  /\ pending \in Docs \cup {Nothing}

ShownWhilePushing ==
  page = "docs" /\ pending # Nothing /\ ~abandoned =>
    activeDocId = pending \/ (Url \in Articles => activeDocId = Url)

ListedUnlessTouched ==
  page = "docs" /\ ~touched /\ Url \in Articles =>
    activeCategory = CategoryOf[Url]

(* The inductive invariant.                                                *)
DocsInv ==
  DocsTyped /\ UrlShowsItsArticle /\ ShownWhilePushing /\ ListedUnlessTouched

USE DEF DocsInv, DocsTyped, UrlShowsItsArticle, AtArticle, ShownWhilePushing,
        ListedUnlessTouched, Url

(* Nothing is open at first.                                               *)
LEMMA DocsInit == Init => DocsInv
BY DEF Init

(* docs/page.tsx:26-38: a page opened at an id shows it.                   *)
LEMMA OpenKeeps ==
  ASSUME DocsInv, NEW p \in PageNames, Open(p) PROVE DocsInv'
<1>1. CASE p = "docs"
  <2>1. PICK doc \in Docs : NewDocs(<<doc>>, doc)
    BY <1>1 DEF Open
  <2>2. /\ entries' = <<doc>> /\ at' = 1 /\ pending' = Nothing /\ page' = "docs"
        /\ activeDocId' = doc
        /\ doc \in Articles => activeCategory' = CategoryOf[doc]
    BY <1>1, <2>1 DEF NewDocs, Open
  <2> QED BY <2>2, PagesAssumption DEF PagesAssumption
<1>2. CASE p # "docs"
  BY <1>2, PagesAssumption DEF Open, NewDocs, PagesAssumption
<1> QED BY <1>1, <1>2

(* docs/page.tsx:33-38: the router going from one URL to another keeps the *)
(* page in step, if its selection was not overtaken.                       *)
LEMMA FollowKeeps ==
  ASSUME DocsInv, page = "docs", page' = "docs", pending' = Nothing,
         NEW doc \in Docs, NEW overtaken \in BOOLEAN, Follow(doc, overtaken),
         entries' \in Seq(Docs), at' \in 1..Len(entries'), entries'[at'] = doc,
         doc = Url /\ doc \in Articles /\ ~abandoned /\ ~overtaken
           => activeDocId = Url
  PROVE  DocsInv'
<1>1. CASE doc # Url /\ doc \in Articles
  BY <1>1 DEF Follow
<1>2. CASE ~(doc # Url /\ doc \in Articles)
  <2>1. /\ abandoned' = (abandoned \/ overtaken)
        /\ UNCHANGED <<activeDocId, activeCategory, touched>>
    BY <1>2 DEF Follow
  <2>2. doc \in Articles => doc = Url
    BY <1>2
  <2>3. UrlShowsItsArticle'
    BY <2>1, <2>2
  <2>4. ListedUnlessTouched'
    BY <2>1, <2>2
  <2> QED BY <2>1, <2>3, <2>4
<1> QED BY <1>1, <1>2

(* docs/page.tsx:40-51: the router gets to the article that was selected.  *)
LEMMA PushKeeps == ASSUME DocsInv, Push PROVE DocsInv'
<1> USE DEF Push
<1>1. page = "docs" /\ at \in 1..Len(entries) /\ pending \in Docs
  OBVIOUS
<1>2. /\ entries' \in Seq(Docs) /\ at' \in 1..Len(entries')
      /\ entries'[at'] = pending
  <2>1. CASE entries' = Append(SubSeq(entries, 1, at), pending) /\ at' = at + 1
    <3>1. SubSeq(entries, 1, at) \in Seq(Docs) /\ Len(SubSeq(entries, 1, at)) = at
      BY <1>1
    <3> QED BY <1>1, <2>1, <3>1
  <2>2. CASE pending = Url /\ UNCHANGED <<entries, at>>
    BY <1>1, <2>2
  <2> QED BY <2>1, <2>2
<1>3. page' = "docs" /\ pending' = Nothing /\ Follow(pending, FALSE)
  BY <1>1
<1>4. pending = Url /\ pending \in Articles /\ ~abandoned => activeDocId = Url
  BY <1>1
<1> QED BY <1>1, <1>2, <1>3, <1>4, FollowKeeps

(* The browser's back and forward, which may overtake it.                  *)
LEMMA TraverseKeeps ==
  ASSUME DocsInv, NEW place \in 1..MaxEntries, Traverse(place) PROVE DocsInv'
<1> USE DEF Traverse
<1>1. /\ page = "docs" /\ page' = "docs" /\ pending' = Nothing
      /\ entries' \in Seq(Docs) /\ at' \in 1..Len(entries')
      /\ entries[place] \in Docs /\ entries'[at'] = entries[place]
  OBVIOUS
<1>2. Follow(entries[place], pending # Nothing)
  OBVIOUS
<1>3. entries[place] = Url /\ entries[place] \in Articles /\ ~abandoned
        /\ ~(pending # Nothing) => activeDocId = Url
  BY <1>1
<1>4. (pending # Nothing) \in BOOLEAN
  OBVIOUS
<1> HIDE DEF DocsInv, Traverse
<1> QED BY <1>1, <1>2, <1>3, <1>4, FollowKeeps

(* Every step keeps the invariant.                                         *)
LEMMA DocsNext == DocsInv /\ [Next]_vars => DocsInv'
<1> SUFFICES ASSUME DocsInv, [Next]_vars PROVE DocsInv'
  OBVIOUS
<1>1. ASSUME UNCHANGED <<page, docs>> PROVE DocsInv'
  BY <1>1 DEF docs
<1>2. ASSUME NEW p \in PageNames, Open(p) PROVE DocsInv'
  BY <1>2, OpenKeeps
<1>3. CASE Server
  BY <1>1, <1>3 DEF Server, StatisticsChange, SaveChannelMessage, ServeApp, ServeStats,
     ServeHistory
<1>4. CASE Overview
  BY <1>1, <1>4 DEF Overview, Poll, AppEnds, StatsAnswered, StatsFail, Fade, Copy
<1>5. CASE History
  BY <1>1, <1>5 DEF History, TypeChannel, Search, HistoryAnswered, HistoryFails
<1>6. ASSUME NEW category \in Categories, ChooseCategory(category)
      PROVE  DocsInv'
  BY <1>6 DEF ChooseCategory
<1>7. ASSUME NEW doc \in Docs, SelectDoc(doc) PROVE DocsInv'
  BY <1>7, PagesAssumption DEF SelectDoc, PagesAssumption
<1>8. CASE LinkHome
  BY <1>8, PagesAssumption DEF LinkHome, PagesAssumption
<1>9. CASE Push
  BY <1>9, PushKeeps
<1>10. ASSUME NEW place \in 1..MaxEntries, Traverse(place) PROVE DocsInv'
  BY <1>10, TraverseKeeps
<1>11. CASE UNCHANGED vars
  BY <1>1, <1>11 DEF vars, docs
<1> QED
  BY <1>2, <1>3, <1>4, <1>5, <1>6, <1>7, <1>8, <1>9, <1>10, <1>11
  DEF Next, Documentation

(* So it holds in every state of every execution.                          *)
LEMMA DocsAlways == Spec => []DocsInv
<1>1. Init => DocsInv
  BY DocsInit
<1>2. DocsInv /\ [Next]_vars => DocsInv'
  BY DocsNext
<1> QED BY <1>1, <1>2, PTL DEF Spec

(* docs/page.tsx:26-51: at rest, an article's URL shows that article,      *)
(* however the user got there, unless a selection was overtaken.           *)
THEOREM UrlDecidesTheArticle == Spec => []UrlShowsItsArticle
<1>1. DocsInv => UrlShowsItsArticle
  OBVIOUS
<1> QED BY <1>1, DocsAlways, PTL

(* docs/page.tsx:28-38, 200: and the sidebar lists it, unless the user     *)
(* chose another category since.                                           *)
THEOREM SidebarFollowsTheArticle == Spec => []SidebarListsTheArticle
<1>1. DocsInv => SidebarListsTheArticle
  BY DEF SidebarListsTheArticle
<1> QED BY <1>1, DocsAlways, PTL

HIDE DEF DocsInv, DocsTyped, UrlShowsItsArticle, AtArticle, ShownWhilePushing,
         ListedUnlessTouched, Url

----------------------------------------------------------------------------
(* The copy buttons of the overview.                                       *)

FadingInv == timers \in Nat /\ CopiedFades

(* [id]/page.tsx:61-65: however the copies overlap, "Copied" has a timer   *)
(* under way that clears it.                                               *)
THEOREM CopiedIsFading == Spec => []CopiedFades
<1>1. Init => FadingInv
  BY DEF Init, FadingInv, CopiedFades
<1>2. FadingInv /\ [Next]_vars => FadingInv'
  <2> SUFFICES ASSUME FadingInv, [Next]_vars PROVE FadingInv'
    OBVIOUS
  <2> USE DEF FadingInv, CopiedFades
  <2>1. ASSUME UNCHANGED <<copied, timers>> PROVE FadingInv'
    BY <2>1
  <2>2. ASSUME NEW p \in PageNames, Open(p) PROVE FadingInv'
    BY <2>2 DEF Open, NewOverview
  <2>3. CASE Overview
    <3>1. CASE Fade
      BY <3>1 DEF Fade
    <3>2. ASSUME NEW item \in CopyButtons, Copy(item) PROVE FadingInv'
      BY <3>2 DEF Copy
    <3>3. ASSUME NEW i \in Calls, Poll(i) \/ AppEnds(i) \/ StatsAnswered(i) \/ StatsFail(i)
          PROVE  FadingInv'
      BY <2>1, <3>3 DEF Poll, AppEnds, StatsAnswered, StatsFail, overview
    <3> QED
      BY <2>3, <3>1, <3>2, <3>3 DEF Overview
  <2>4. CASE Server
    BY <2>1, <2>4 DEF Server, StatisticsChange, SaveChannelMessage, ServeApp, ServeStats,
       ServeHistory, overview
  <2>5. CASE History
    BY <2>1, <2>5 DEF History, TypeChannel, Search, HistoryAnswered, HistoryFails, overview
  <2>6. CASE Documentation
    BY <2>1, <2>6 DEF Documentation, ChooseCategory, SelectDoc, LinkHome, Push, Traverse,
       overview
  <2>7. CASE UNCHANGED vars
    BY <2>1, <2>7 DEF vars
  <2> QED
    BY <2>2, <2>3, <2>4, <2>5, <2>6, <2>7 DEF Next
<1>3. FadingInv => CopiedFades
  BY DEF FadingInv
<1> QED
  BY <1>1, <1>2, <1>3, PTL DEF Spec

----------------------------------------------------------------------------
(* The search of the history.                                              *)

CallRecords ==
  [kind : {"none", "app", "stats", "history"}, pc : {"free", "sent", "ok"},
   channel : Channels \cup {Nothing}, count : Nat, rows : SUBSET Nat]

HistoryTyped ==
  /\ activity \in Nat /\ stored \in [Channels -> Nat]
  /\ call \in [Calls -> CallRecords]
  /\ typed \in Channels \cup {Nothing} /\ loading \in BOOLEAN /\ found \in BOOLEAN
  /\ asked \in (Channels \cup {Nothing}) \X Nat
  /\ messages \in (Channels \cup {Nothing}) \X SUBSET Nat
  /\ \A i \in Calls : call[i].pc = "free" <=> call[i].kind = "none"

(* The newest of at least the first m messages.                            *)
NewestFrom(rows, m) == \E n \in Nat : n >= m /\ rows = Newest(n)

(* A search under way is the last one, was not answered, and what it finds *)
(* is the newest of no less than was stored when it began.                 *)
SearchUnderWay ==
  /\ \A i, j \in Calls : call[i].kind = "history" /\ call[j].kind = "history" => i = j
  /\ \A i \in Calls : call[i].kind = "history" =>
       /\ ~found /\ call[i].channel = asked[1] /\ asked[1] \in Channels
       /\ call[i].pc = "sent" => stored[asked[1]] >= asked[2]
       /\ call[i].pc = "ok" => NewestFrom(call[i].rows, asked[2])

(* The search that is over.                                                *)
SearchAnswered ==
  /\ loading <=> \E i \in Calls : call[i].kind = "history"
  /\ ~loading /\ found => messages[1] = asked[1] /\ NewestFrom(messages[2], asked[2])

(* The inductive invariant.                                                *)
SearchInv == HistoryTyped /\ SearchUnderWay /\ SearchAnswered

(* handleGetChannelHistory and the store: one of the first messages that is*)
(* not among the newest has as many after it as there is room for.         *)
LEMMA NewestLeaveOutTheOldest ==
  ASSUME NEW a \in Nat, NEW rows \in SUBSET Nat, NewestFrom(rows, a), NEW m \in 1..a
  PROVE  \/ m \in rows
         \/ \E n \in rows : m < n /\ n..(n + HistoryLimit - 1) \subseteq rows
<1>1. HistoryLimit \in Nat \ {0}
  BY PagesAssumption DEF PagesAssumption
<1>2. PICK n \in Nat : n >= a /\ rows = Newest(n)
  BY DEF NewestFrom
<1>3. CASE n < m + HistoryLimit
  BY <1>1, <1>2, <1>3 DEF Newest
<1>4. CASE ~(n < m + HistoryLimit)
  <2> DEFINE first == n - HistoryLimit + 1
  <2>1. first \in 1..n /\ m < first /\ n < first + HistoryLimit
    BY <1>1, <1>2, <1>4
  <2>2. first \in rows /\ first..(first + HistoryLimit - 1) \subseteq rows
    BY <1>1, <1>2, <2>1 DEF Newest
  <2> QED
    BY <2>1, <2>2
<1> QED
  BY <1>3, <1>4

(* The label of the button is its flag.                                    *)
LEMMA ButtonSays ==
  ASSUME loading \in BOOLEAN
  PROVE  /\ SearchButton = "Searching..." <=> loading
         /\ SearchButton = "Fetch History" <=> ~loading
BY DEF SearchButton

(* A call that is no search begins, goes on or ends.                       *)
LEMMA OtherCallKeeps ==
  ASSUME SearchInv, NEW i \in Calls, NEW x \in CallRecords,
         call[i].kind # "history", x.kind # "history", x.pc = "free" <=> x.kind = "none",
         call' = [call EXCEPT ![i] = x], UNCHANGED <<server, history>>
  PROVE  SearchInv'
<1>1. UNCHANGED <<activity, stored, typed, messages, loading, asked, found>>
  BY DEF server, history
<1>2. /\ call'[i] = x /\ \A j \in Calls \ {i} : call'[j] = call[j]
      /\ call' \in [Calls -> CallRecords]
  BY DEF SearchInv, HistoryTyped
<1>3. HistoryTyped'
  BY <1>1, <1>2 DEF SearchInv, HistoryTyped
<1>4. \A j \in Calls : call'[j].kind = "history" => j # i /\ call'[j] = call[j]
  BY <1>2
<1>5. SearchUnderWay'
  BY <1>1, <1>4 DEF SearchInv, SearchUnderWay
<1>6. SearchAnswered'
  BY <1>1, <1>2 DEF SearchInv, SearchAnswered
<1> QED
  BY <1>3, <1>5, <1>6 DEF SearchInv

(* The button begins a search, when none is under way.                     *)
LEMMA SearchKeeps ==
  ASSUME SearchInv, NEW i \in Calls, Search(i)
  PROVE  SearchInv'
<1> DEFINE x == Sent("history", typed)
<1>1. /\ ~loading /\ loading' = TRUE /\ found' = FALSE /\ asked' = <<typed, stored[typed]>>
      /\ call' = [call EXCEPT ![i] = x] /\ typed # Nothing
      /\ UNCHANGED <<activity, stored, typed, messages>>
  BY ButtonSays DEF Search, server, SearchInv, HistoryTyped
<1>2. /\ x \in CallRecords /\ x.kind = "history" /\ x.pc = "sent" /\ x.channel = typed
      /\ typed \in Channels /\ stored[typed] \in Nat
  BY <1>1 DEF SearchInv, HistoryTyped, CallRecords, Sent, Unused
<1> HIDE DEF x
<1>3. /\ call'[i] = x /\ \A j \in Calls \ {i} : call'[j] = call[j]
      /\ call' \in [Calls -> CallRecords]
  BY <1>1, <1>2 DEF SearchInv, HistoryTyped
<1>4. \A j \in Calls : call'[j].kind = "history" => j = i
  BY <1>1, <1>3 DEF SearchInv, SearchAnswered
<1>5. HistoryTyped'
  BY <1>1, <1>2, <1>3 DEF SearchInv, HistoryTyped
<1>6. SearchUnderWay'
  BY <1>1, <1>2, <1>3, <1>4 DEF SearchUnderWay
<1>7. SearchAnswered'
  BY <1>1, <1>2, <1>3 DEF SearchAnswered
<1> QED
  BY <1>5, <1>6, <1>7 DEF SearchInv

(* A search ends: its slot is free again, and no other search there.       *)
LEMMA SearchEnded ==
  ASSUME SearchInv, NEW i \in Calls, call[i].kind = "history", SearchEnds(i)
  PROVE  /\ call' \in [Calls -> CallRecords] /\ loading' = FALSE
         /\ \A j \in Calls : call'[j].kind # "history"
         /\ \A j \in Calls : call'[j].pc = "free" <=> call'[j].kind = "none"
<1>1. loading' = FALSE /\ call' = [call EXCEPT ![i] = Unused]
  BY DEF SearchEnds
<1>2. Unused \in CallRecords /\ Unused.kind = "none" /\ Unused.pc = "free"
  BY DEF Unused, CallRecords
<1>3. /\ call'[i] = Unused /\ \A j \in Calls \ {i} : call'[j] = call[j]
      /\ call' \in [Calls -> CallRecords]
  BY <1>1, <1>2 DEF SearchInv, HistoryTyped
<1>4. \A j \in Calls : call'[j].kind # "history"
  BY <1>2, <1>3 DEF SearchInv, SearchUnderWay
<1>5. \A j \in Calls : call'[j].pc = "free" <=> call'[j].kind = "none"
  BY <1>2, <1>3 DEF SearchInv, HistoryTyped
<1> QED
  BY <1>1, <1>3, <1>4, <1>5

(* With its answer, or without.                                            *)
LEMMA SearchEndsKeeps ==
  ASSUME SearchInv, NEW i \in Calls, HistoryAnswered(i) \/ HistoryFails(i)
  PROVE  SearchInv'
<1>1. /\ call[i].kind = "history" /\ SearchEnds(i)
      /\ UNCHANGED <<activity, stored, typed, asked>>
  BY DEF HistoryAnswered, HistoryFails, Is, server
<1>2. /\ call' \in [Calls -> CallRecords] /\ loading' = FALSE
      /\ \A j \in Calls : call'[j].kind # "history"
      /\ \A j \in Calls : call'[j].pc = "free" <=> call'[j].kind = "none"
  BY <1>1, SearchEnded
<1>3. /\ ~found /\ call[i].channel = asked[1] /\ asked[1] \in Channels
      /\ call[i].pc = "ok" => NewestFrom(call[i].rows, asked[2])
  BY <1>1 DEF SearchInv, SearchUnderWay
<1>4. \/ /\ found' = TRUE /\ messages' = <<call[i].channel, call[i].rows>>
         /\ call[i].pc = "ok"
      \/ UNCHANGED <<found, messages>>
  BY DEF HistoryAnswered, HistoryFails, Is
<1>5. /\ call[i].channel \in Channels \cup {Nothing} /\ call[i].rows \in SUBSET Nat
      /\ messages \in (Channels \cup {Nothing}) \X SUBSET Nat /\ found \in BOOLEAN
  BY DEF SearchInv, HistoryTyped, CallRecords
<1>6. HistoryTyped'
  <2>1. /\ messages' \in (Channels \cup {Nothing}) \X SUBSET Nat
        /\ found' \in BOOLEAN
    <3>1. CASE found' = TRUE /\ messages' = <<call[i].channel, call[i].rows>>
      BY <1>5, <3>1
    <3>2. CASE UNCHANGED <<found, messages>>
      BY <1>5, <3>2
    <3> QED
      BY <1>4, <3>1, <3>2
  <2> QED
    BY <1>1, <1>2, <2>1 DEF SearchInv, HistoryTyped
<1>7. SearchUnderWay'
  BY <1>2 DEF SearchUnderWay
<1>8. SearchAnswered'
  <2>1. found' => messages'[1] = asked[1] /\ NewestFrom(messages'[2], asked[2])
    <3>1. CASE messages' = <<call[i].channel, call[i].rows>> /\ call[i].pc = "ok"
      BY <1>3, <3>1
    <3>2. CASE UNCHANGED <<found, messages>>
      BY <1>3, <3>2
    <3> QED
      BY <1>4, <3>1, <3>2
  <2> QED
    BY <1>1, <1>2, <2>1 DEF SearchAnswered
<1> QED
  BY <1>6, <1>7, <1>8 DEF SearchInv

(* The server answers a search with the newest of what is stored by then.  *)
LEMMA ServeHistoryKeeps ==
  ASSUME SearchInv, NEW i \in Calls, ServeHistory(i)
  PROVE  SearchInv'
<1> DEFINE rows == Newest(stored[call[i].channel])
           x == [call[i] EXCEPT !.pc = "ok", !.rows = rows]
<1>1. /\ call[i].kind = "history" /\ call[i].pc = "sent"
      /\ call' = [call EXCEPT ![i].pc = "ok", ![i].rows = rows]
      /\ UNCHANGED <<activity, stored, typed, messages, loading, asked, found>>
  BY DEF ServeHistory, Is, server, history
<1>2. call[i] \in CallRecords /\ call \in [Calls -> CallRecords]
  BY DEF SearchInv, HistoryTyped
<1>3. /\ ~found /\ call[i].channel = asked[1] /\ asked[1] \in Channels
      /\ stored[asked[1]] >= asked[2] /\ stored[asked[1]] \in Nat
  BY <1>1 DEF SearchInv, SearchUnderWay, HistoryTyped
<1>4. rows \in SUBSET Nat /\ NewestFrom(rows, asked[2])
  BY <1>3 DEF Newest, NewestFrom
<1> HIDE DEF rows
<1>5. call' = [call EXCEPT ![i] = x]
  BY <1>1, <1>2
<1>6. /\ x \in CallRecords /\ x.kind = "history" /\ x.pc = "ok"
      /\ x.channel = call[i].channel /\ x.rows = rows
  BY <1>1, <1>2, <1>4 DEF CallRecords
<1> HIDE DEF x
<1>7. /\ call'[i] = x /\ \A j \in Calls \ {i} : call'[j] = call[j]
      /\ call' \in [Calls -> CallRecords]
  BY <1>2, <1>5, <1>6
<1>8. \A j \in Calls : call'[j].kind = "history" => j = i
  BY <1>1, <1>7 DEF SearchInv, SearchUnderWay
<1>9. HistoryTyped'
  BY <1>1, <1>6, <1>7 DEF SearchInv, HistoryTyped
<1>10. SearchUnderWay'
  BY <1>1, <1>3, <1>4, <1>6, <1>7, <1>8 DEF SearchUnderWay
<1>11. SearchAnswered'
  BY <1>1, <1>6, <1>7 DEF SearchInv, SearchAnswered
<1> QED
  BY <1>9, <1>10, <1>11 DEF SearchInv

(* The other answers are not the history's.                                *)
LEMMA ServeOtherKeeps ==
  ASSUME SearchInv, NEW i \in Calls, ServeApp(i) \/ ServeStats(i)
  PROVE  SearchInv'
<1>1. /\ call[i].kind \in {"app", "stats"} /\ call[i].pc = "sent"
      /\ UNCHANGED <<server, history>>
      /\ \/ call' = [call EXCEPT ![i].pc = "ok"]
         \/ call' = [call EXCEPT ![i].pc = "ok", ![i].count = activity]
  BY DEF ServeApp, ServeStats, Is
<1>2. call[i] \in CallRecords /\ call \in [Calls -> CallRecords] /\ activity \in Nat
  BY DEF SearchInv, HistoryTyped
<1> DEFINE x == [call[i] EXCEPT !.pc = "ok"]
           y == [call[i] EXCEPT !.pc = "ok", !.count = activity]
<1>3. /\ x \in CallRecords /\ x.kind = call[i].kind /\ x.pc = "ok"
      /\ y \in CallRecords /\ y.kind = call[i].kind /\ y.pc = "ok"
  BY <1>2 DEF CallRecords
<1>4. call' = [call EXCEPT ![i] = x] \/ call' = [call EXCEPT ![i] = y]
  BY <1>1, <1>2
<1> HIDE DEF x, y
<1> QED
  BY <1>1, <1>3, <1>4, OtherCallKeeps

(* The history page is opened with a search, another page with none.       *)
LEMMA OpenKeepsSearch ==
  ASSUME SearchInv, NEW p \in PageNames, Open(p)
  PROVE  SearchInv'
<1>1. /\ call' = [i \in Calls |-> IF i = 1 THEN FirstCall(p) ELSE Unused]
      /\ NewHistory(p = "history") /\ UNCHANGED <<activity, stored>>
  BY DEF Open, server
<1>2. /\ Unused \in CallRecords /\ Unused.kind = "none" /\ Unused.pc = "free"
      /\ 1 \in Calls /\ DefaultChannel \in Channels /\ stored \in [Channels -> Nat]
  BY PagesAssumption DEF PagesAssumption, Calls, Unused, CallRecords, SearchInv, HistoryTyped
<1>3. /\ FirstCall(p) \in CallRecords
      /\ FirstCall(p).pc = "free" <=> FirstCall(p).kind = "none"
      /\ FirstCall(p).kind = "history" <=> p = "history"
      /\ p = "history" => FirstCall(p).pc = "sent" /\ FirstCall(p).channel = DefaultChannel
  BY <1>2 DEF FirstCall, Sent, Unused, CallRecords, PageNames
<1>4. /\ typed' = DefaultChannel /\ messages' = <<Nothing, {}>>
      /\ loading' = (p = "history") /\ found' = FALSE
      /\ p = "history" => asked' = <<DefaultChannel, stored[DefaultChannel]>>
      /\ p # "history" => asked' = <<Nothing, 0>>
  BY <1>1 DEF NewHistory
<1>5. /\ call' \in [Calls -> CallRecords]
      /\ call'[1] = FirstCall(p) /\ \A i \in Calls \ {1} : call'[i] = Unused
  BY <1>1, <1>2, <1>3
<1>6. HistoryTyped'
  <2>1. /\ asked' \in (Channels \cup {Nothing}) \X Nat
        /\ messages' \in (Channels \cup {Nothing}) \X SUBSET Nat
    BY <1>2, <1>4
  <2> QED
    BY <1>1, <1>2, <1>3, <1>4, <1>5, <2>1 DEF SearchInv, HistoryTyped
<1>7. SearchUnderWay'
  BY <1>1, <1>2, <1>3, <1>4, <1>5 DEF SearchUnderWay
<1>8. SearchAnswered'
  BY <1>2, <1>3, <1>4, <1>5 DEF SearchAnswered
<1> QED
  BY <1>6, <1>7, <1>8 DEF SearchInv

(* Messages are only ever added.                                           *)
LEMMA StoredKeeps ==
  ASSUME SearchInv,
         StatisticsChange \/ \E c \in Channels : SaveChannelMessage(c)
  PROVE  SearchInv'
<1>1. UNCHANGED <<call, typed, messages, loading, asked, found>>
  BY DEF StatisticsChange, SaveChannelMessage, history
<1>2. activity \in Nat /\ stored \in [Channels -> Nat]
  BY DEF SearchInv, HistoryTyped
<1>3. /\ activity' \in Nat /\ stored' \in [Channels -> Nat]
      /\ \A c \in Channels : stored'[c] >= stored[c]
  <2>1. CASE StatisticsChange
    BY <1>2, <2>1 DEF StatisticsChange
  <2>2. ASSUME NEW c \in Channels, SaveChannelMessage(c)
        PROVE  /\ activity' \in Nat /\ stored' \in [Channels -> Nat]
               /\ \A d \in Channels : stored'[d] >= stored[d]
    BY <1>2, <2>2 DEF SaveChannelMessage
  <2> QED
    BY <2>1, <2>2
<1>4. HistoryTyped'
  BY <1>1, <1>3 DEF SearchInv, HistoryTyped
<1>5. SearchUnderWay'
  <2>1. ASSUME NEW i \in Calls, call[i].kind = "history", call[i].pc = "sent"
        PROVE  stored'[asked[1]] >= asked[2]
    <3>1. asked[1] \in Channels /\ stored[asked[1]] >= asked[2] /\ asked[2] \in Nat
      BY <2>1 DEF SearchInv, SearchUnderWay, HistoryTyped
    <3>2. stored[asked[1]] \in Nat /\ stored'[asked[1]] \in Nat
      BY <1>2, <1>3, <3>1
    <3> QED
      BY <1>3, <3>1, <3>2
  <2> QED
    BY <1>1, <2>1 DEF SearchInv, SearchUnderWay
<1>6. SearchAnswered'
  BY <1>1 DEF SearchInv, SearchAnswered
<1> QED
  BY <1>4, <1>5, <1>6 DEF SearchInv

(* Every step keeps the invariant.                                         *)
LEMMA SearchStep == SearchInv /\ [Next]_vars => SearchInv'
<1> SUFFICES ASSUME SearchInv, [Next]_vars PROVE SearchInv'
  OBVIOUS
<1>1. ASSUME UNCHANGED <<server, call, history>> PROVE SearchInv'
  BY <1>1 DEF server, history, SearchInv, HistoryTyped, SearchUnderWay, SearchAnswered
<1>2. ASSUME NEW p \in PageNames, Open(p) PROVE SearchInv'
  BY <1>2, OpenKeepsSearch
<1>3. CASE Server
  BY <1>3, StoredKeeps, ServeOtherKeeps, ServeHistoryKeeps DEF Server
<1>4. CASE Overview
  <2>1. /\ Sent("stats", Nothing) \in CallRecords /\ Sent("stats", Nothing).kind = "stats"
        /\ Sent("stats", Nothing).pc = "sent"
        /\ Unused \in CallRecords /\ Unused.kind = "none" /\ Unused.pc = "free"
    BY DEF Sent, Unused, CallRecords
  <2>2. ASSUME NEW i \in Calls, Poll(i) \/ AppEnds(i) PROVE SearchInv'
    <3>1. /\ call' = [call EXCEPT ![i] = Sent("stats", Nothing)]
          /\ UNCHANGED <<server, history>>
          /\ call[i].pc = "free" \/ call[i].kind = "app"
      BY <2>2 DEF Poll, AppEnds, Free
    <3>2. call[i].kind # "history"
      BY <3>1 DEF SearchInv, HistoryTyped
    <3> QED
      BY <2>1, <3>1, <3>2, OtherCallKeeps
  <2>3. ASSUME NEW i \in Calls, StatsAnswered(i) \/ StatsFail(i) PROVE SearchInv'
    <3>1. /\ call' = [call EXCEPT ![i] = Unused]
          /\ UNCHANGED <<server, history>> /\ call[i].kind = "stats"
      BY <2>3 DEF StatsAnswered, StatsFail, Is
    <3> QED
      BY <2>1, <3>1, OtherCallKeeps
  <2>4. CASE Fade \/ \E item \in CopyButtons : Copy(item)
    BY <1>1, <2>4 DEF Fade, Copy
  <2> QED
    BY <1>4, <2>2, <2>3, <2>4 DEF Overview
<1>5. CASE History
  <2>1. ASSUME NEW c \in Channels \cup {Nothing}, TypeChannel(c) PROVE SearchInv'
    BY <2>1 DEF TypeChannel, server, SearchInv, HistoryTyped, SearchUnderWay,
       SearchAnswered
  <2> QED
    BY <1>5, <2>1, SearchKeeps, SearchEndsKeeps DEF History
<1>6. CASE Documentation
  BY <1>1, <1>6 DEF Documentation, ChooseCategory, SelectDoc, LinkHome, Push, Traverse
<1>7. CASE UNCHANGED vars
  BY <1>1, <1>7 DEF vars, server, history
<1> QED
  BY <1>2, <1>3, <1>4, <1>5, <1>6, <1>7 DEF Next

(* history/page.tsx:25-46, 74-93: the button is disabled exactly while a   *)
(* search is under way; once it was answered, what is listed is what was   *)
(* searched for last, and misses nothing that was stored when that began,  *)
(* unless as many newer messages as the limit allows are listed instead.   *)
THEOREM SearchIsTheLast == Spec => []SearchShowsWhatItFound
<1>1. Init => SearchInv
  <2> SUFFICES ASSUME Init PROVE SearchInv
    OBVIOUS
  <2>1. Unused \in CallRecords /\ Unused.kind = "none" /\ Unused.pc = "free"
    BY DEF Unused, CallRecords
  <2>2. HistoryTyped
    BY <2>1, PagesAssumption DEF PagesAssumption, Init, HistoryTyped
  <2> QED
    BY <2>1, <2>2 DEF Init, SearchInv, SearchUnderWay, SearchAnswered
<1>2. SearchInv /\ [Next]_vars => SearchInv'
  BY SearchStep
<1>3. SearchInv => SearchShowsWhatItFound
  <2> SUFFICES ASSUME SearchInv PROVE SearchShowsWhatItFound
    OBVIOUS
  <2>1. /\ SearchButton = "Searching..." <=> loading
        /\ SearchButton = "Fetch History" <=> ~loading
    BY ButtonSays DEF SearchInv, HistoryTyped
  <2>2. Feed.of = messages[1] /\ Feed.rows = messages[2]
    BY DEF Feed
  <2>3. /\ messages[2] \in SUBSET Nat /\ asked[2] \in Nat
        /\ loading <=> \E i \in Calls : call[i].kind = "history"
        /\ ~loading /\ found =>
             messages[1] = asked[1] /\ NewestFrom(messages[2], asked[2])
    BY DEF SearchInv, HistoryTyped, SearchAnswered
  <2>4. ASSUME ~loading, found, NEW m \in 1..asked[2]
        PROVE  \/ m \in messages[2]
               \/ \E n \in messages[2] :
                    m < n /\ n..(n + HistoryLimit - 1) \subseteq messages[2]
    BY <2>3, <2>4, NewestLeaveOutTheOldest
  <2> QED
    BY <2>1, <2>2, <2>3, <2>4 DEF SearchShowsWhatItFound
<1> QED
  BY <1>1, <1>2, <1>3, PTL DEF Spec
=============================================================================
