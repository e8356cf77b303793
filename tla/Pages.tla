------------------------------- MODULE Pages -------------------------------
(***************************************************************************)
(* The pages of the dashboard that only read: the overview of an app       *)
(* (app/dashboard/apps/[id]/page.tsx), its message history                 *)
(* (.../history/page.tsx) and the documentation (app/docs/page.tsx).       *)
(*                                                                         *)
(* One of them is shown at a time.  Its state is new when it is opened,    *)
(* and what its calls and timers still do once it is left reaches nobody.  *)
(* What the server counts only grows here, so that older answers can be    *)
(* told from newer ones, and the messages of a channel are numbered in the *)
(* order they are stored.  Layout (tabs of snippets, the hidden secret, the*)
(* text of the search box, the mobile menu) is left out.                   *)
(***************************************************************************)
EXTENDS Naturals, Sequences

CONSTANTS
  Channels, DefaultChannel,
  Nothing,        \* no channel (also a blank name), no document, no answer
  HistoryLimit,   \* the limit=50 of a search
  Articles,       \* the ids of ARTICLES_MAP
  Docs,           \* ids a link may carry: the sidebar lists some more
  Quickstart,     \* the article shown by default
  Categories, CategoryOf, FirstCategory,
  Sections,       \* DOCS_SECTIONS: the items listed under each category
  MaxCalls,       \* bound: calls of a page under way at once
  MaxGrowth,      \* bound: changes of the statistics, messages per channel
  MaxTimers,      \* bound: timers of copy buttons at once
  MaxEntries      \* bound: entries of the browser's history

ASSUME PagesAssumption ==
  /\ DefaultChannel \in Channels
  /\ Quickstart \in Articles /\ Articles \subseteq Docs
  /\ CategoryOf \in [Articles -> Categories] /\ FirstCategory \in Categories
  /\ Sections \in [Categories -> SUBSET Docs]
  /\ Nothing \notin Channels \cup Docs /\ Nothing \notin Nat
  /\ HistoryLimit \in Nat \ {0}
  /\ MaxCalls \in Nat \ {0} /\ MaxGrowth \in Nat /\ MaxTimers \in Nat
  /\ MaxEntries \in Nat \ {0}

Calls == 1..MaxCalls
PageNames == {"overview", "history", "docs", "elsewhere"}

VARIABLES
  activity,  \* the server: how often the statistics have changed
  stored,    \* messages stored for each channel
  page,      \* the page shown
  call,      \* its calls
  app,       \* the overview: the app is loaded
  stats,     \* the last statistics that came
  copied,    \* copiedKey
  timers,    \* timers that will clear it
  typed,     \* the history: channel
  messages,  \* whose messages came last, and which
  loading,
  asked,     \* ghost: the last search, and what was stored at the time
  found,     \* ghost: it was answered
  entries, at,   \* the browser's history, and the place in it
  pending,   \* a push of the router that is not yet in it
  activeDocId, activeCategory,
  touched,   \* ghost: a category was chosen since a link was last followed
  abandoned  \* ghost: the last selection was overtaken by another navigation

server  == <<activity, stored>>
overview == <<app, stats, copied, timers>>
history == <<typed, messages, loading, asked, found>>
docs    == <<entries, at, pending, activeDocId, activeCategory, touched,
             abandoned>>
vars == <<activity, stored, page, call, app, stats, copied, timers, typed,
          messages, loading, asked, found, entries, at, pending, activeDocId,
          activeCategory, touched, abandoned>>

(* A call: what it is ("app", "stats", "history"), how far it got ("free", *)
(* "sent", "ok"), the channel asked for, and what the server answered: the *)
(* statistics or some messages.                                            *)
Unused == [kind |-> "none", pc |-> "free", channel |-> Nothing, count |-> 0, rows |-> {}]

Free(i) == call[i].pc = "free" /\ \A j \in 1..(i - 1) : call[j].pc # "free"

Sent(kind, c) == [Unused EXCEPT !.kind = kind, !.pc = "sent", !.channel = c]

Is(i, kind, pc) == call[i].kind = kind /\ call[i].pc = pc

----------------------------------------------------------------------------
(* A page is opened: the overview loads the app, the history the messages  *)
(* of its default channel.  A link to the documentation may carry an id    *)
(* that is no article's.                                                   *)

FirstCall(p) ==
  CASE p = "overview" -> Sent("app", Nothing)
    [] p = "history"  -> Sent("history", DefaultChannel)
    [] OTHER -> Unused

Init ==
  /\ activity = 0 /\ stored = [c \in Channels |-> 0]
  /\ page = "elsewhere" /\ call = [i \in Calls |-> Unused]
  /\ app = FALSE /\ stats = Nothing /\ copied = Nothing /\ timers = 0
  /\ typed = DefaultChannel /\ messages = <<Nothing, {}>>
  /\ loading = FALSE /\ asked = <<Nothing, 0>> /\ found = FALSE
  /\ entries = <<>> /\ at = 0 /\ pending = Nothing
  /\ activeDocId = Quickstart /\ activeCategory = FirstCategory
  /\ touched = FALSE /\ abandoned = FALSE

NewOverview ==
  app' = FALSE /\ stats' = Nothing /\ copied' = Nothing /\ timers' = 0

NewHistory(searching) ==
  /\ typed' = DefaultChannel /\ messages' = <<Nothing, {}>>
  /\ loading' = searching /\ found' = FALSE
  /\ asked' = IF searching THEN <<typed', stored[typed']>> ELSE <<Nothing, 0>>

NewDocs(links, doc) ==
  /\ entries' = links /\ at' = Len(links) /\ pending' = Nothing
  /\ activeDocId' = doc
  /\ activeCategory' = IF doc \in Articles THEN CategoryOf[doc] ELSE FirstCategory
  /\ touched' = FALSE /\ abandoned' = FALSE

(* Whatever the page shown before had under way is of no use any more; its *)
(* interval is cleared.                                                    *)
Open(p) ==
  /\ page # p /\ page' = p
  /\ call' = [i \in Calls |-> IF i = 1 THEN FirstCall(p) ELSE Unused]
  /\ NewOverview /\ NewHistory(p = "history")
  /\ IF p = "docs" THEN \E doc \in Docs : NewDocs(<<doc>>, doc)
     ELSE NewDocs(<<>>, Quickstart)
  /\ UNCHANGED server

(* Connections come and go, join channels and leave them.                  *)
StatisticsChange ==
  /\ activity < MaxGrowth /\ activity' = activity + 1
  /\ UNCHANGED <<stored, page, call, overview, history, docs>>

(* An event is published to a channel.                                     *)
SaveChannelMessage(c) ==
  /\ stored[c] < MaxGrowth
  /\ stored' = [stored EXCEPT ![c] = @ + 1]
  /\ UNCHANGED <<activity, page, call, overview, history, docs>>

ServeApp(i) ==
  /\ Is(i, "app", "sent")
  /\ call' = [call EXCEPT ![i].pc = "ok"]
  /\ UNCHANGED <<server, page, overview, history, docs>>

ServeStats(i) ==
  /\ Is(i, "stats", "sent")
  /\ call' = [call EXCEPT ![i].pc = "ok", ![i].count = activity]
  /\ UNCHANGED <<server, page, overview, history, docs>>

(* The newest of the messages 1, ..., n: no more than the limit.           *)
Newest(n) == {m \in 1..n : n < m + HistoryLimit}

(* The channel's history is read when the call gets there.                 *)
ServeHistory(i) ==
  /\ Is(i, "history", "sent")
  /\ call' = [call EXCEPT ![i].pc = "ok", ![i].rows = Newest(stored[call[i].channel])]
  /\ UNCHANGED <<server, page, overview, history, docs>>

----------------------------------------------------------------------------
(* The overview.                                                           *)

(* The statistics are asked for whether the app came or not; without it    *)
(* the page is a spinner for good.                                         *)
AppEnds(i) ==
  /\ call[i].kind = "app"
  /\ \/ call[i].pc = "ok" /\ app' = TRUE
     \/ UNCHANGED app
  /\ call' = [call EXCEPT ![i] = Sent("stats", Nothing)]
  /\ UNCHANGED <<server, page, stats, copied, timers, history, docs>>

(* The interval of 5 s; it does not wait for the poll before.              *)
Poll(i) ==
  /\ page = "overview" /\ Free(i)
  /\ call' = [call EXCEPT ![i] = Sent("stats", Nothing)]
  /\ UNCHANGED <<server, page, overview, history, docs>>

(* Faulty: only the first statistics are shown.                            *)
StatsAnsweredOnce(i) ==
  /\ Is(i, "stats", "ok")
  /\ stats' = IF stats = Nothing THEN call[i].count ELSE stats
  /\ call' = [call EXCEPT ![i] = Unused]
  /\ UNCHANGED <<server, page, app, copied, timers, history, docs>>

(* The answer that comes last is shown, also if it is an older one.        *)
StatsAnswered(i) ==
  /\ Is(i, "stats", "ok")
  /\ stats' = call[i].count
  /\ call' = [call EXCEPT ![i] = Unused]
  /\ UNCHANGED <<server, page, app, copied, timers, history, docs>>

StatsFail(i) ==
  /\ call[i].kind = "stats"
  /\ call' = [call EXCEPT ![i] = Unused]
  /\ UNCHANGED <<server, page, overview, history, docs>>

(* The metrics on the page, zeros before the first have come.              *)
Metrics == IF stats = Nothing THEN 0 ELSE stats

(* Each credential on its card can be copied, and the snippet below it; the*)
(* spinner offers nothing.                                                 *)
CopyButtons ==
  IF page = "overview" /\ app THEN {"id", "cluster", "key", "sec", "snippet"} ELSE {}

Copy(item) ==
  /\ item \in CopyButtons /\ timers < MaxTimers
  /\ copied' = item /\ timers' = timers + 1
  /\ UNCHANGED <<server, page, call, app, stats, history, docs>>

(* Faulty: the timer compares with the mark of the render that set it.     *)
FadeStale ==
  /\ timers > 0 /\ timers' = timers - 1
  /\ UNCHANGED <<server, page, call, app, stats, copied, history, docs>>

(* The timer of 2 s clears the mark of a later copy, too.                  *)
Fade ==
  /\ timers > 0 /\ timers' = timers - 1
  /\ copied' = Nothing
  /\ UNCHANGED <<server, page, call, app, stats, history, docs>>

----------------------------------------------------------------------------
(* The history.                                                            *)

(* The name may be left blank.                                             *)
TypeChannel(c) ==
  /\ page = "history" /\ c # typed
  /\ typed' = c
  /\ UNCHANGED <<server, page, call, overview, messages, loading, asked, found,
                 docs>>

(* The button says so while a search is under way, and cannot be pressed.  *)
SearchButton == IF loading THEN "Searching..." ELSE "Fetch History"

(* Faulty: the button is not disabled while a search is under way.         *)
SearchAgain(i) ==
  /\ page = "history" /\ typed # Nothing /\ Free(i)
  /\ loading' = TRUE /\ found' = FALSE /\ asked' = <<typed, stored[typed]>>
  /\ call' = [call EXCEPT ![i] = Sent("history", typed)]
  /\ UNCHANGED <<server, page, overview, typed, messages, docs>>

(* A blank name is not searched for.                                       *)
Search(i) ==
  /\ page = "history" /\ SearchButton = "Fetch History" /\ typed # Nothing /\ Free(i)
  /\ loading' = TRUE /\ found' = FALSE /\ asked' = <<typed, stored[typed]>>
  /\ call' = [call EXCEPT ![i] = Sent("history", typed)]
  /\ UNCHANGED <<server, page, overview, typed, messages, docs>>

SearchEnds(i) == loading' = FALSE /\ call' = [call EXCEPT ![i] = Unused]

HistoryAnswered(i) ==
  /\ Is(i, "history", "ok")
  /\ messages' = <<call[i].channel, call[i].rows>> /\ found' = TRUE
  /\ SearchEnds(i)
  /\ UNCHANGED <<server, page, overview, typed, asked, docs>>

(* What was listed stays.                                                  *)
HistoryFails(i) ==
  /\ call[i].kind = "history"
  /\ SearchEnds(i)
  /\ UNCHANGED <<server, page, overview, typed, messages, asked, found, docs>>

(* The feed: its heading names what is typed, whosever messages it lists.  *)
Feed == [heading |-> typed, of |-> messages[1], rows |-> messages[2]]

----------------------------------------------------------------------------
(* The documentation.                                                      *)

Url == entries[at]

(* Faulty: the category stays.                                             *)
FollowArticle(doc, overtaken) ==
  IF doc # Url /\ doc \in Articles
  THEN /\ activeDocId' = doc /\ touched' = FALSE /\ abandoned' = FALSE
       /\ UNCHANGED activeCategory
  ELSE /\ abandoned' = (abandoned \/ overtaken)
       /\ UNCHANGED <<activeDocId, activeCategory, touched>>

(* The effect on the id in the URL: it runs only if that has changed, and  *)
(* does nothing for an id that is no article's.  Another navigation may    *)
(* have been overtaken.                                                    *)
Follow(doc, overtaken) ==
  IF doc # Url /\ doc \in Articles
  THEN /\ activeDocId' = doc /\ activeCategory' = CategoryOf[doc]
       /\ touched' = FALSE /\ abandoned' = FALSE
  ELSE /\ abandoned' = (abandoned \/ overtaken)
       /\ UNCHANGED <<activeDocId, activeCategory, touched>>

(* The sidebar lists the items of the active category, with an article or  *)
(* not; a search finds articles of any category.                           *)
SidebarItems == Sections[activeCategory]
SearchResults == Articles

(* Faulty: an article is shown without going to its URL.                   *)
SelectUnpushed(doc) ==
  /\ page = "docs" /\ at < MaxEntries /\ doc \in SidebarItems \cup SearchResults
  /\ activeDocId' = doc /\ abandoned' = FALSE
  /\ UNCHANGED <<server, page, call, overview, history, entries, at, pending,
                 activeCategory, touched>>

(* A search result or an item of the sidebar: it is shown at once, and the *)
(* router is asked to go to its URL.                                       *)
SelectDoc(doc) ==
  /\ page = "docs" /\ at < MaxEntries /\ doc \in SidebarItems \cup SearchResults
  /\ activeDocId' = doc /\ pending' = doc /\ abandoned' = FALSE
  /\ UNCHANGED <<server, page, call, overview, history, entries, at,
                 activeCategory, touched>>

(* The logo links to the documentation without an id.                      *)
LinkHome ==
  /\ page = "docs" /\ at < MaxEntries
  /\ pending' = Quickstart
  /\ abandoned' = (abandoned \/ pending # Nothing)
  /\ UNCHANGED <<server, page, call, overview, history, entries, at,
                 activeDocId, activeCategory, touched>>

(* The router gets there, which is no new entry if the URL is the same (the*)
(* link without an id is another URL for the same id) ...                  *)
Push ==
  /\ pending # Nothing
  /\ \/ entries' = Append(SubSeq(entries, 1, at), pending) /\ at' = at + 1
     \/ pending = Url /\ UNCHANGED <<entries, at>>
  /\ Follow(pending, FALSE)
  /\ pending' = Nothing
  /\ UNCHANGED <<server, page, call, overview, history>>

(* ... unless the browser's back or forward comes before.                  *)
Traverse(place) ==
  /\ page = "docs" /\ place \in DOMAIN entries \ {at}
  /\ at' = place /\ pending' = Nothing
  /\ Follow(entries[place], pending # Nothing)
  /\ UNCHANGED <<server, page, call, overview, history, entries>>

ChooseCategory(category) ==
  /\ page = "docs" /\ category # activeCategory
  /\ activeCategory' = category /\ touched' = TRUE
  /\ UNCHANGED <<server, page, call, overview, history, entries, at, pending,
                 activeDocId, abandoned>>

----------------------------------------------------------------------------
Server ==
  \/ StatisticsChange
  \/ \E c \in Channels : SaveChannelMessage(c)
  \/ \E i \in Calls : ServeApp(i) \/ ServeStats(i) \/ ServeHistory(i)

Overview ==
  \/ \E i \in Calls : Poll(i) \/ AppEnds(i) \/ StatsAnswered(i) \/ StatsFail(i)
  \/ Fade \/ \E item \in CopyButtons : Copy(item)

History ==
  \/ \E c \in Channels \cup {Nothing} : TypeChannel(c)
  \/ \E i \in Calls : Search(i) \/ HistoryAnswered(i) \/ HistoryFails(i)

Documentation ==
  \/ \E category \in Categories : ChooseCategory(category)
  \/ \E doc \in Docs : SelectDoc(doc)
  \/ LinkHome \/ Push \/ \E place \in 1..MaxEntries : Traverse(place)

Next ==
  \/ \E p \in PageNames : Open(p)
  \/ Server \/ Overview \/ History \/ Documentation

Spec == Init /\ [][Next]_vars

----------------------------------------------------------------------------
(* [id]/page.tsx:28-59: polls may overlap and be answered out of order, but*)
(* a page that stays open and keeps being answered comes to show what the  *)
(* server counts, once that changes no more.                               *)
StatsCatchUp ==
  (/\ <>[](page = "overview")
   /\ []<><<\E i \in Calls : StatsAnswered(i)>>_vars)
    => <>[](Metrics = activity)

(* [id]/page.tsx:61-65: "Copied" does not stay: however the copies overlap,*)
(* a timer that clears it is under way.                                    *)
CopiedFades == copied # Nothing => timers > 0

(* history/page.tsx:25-46, 74-93: the button is disabled exactly while a   *)
(* search is under way, and after one that was answered, the feed lists    *)
(* messages of the channel searched for; one that was stored when it began *)
(* is missing only if there are as many newer ones as the limit allows.    *)
(* No answer to an earlier search replaces them.                           *)
SearchShowsWhatItFound ==
  /\ SearchButton = "Searching..." <=> \E i \in Calls : call[i].kind = "history"
  /\ SearchButton = "Fetch History" /\ found =>
       /\ Feed.of = asked[1]
       /\ \A m \in 1..asked[2] : m \in Feed.rows
            \/ \E n \in Feed.rows : m < n /\ n..(n + HistoryLimit - 1) \subseteq Feed.rows

AtArticle ==
  page = "docs" /\ pending = Nothing /\ ~abandoned /\ Url \in Articles

(* docs/page.tsx:26-51: at rest, an article's URL shows that article, also *)
(* after going back and forth between articles and ids that have none,     *)
(* unless a selection was overtaken by another navigation.                 *)
UrlShowsItsArticle == AtArticle => activeDocId = Url

(* docs/page.tsx:28-38, 200: at rest, the sidebar lists the category of the*)
(* article shown, unless the user chose another since it was first shown.  *)
SidebarListsTheArticle ==
  AtArticle /\ ~touched => activeCategory = CategoryOf[activeDocId]
=============================================================================
