---------------------------- MODULE DebugConsole ----------------------------
(***************************************************************************)
(* The live debug console of the dashboard                                 *)
(* (dashboard/src/app/dashboard/apps/[id]/debug/page.tsx): a React page    *)
(* that loads the app and its message history over REST, opens a           *)
(* WebSocket, subscribes to "*" and to the channels the user has joined,   *)
(* lists what arrives, and publishes test events over REST.                *)
(*                                                                         *)
(* The browser runs one handler at a time; an action is one handler, with  *)
(* the render and the storage effects it causes.  What is asynchronous is  *)
(* a step of its own: answers of the REST API, the socket's events, the    *)
(* server's work on what the page sent, and the effect that copies         *)
(* activeChannels into activeChannelsRef after a WebSocket message (after  *)
(* a click React runs it before the next event).                           *)
(*                                                                         *)
(* The events are numbered in the order in which their publication began;  *)
(* several may be published at once, and the server sends each of them to  *)
(* one socket after the other.  The connection's own events, which the page*)
(* tells by their prefix (pusher:, pusher_internal:, connection:), are one *)
(* value, Sys.                                                             *)
(***************************************************************************)
EXTENDS Naturals, Sequences, SequencesExt

CONSTANTS
  Channels,     \* public channels a user joins or somebody publishes to
  Wildcard,     \* "*", whose subscribers get every event of the app
  Default,      \* "my-channel"
  ChannelOf,    \* ChannelOf[n]: the channel of the n-th event
  KeyOf,        \* KeyOf[n]: its channel, name and data, which may repeat
  Unsaved,      \* the events that could not be saved
  MaxEvents,    \* bound: events published
  MaxSockets,   \* bound: connections the page opens
  MaxMounts,    \* bound: times the page is opened
  MaxClicks,    \* bound: joins, leaves, clears and test events
  LogLimit      \* 100: what the stream keeps, and an answer has of the history

ASSUME ConsoleAssumption ==
  /\ Wildcard \notin Channels /\ Default \in Channels
  /\ MaxEvents \in Nat /\ MaxSockets \in Nat /\ MaxMounts \in Nat
  /\ MaxClicks \in Nat /\ LogLimit \in Nat \ {0}
  /\ ChannelOf \in [1..MaxEvents -> Channels]
  /\ DOMAIN KeyOf = 1..MaxEvents /\ Unsaved \subseteq 1..MaxEvents

VARIABLES
  mounted,    \* the page is on the screen
  app,        \* its app state is set
  appCall,    \* GET /api/apps/{id}: "none" or "sent"
  status,     \* "disconnected", "connecting", "connected"
  wsRef,      \* wsRef.current; 0 is null
  sock,       \* state of each socket; "dying": closed by the other side
  up, down,   \* what is under way on it, to and from the server
  subs,       \* the server's subscriptions of each socket
  active,     \* activeChannels
  ref,        \* activeChannelsRef.current and localStorage aps_channels
  logs,       \* the stream, newest first
  cache,      \* aps_debug_logs in localStorage and sessionStorage
  histCall,   \* GET history: "none", "sent", or "read" by the server
  snap,       \* the events that answer holds, newest first
  sending,    \* POST events: "none", "sent", "accepted", "refused"
  mine,       \* the event that POST became
  pubs,       \* events whose publication has begun
  stored,     \* the history: those that could be saved
  copied,     \* those whose recipients have been looked up
  rcpts,      \* the recipients of each that it is still to be sent to
  before,     \* ghost: what had been sent to all when each of them began
  joined,     \* ghost: channels joined, or stored at mount, and not left
  mounts, clicks

server == <<sock, up, down, subs>>
page   == <<mounted, app, appCall, status, wsRef>>
lists  == <<active, ref, joined>>
stream == <<logs, cache>>
calls  == <<histCall, snap, sending, mine>>
casts  == <<pubs, stored, copied, rcpts, before>>
vars == <<mounted, app, appCall, status, wsRef, sock, up, down, subs, active,
          ref, logs, cache, histCall, snap, sending, mine, pubs, stored, copied,
          rcpts, before, joined, mounts, clicks>>

Events  == 1..MaxEvents
Sockets == 1..MaxSockets
Live(s) == sock[s] \in {"connecting", "open", "dying"}

Sys == <<"sys">>

Subscribe(ch)   == <<"subscribe", ch>>
Unsubscribe(ch) == <<"unsubscribe", ch>>
Established     == <<"established">>
Succeeded(ch)   == <<"succeeded", ch>>
Event(n)        == <<"event", n>>

Init ==
  /\ mounted = FALSE /\ app = FALSE /\ appCall = "none"
  /\ status = "disconnected" /\ wsRef = 0
  /\ sock = [s \in Sockets |-> "none"]
  /\ up = [s \in Sockets |-> <<>>] /\ down = [s \in Sockets |-> <<>>]
  /\ subs = [s \in Sockets |-> {}]
  /\ active = {} /\ ref = {} /\ joined = {}
  /\ logs = <<>> /\ cache = <<>>
  /\ histCall = "none" /\ snap = <<>> /\ sending = "none" /\ mine = 0
  /\ pubs = 0 /\ stored = <<>> /\ copied = {}
  /\ rcpts = [n \in Events |-> {}] /\ before = [n \in Events |-> {}]
  /\ mounts = 0 /\ clicks = 0

----------------------------------------------------------------------------
(* The stream.                                                             *)

(* What filter leaves of a list: the entries that are not in out, in their *)
(* order.  (As SelectSeq has it, but without its recursion: the proofs are *)
(* about this operator.)                                                   *)
Without(seq, out) ==
  LET kept     == {i \in DOMAIN seq : seq[i] \notin out}
      place(i) == Cardinality({j \in kept : j <= i})
  IN [k \in 1..Cardinality(kept) |-> seq[CHOOSE i \in kept : place(i) = k]]

SystemEvents == {Sys}
Take(seq) == SubSeq(seq, 1, IF Len(seq) < LogLimit THEN Len(seq) ELSE LogLimit)

(* setLogs, and the effect that stores the application events of a list    *)
(* that is not empty.                                                      *)
SetLogs(new) ==
  /\ logs' = new
  /\ cache' = IF new = <<>> THEN cache ELSE Without(new, SystemEvents)

(* Faulty: a new entry goes to the end of the list.                        *)
AddLogsBelow(entries) == SetLogs(Take(logs \o entries))

(* addLog, once for each entry, the last one on top.                       *)
AddLogs(entries) == SetLogs(Take(Reverse(entries) \o logs))

Keys(seq) == {KeyOf[e[2]] : e \in {seq[i] : i \in DOMAIN seq} \ SystemEvents}

----------------------------------------------------------------------------
(* Opening and leaving the page.                                           *)

(* The channels come from localStorage unless none are stored there, the   *)
(* stream from its cache; the app and the history are asked for.           *)
Mount ==
  /\ ~mounted /\ mounts < MaxMounts
  /\ mounted' = TRUE /\ mounts' = mounts + 1
  /\ active' = IF ref = {} THEN {Default} ELSE ref
  /\ ref' = active' /\ joined' = active'
  /\ SetLogs(cache)
  /\ app' = FALSE /\ appCall' = "sent" /\ histCall' = "sent"
  /\ UNCHANGED <<status, wsRef, server, snap, sending, mine, casts, clicks>>

(* The cleanup closes the socket wsRef points to; answers still under way  *)
(* find no page.                                                           *)
Leave ==
  /\ mounted
  /\ mounted' = FALSE /\ app' = FALSE
  /\ appCall' = "none" /\ histCall' = "none" /\ snap' = <<>>
  /\ sending' = "none" /\ mine' = 0
  /\ status' = "disconnected" /\ wsRef' = 0
  /\ LET Shut(f, v) == IF wsRef = 0 THEN f ELSE [f EXCEPT ![wsRef] = v]
     IN /\ sock' = Shut(sock, "closed")
        /\ up' = Shut(up, <<>>) /\ down' = Shut(down, <<>>)
        /\ subs' = Shut(subs, {})
  /\ UNCHANGED <<lists, stream, casts, mounts, clicks>>

----------------------------------------------------------------------------
(* The connection.                                                         *)

(* Faulty: the ref keeps the first socket.                                 *)
ConnectKeepingRef ==
  \E s \in Sockets :
    /\ sock[s] = "none" /\ \A r \in 1..(s - 1) : sock[r] # "none"
    /\ sock' = [sock EXCEPT ![s] = "connecting"]
    /\ wsRef' = IF wsRef = 0 THEN s ELSE wsRef
    /\ status' = "connecting"
    /\ UNCHANGED <<up, down, subs>>

(* connectWebSocket.                                                       *)
Connect ==
  \E s \in Sockets :
    /\ sock[s] = "none" /\ \A r \in 1..(s - 1) : sock[r] # "none"
    /\ sock' = [sock EXCEPT ![s] = "connecting"]
    /\ wsRef' = s
    /\ status' = "connecting"
    /\ UNCHANGED <<up, down, subs>>

(* The app is set, and the effect on it connects.                          *)
AppArrives ==
  /\ appCall = "sent"
  /\ appCall' = "none" /\ app' = TRUE
  /\ Connect
  /\ UNCHANGED <<mounted, lists, stream, calls, casts, mounts, clicks>>

(* No app in the answer: the page never connects.                          *)
AppFails ==
  /\ appCall = "sent"
  /\ appCall' = "none"
  /\ UNCHANGED <<mounted, app, status, wsRef, server, lists, stream, calls,
                 casts, mounts, clicks>>

(* The status line: the socket, a spinner while connecting, or the button. *)
ReconnectButton == mounted /\ status = "disconnected"

Reconnect ==
  /\ ReconnectButton /\ app
  /\ Connect
  /\ UNCHANGED <<mounted, app, appCall, lists, stream, calls, casts, mounts,
                 clicks>>

(* onopen; the server registers the socket and greets it.                  *)
Open(s) ==
  /\ sock[s] = "connecting"
  /\ sock' = [sock EXCEPT ![s] = "open"]
  /\ down' = [down EXCEPT ![s] = <<Established>>]
  /\ AddLogs(<<Sys>>)
  /\ UNCHANGED <<page, up, subs, lists, calls, casts, mounts, clicks>>

(* The connection is refused, breaks, or is closed by the server, which    *)
(* gives up a client it has not heard of for the activity timeout.  Part   *)
(* of what was under way to the page still arrives.                        *)
Drop(s) ==
  /\ sock[s] \in {"connecting", "open"}
  /\ sock' = [sock EXCEPT ![s] = "dying"]
  /\ \E k \in 0..Len(down[s]) : down' = [down EXCEPT ![s] = SubSeq(@, 1, k)]
  /\ up' = [up EXCEPT ![s] = <<>>] /\ subs' = [subs EXCEPT ![s] = {}]
  /\ UNCHANGED <<page, lists, stream, calls, casts, mounts, clicks>>

(* Faulty: only a connection that was established is shown as lost.        *)
OnCloseOfConnected(s) ==
  /\ sock[s] = "dying" /\ down[s] = <<>>
  /\ sock' = [sock EXCEPT ![s] = "closed"]
  /\ status' = IF status = "connected" THEN "disconnected" ELSE status
  /\ AddLogs(<<Sys>>)
  /\ UNCHANGED <<mounted, app, appCall, wsRef, up, down, subs, lists, calls,
                 casts, mounts, clicks>>

(* onclose, possibly after onerror.                                        *)
OnClose(s) ==
  /\ sock[s] = "dying" /\ down[s] = <<>>
  /\ sock' = [sock EXCEPT ![s] = "closed"]
  /\ status' = "disconnected"
  /\ \E failed \in BOOLEAN :
       AddLogs(IF failed THEN <<Sys, Sys>> ELSE <<Sys>>)
  /\ UNCHANGED <<mounted, app, appCall, wsRef, up, down, subs, lists, calls,
                 casts, mounts, clicks>>

(* What subscribeToChannel and handleUnsubscribe send on an open socket;   *)
(* on a dying one it is lost.                                              *)
Send(s, msgs) ==
  up' = IF sock[s] = "open" THEN [up EXCEPT ![s] = @ \o msgs] ELSE up

ReadyState(s) == s # 0 /\ sock[s] \in {"open", "dying"}

(* connection_established: subscribe to "*" and to every channel in the    *)
(* ref; all but "*" leave an entry.                                        *)
OnEstablished(s) ==
  LET chans == SetToSeq(ref)
      msgs  == [i \in DOMAIN chans |-> Subscribe(chans[i])]
  IN /\ status' = "connected"
     /\ Send(s, <<Subscribe(Wildcard)>> \o msgs)
     /\ AddLogs(<<Sys>> \o [i \in DOMAIN chans |-> Sys])
     /\ UNCHANGED lists

(* A channel the ref does not hold is added to the list.                   *)
Track(ch) ==
  /\ active' = IF ch \in ref THEN active ELSE active \cup {ch}
  /\ UNCHANGED <<ref, joined, status, up>>

OnSucceeded(ch) ==
  IF ch = Wildcard THEN UNCHANGED <<lists, stream, status, up>>
                   ELSE Track(ch) /\ AddLogs(<<Sys>>)

OnEvent(n) == Track(ChannelOf[n]) /\ AddLogs(<< <<"in", n>> >>)

(* onmessage.                                                              *)
OnMessage(s) ==
  /\ sock[s] \in {"open", "dying"} /\ down[s] # <<>>
  /\ LET m == Head(down[s])
     IN \/ m[1] = "established" /\ OnEstablished(s)
        \/ m[1] = "succeeded" /\ OnSucceeded(m[2])
        \/ m[1] = "event" /\ OnEvent(m[2])
  /\ down' = [down EXCEPT ![s] = Tail(@)]
  /\ UNCHANGED <<mounted, app, appCall, wsRef, sock, subs, calls, casts,
                 mounts, clicks>>

(* The effect on activeChannels.                                           *)
ChannelsEffect ==
  /\ mounted /\ ref # active
  /\ ref' = active
  /\ UNCHANGED <<page, server, active, joined, stream, calls, casts, mounts,
                 clicks>>

----------------------------------------------------------------------------
(* The forms.                                                              *)

Click == mounted /\ clicks < MaxClicks /\ clicks' = clicks + 1

(* Faulty: a channel already listed is not subscribed to.                  *)
JoinOnlyNew(ch) ==
  /\ Click
  /\ active' = active \cup {ch} /\ ref' = active'
  /\ joined' = joined \cup {ch}
  /\ IF ReadyState(wsRef) /\ ch \notin active
     THEN Send(wsRef, <<Subscribe(ch)>>) /\ AddLogs(<<Sys>>)
     ELSE UNCHANGED <<up, stream>>
  /\ UNCHANGED <<page, sock, down, subs, calls, casts, mounts>>

(* The subscribe panel; the same for a channel already listed.             *)
Join(ch) ==
  /\ Click
  /\ active' = active \cup {ch} /\ ref' = active'
  /\ joined' = joined \cup {ch}
  /\ IF ReadyState(wsRef)
     THEN Send(wsRef, <<Subscribe(ch)>>) /\ AddLogs(<<Sys>>)
     ELSE UNCHANGED <<up, stream>>
  /\ UNCHANGED <<page, sock, down, subs, calls, casts, mounts>>

(* The panel of the page shown: a cross for each of the channels.          *)
Crosses == active

(* Faulty: the channel leaves the list only.                               *)
LeaveUnsent(ch) ==
  /\ Click /\ ch \in Crosses
  /\ active' = active \ {ch} /\ ref' = active' /\ joined' = joined \ {ch}
  /\ UNCHANGED <<page, server, stream, calls, casts, mounts>>

LeaveChannel(ch) ==
  /\ Click /\ ch \in Crosses
  /\ active' = active \ {ch} /\ ref' = active' /\ joined' = joined \ {ch}
  /\ IF ReadyState(wsRef)
     THEN Send(wsRef, <<Unsubscribe(ch)>>) /\ AddLogs(<<Sys>>)
     ELSE UNCHANGED <<up, stream>>
  /\ UNCHANGED <<page, sock, down, subs, calls, casts, mounts>>

ClearLogs ==
  /\ Click
  /\ logs' = <<>> /\ cache' = <<>>
  /\ UNCHANGED <<page, server, lists, calls, casts, mounts>>

(* The button says so while an event is being sent, and cannot be pressed. *)
TriggerForm == IF sending = "none" THEN "Trigger Event" ELSE "Emitting..."

Trigger ==
  /\ Click /\ TriggerForm = "Trigger Event"
  /\ sending' = "sent"
  /\ UNCHANGED <<page, server, lists, stream, histCall, snap, mine, casts,
                 mounts>>

(* res.ok adds an entry; a refusal and a lost answer add none.             *)
TriggerAnswered ==
  /\ sending \in {"accepted", "refused"}
  /\ sending' = "none" /\ mine' = 0
  /\ \/ sending = "accepted" /\ AddLogs(<< <<"out", mine>> >>)
     \/ UNCHANGED stream
  /\ UNCHANGED <<page, server, lists, histCall, snap, casts, mounts, clicks>>

(* The answer to the history request: what is not yet in the list, by      *)
(* channel, event and data, goes on top of it, newest first.               *)
HistoryArrives ==
  /\ histCall = "read"
  /\ histCall' = "none" /\ snap' = <<>>
  /\ LET initial == [i \in DOMAIN snap |-> <<"hist", snap[i]>>]
         known   == {e \in ToSet(initial) : KeyOf[e[2]] \in Keys(logs)}
         fresh   == Without(initial, known)
     IN SetLogs(Take(fresh \o logs))
  /\ UNCHANGED <<page, server, lists, sending, mine, casts, mounts, clicks>>

HistoryFails ==
  /\ histCall \in {"sent", "read"}
  /\ histCall' = "none" /\ snap' = <<>>
  /\ UNCHANGED <<page, server, lists, stream, sending, mine, casts, mounts,
                 clicks>>

----------------------------------------------------------------------------
(* The server.                                                             *)

ServerReads(s) ==
  /\ sock[s] = "open" /\ up[s] # <<>>
  /\ LET m == Head(up[s]) IN
       IF m[1] = "subscribe"
       THEN /\ subs' = [subs EXCEPT ![s] = @ \cup {m[2]}]
            /\ down' = [down EXCEPT ![s] = Append(@, Succeeded(m[2]))]
       ELSE subs' = [subs EXCEPT ![s] = @ \ {m[2]}] /\ UNCHANGED down
  /\ up' = [up EXCEPT ![s] = Tail(@)]
  /\ UNCHANGED <<page, sock, lists, stream, calls, casts, mounts, clicks>>

SentToAll == {n \in copied : rcpts[n] = {}}

(* A publication begins: the event is saved, and if that fails it goes on  *)
(* all the same.                                                           *)
Save ==
  /\ pubs < MaxEvents
  /\ pubs' = pubs + 1
  /\ stored' = IF pubs' \in Unsaved THEN stored ELSE Append(stored, pubs')
  /\ before' = [before EXCEPT ![pubs'] = SentToAll]
  /\ UNCHANGED <<copied, rcpts>>

OthersPublish ==
  /\ Save
  /\ UNCHANGED <<page, server, lists, stream, calls, mounts, clicks>>

(* The sockets subscribed to the channel or to "*", each of them once: by  *)
(* whoever publishes, or by the relay of what another node published.      *)
CopyRecipients(n) ==
  /\ n \in 1..pubs \ copied
  /\ copied' = copied \cup {n}
  /\ rcpts' = [rcpts EXCEPT ![n] =
       {s \in Sockets : {ChannelOf[n], Wildcard} \cap subs[s] # {}}]
  /\ UNCHANGED <<page, server, lists, stream, calls, pubs, stored, before,
                 mounts, clicks>>

(* It goes behind what is under way to the socket, unless its connection is*)
(* over or its queue full.                                                 *)
SendEvent(n, s) ==
  /\ s \in rcpts[n]
  /\ rcpts' = [rcpts EXCEPT ![n] = @ \ {s}]
  /\ \/ sock[s] = "open" /\ down' = [down EXCEPT ![s] = Append(@, Event(n))]
     \/ UNCHANGED down
  /\ UNCHANGED <<page, sock, up, subs, lists, stream, calls, pubs, stored,
                 copied, before, mounts, clicks>>

Broadcast(n) == CopyRecipients(n) \/ \E s \in Sockets : SendEvent(n, s)

(* The node that gets the POST need not be the one of the page: it may     *)
(* answer before the event is sent here.                                   *)
TriggerServed ==
  /\ sending = "sent"
  /\ \/ Save /\ sending' = "accepted" /\ mine' = pubs'
     \/ sending' = "refused" /\ UNCHANGED <<mine, casts>>
  /\ UNCHANGED <<page, server, lists, stream, histCall, snap, mounts, clicks>>

HistoryRead ==
  /\ histCall = "sent"
  /\ histCall' = "read" /\ snap' = Take(Reverse(stored))
  /\ UNCHANGED <<page, server, lists, stream, sending, mine, casts, mounts,
                 clicks>>

----------------------------------------------------------------------------
User ==
  \/ Mount \/ Leave \/ Reconnect \/ ClearLogs \/ Trigger
  \/ \E ch \in Channels : Join(ch) \/ LeaveChannel(ch)

Answer == \/ AppArrives \/ AppFails \/ HistoryRead \/ HistoryArrives
          \/ HistoryFails \/ TriggerServed \/ TriggerAnswered

Network(s) == Open(s) \/ Drop(s) \/ OnClose(s) \/ OnMessage(s)

Next ==
  \/ User \/ Answer \/ ChannelsEffect \/ OthersPublish
  \/ \E n \in Events : Broadcast(n)
  \/ \E s \in Sockets : Network(s) \/ ServerReads(s)

Spec == Init /\ [][Next]_vars

(* A handshake ends one way or the other, and the browser delivers what    *)
(* has arrived.  Nothing is asked of the user, the API or other clients.   *)
FairSpec ==
  /\ Spec
  /\ \A s \in Sockets : WF_vars(Network(s)) /\ WF_vars(OnClose(s))

----------------------------------------------------------------------------
Quiet(s) ==
  /\ mounted /\ wsRef = s /\ sock[s] = "open" /\ status = "connected"
  /\ up[s] = <<>> /\ down[s] = <<>> /\ ref = active

(* page.tsx:203-207, 244-282: once everything sent has been served, the    *)
(* server has the page subscribed to "*" and to every channel the user     *)
(* joined and did not leave, whenever that happened: before the socket     *)
(* was open, before it was greeted, on an earlier connection or in an      *)
(* earlier visit.                                                          *)
JoinedIsSubscribed ==
  \A s \in Sockets : Quiet(s) => joined \cup {Wildcard} \subseteq subs[s]

(* page.tsx:220-226, 271-282: and it has it subscribed to nothing the      *)
(* panel does not list, where it could be left.                            *)
SubscribedIsListed ==
  \A s \in Sockets : Quiet(s) => subs[s] \subseteq active \cup {Wildcard}

(* page.tsx:156-178, 234-237, 343-360: whatever the order of reconnects,   *)
(* late closes and leaving the page: a socket that is not closed belongs   *)
(* to the page on the screen, is the one the page sends on, and is not     *)
(* shown as disconnected, so that the page never opens a second one.       *)
SocketsFollowPage ==
  \A s \in Sockets :
    Live(s) => mounted /\ wsRef = s /\ status # "disconnected"

(* page.tsx:63, 143-151, 198-228, 292-294, hub.go:355-423: over all        *)
(* connections and visits, and however the publications overlap, nothing is*)
(* listed twice by the same route (not a live event, whatever it was       *)
(* subscribed through and however often, not the history, however often    *)
(* the page is opened), and no event that had been sent to everybody when  *)
(* another was begun is ever above it among those that arrived live.  (Of  *)
(* two published at once either may be on top, and what the history brings *)
(* late goes above all.)                                                   *)
StreamInOrder ==
  \A i, j \in DOMAIN logs : i < j /\ logs[i] # Sys =>
    /\ logs[i] # logs[j]
    /\ logs[i][1] = "in" /\ logs[j][1] = "in" =>
         logs[i][2] \notin before[logs[j][2]]

(* page.tsx:172, 199, 235, 349-360: "connecting..." has no button beside   *)
(* it; it never stays.                                                     *)
ConnectingEnds == status = "connecting" ~> status # "connecting"
=============================================================================
