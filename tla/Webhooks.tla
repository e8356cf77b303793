------------------------------ MODULE Webhooks ------------------------------
(***************************************************************************)
(* Webhooks from end to end: the page of the dashboard that manages them   *)
(* (dashboard/src/app/dashboard/apps/[id]/webhooks/page.tsx), the store    *)
(* it edits over REST, and the dispatcher (internal/webhook/dispatcher.go) *)
(* that calls the hooks of the store.                                      *)
(*                                                                         *)
(* Nothing on the page waits for a call to end: every click starts one     *)
(* more, and each is sent, served and answered in steps of its own.  An    *)
(* answer may be lost after the server did its work.  Every notification   *)
(* is a goroutine that reads the hooks and calls them one after the other, *)
(* with one deadline for everything it does: time is counted in units, and *)
(* each call and each use of the store takes any number of them within its *)
(* limit.  A POST and the record of it are one step, which nobody else     *)
(* sees from the inside.                                                   *)
(***************************************************************************)
EXTENDS Naturals, FiniteSets

CONSTANTS
  EventNames,   \* the events a hook can select
  MaxHooks,     \* bound: hooks ever created
  MaxCalls,     \* bound: calls the page starts, each in a slot of its own
  MaxToggles,   \* bound: clicks on the checkboxes
  MaxNotes,     \* bound: notifications
  Timeout,      \* units one POST may take: 5 s in the code
  Deadline      \* units a notification may take: 15 s in the code

ASSUME WebhooksAssumption ==
  /\ MaxHooks \in Nat /\ MaxCalls \in Nat /\ MaxToggles \in Nat
  /\ MaxNotes \in Nat /\ Timeout \in Nat /\ Deadline \in Nat \ {0}

Hooks == 1..MaxHooks
Calls == 1..MaxCalls
Notes == 1..MaxNotes

VARIABLES
  hooks,      \* the store: hooks that exist
  want,       \* events of each hook; {} also before it is created
  created,    \* hooks created so far
  records,    \* the store's delivery log: notification and hook
  list,       \* webhooks on the page
  modal,      \* showAddModal
  selected,   \* selectedEvents
  toggles,    \* checkbox clicks
  call,       \* the page's calls
  pc,         \* a notification: "none", "asked", "calling", "done"
  event,      \* its event
  todo,       \* hooks it has read and not yet come to
  spent,      \* units of its deadline that are gone
  read,       \* ghost: the hooks it read
  called,     \* ghost: the hooks it called before the deadline was up
  held,       \* ghost: what of the time spent went to the store
  refused,    \* ghost: notification and hook whose record was not saved
  exact       \* ghost: nothing that confuses the list since it was read alone

store == <<hooks, want, created>>
view  == <<list, modal, selected, toggles>>
notes == <<pc, event, todo, spent, read, called, held, refused>>
vars == <<hooks, want, created, records, list, modal, selected,
          toggles, call, pc, event, todo, spent, read, called, held,
          refused, exact>>

(* A call: what it is, how far it got ("free", "sent", "ok", "failed",     *)
(* "ended"), the hook it is about, the events of a new one, rows of the    *)
(* list (those it read, or those on the page when it was started), and      *)
(* whether no other call was ever under way beside it.                     *)
Unused == [kind |-> "none", pc |-> "free", hook |-> 0, events |-> {},
           rows |-> {}, alone |-> FALSE]

InFlight(i) == call[i].pc \in {"sent", "ok", "failed"}
Quiet == \A i \in Calls : ~InFlight(i)

(* A call starts in the next slot.  If it is not alone, neither are those  *)
(* under way.                                                              *)
Start(record) ==
  \E i \in Calls :
    /\ call[i].pc = "free" /\ \A j \in 1..(i - 1) : call[j].pc # "free"
    /\ call' = [j \in Calls |->
         IF j = i THEN [record EXCEPT !.alone = Quiet]
                  ELSE [call[j] EXCEPT !.alone = FALSE]]

End(i) == call' = [call EXCEPT ![i] = [Unused EXCEPT !.pc = "ended"]]

Loading == [Unused EXCEPT !.kind = "load", !.pc = "sent"]

(* The page is opened, and loads.  Its loading flag is left out: nothing   *)
(* on the page looks at it.                                                *)
Init ==
  /\ hooks = {} /\ want = [h \in Hooks |-> {}] /\ created = 0
  /\ records = {}
  /\ list = {} /\ modal = FALSE
  /\ selected = EventNames /\ toggles = 0
  /\ call = [i \in Calls |->
       IF i = 1 THEN [Loading EXCEPT !.alone = TRUE] ELSE Unused]
  /\ pc = [n \in Notes |-> "none"]
  /\ event \in [Notes -> EventNames]
  /\ todo = [n \in Notes |-> {}] /\ read = [n \in Notes |-> {}]
  /\ spent = [n \in Notes |-> 0] /\ held = [n \in Notes |-> 0]
  /\ called = [n \in Notes |-> {}] /\ refused = {}
  /\ exact = FALSE

----------------------------------------------------------------------------
(* Loading.                                                                *)

(* The refresh button.                                                     *)
Refresh ==
  /\ Start(Loading)
  /\ UNCHANGED <<store, records, view, notes, exact>>

(* Of the two requests of Promise.all, this is the one for the hooks.  The *)
(* delivery log is left out: no property is about the page's copy of it.   *)
ServeLoad(i) ==
  /\ call[i].kind = "load" /\ call[i].pc = "sent"
  /\ call' = [call EXCEPT ![i].pc = "ok", ![i].rows = hooks]
  /\ UNCHANGED <<store, records, view, notes, exact>>

(* The answer is used if it is ok.                                         *)
LoadAnswered(i) ==
  /\ call[i].kind = "load" /\ call[i].pc = "ok"
  /\ \/ list' = call[i].rows /\ exact' = call[i].alone
     \/ exact' = FALSE /\ UNCHANGED list
  /\ End(i)
  /\ UNCHANGED <<store, records, modal, selected, toggles, notes>>

LoadLost(i) ==
  /\ call[i].kind = "load" /\ InFlight(i)
  /\ exact' = FALSE
  /\ End(i)
  /\ UNCHANGED <<store, records, list, modal, selected, toggles, notes>>

----------------------------------------------------------------------------
(* Adding a hook.                                                          *)

(* The boxes of the modal, nine in three groups in the code; each is       *)
(* ticked while its event is selected.                                     *)
Boxes == IF modal THEN EventNames ELSE {}
Ticked(e) == e \in selected

OpenModal ==
  /\ ~modal /\ modal' = TRUE
  /\ UNCHANGED <<store, records, list, selected, toggles, call,
                 notes, exact>>

CancelModal ==
  /\ modal /\ modal' = FALSE
  /\ UNCHANGED <<store, records, list, selected, toggles, call,
                 notes, exact>>

(* The checkboxes; what is selected stays so for the next hook.            *)
Toggle(e) ==
  /\ e \in Boxes /\ toggles < MaxToggles /\ toggles' = toggles + 1
  /\ selected' = IF Ticked(e) THEN selected \ {e} ELSE selected \cup {e}
  /\ UNCHANGED <<store, records, list, modal, call, notes,
                 exact>>

(* Save Webhook, with a URL; nothing keeps the user from a second click.   *)
Create ==
  /\ modal
  /\ Start([Unused EXCEPT !.kind = "create", !.pc = "sent",
                          !.events = selected])
  /\ UNCHANGED <<store, records, view, notes, exact>>

ServeCreate(i) ==
  /\ call[i].kind = "create" /\ call[i].pc = "sent"
  /\ \/ /\ created < MaxHooks
        /\ created' = created + 1 /\ hooks' = hooks \cup {created'}
        /\ want' = [want EXCEPT ![created'] = call[i].events]
        /\ call' = [call EXCEPT ![i].pc = "ok"]
     \/ call' = [call EXCEPT ![i].pc = "failed"] /\ UNCHANGED store
  /\ UNCHANGED <<records, view, notes, exact>>

(* Faulty: the list is not loaded again.                                   *)
CreateNotReloading(i) ==
  /\ call[i].kind = "create" /\ call[i].pc \in {"ok", "failed"}
  /\ modal' = (modal /\ call[i].pc = "failed")
  /\ End(i)
  /\ UNCHANGED <<store, records, list, selected, toggles,
                 notes, exact>>

(* res.ok closes the modal and loads again; otherwise nothing happens.     *)
CreateAnswered(i) ==
  /\ call[i].kind = "create"
  /\ \/ /\ call[i].pc = "ok"
        /\ modal' = FALSE
        /\ call' = [call EXCEPT ![i] = [Loading EXCEPT !.alone = call[i].alone]]
     \/ call[i].pc = "failed" /\ End(i) /\ UNCHANGED modal
  /\ UNCHANGED <<store, records, list, selected, toggles,
                 notes, exact>>

CreateLost(i) ==
  /\ call[i].kind = "create" /\ InFlight(i)
  /\ exact' = FALSE
  /\ End(i)
  /\ UNCHANGED <<store, records, view, notes>>

----------------------------------------------------------------------------
(* Deleting a hook.                                                        *)

(* A row with its bin for every hook the page has; if it has none, whether *)
(* there are none or they are loading, a notice that none are configured.  *)
Bins == list

(* The bin beside a row: the handler keeps the rows of its render.         *)
Delete(h) ==
  /\ h \in Bins
  /\ Start([Unused EXCEPT !.kind = "delete", !.pc = "sent", !.hook = h,
                          !.rows = list])
  /\ UNCHANGED <<store, records, view, notes, exact>>

(* 204, also for a hook that is gone already; a call that is refused, for  *)
(* an expired session, deletes nothing.                                    *)
ServeDelete(i) ==
  /\ call[i].kind = "delete" /\ call[i].pc = "sent"
  /\ \/ hooks' = hooks \ {call[i].hook} /\ call' = [call EXCEPT ![i].pc = "ok"]
     \/ call' = [call EXCEPT ![i].pc = "failed"] /\ UNCHANGED hooks
  /\ UNCHANGED <<want, created, records, view, notes, exact>>

(* The row goes from those of the render, whatever the answer says.        *)
DeleteAnswered(i) ==
  /\ call[i].kind = "delete" /\ call[i].pc \in {"ok", "failed"}
  /\ list' = call[i].rows \ {call[i].hook}
  /\ exact' = (exact /\ call[i].alone /\ call[i].pc = "ok")
  /\ End(i)
  /\ UNCHANGED <<store, records, modal, selected, toggles,
                 notes>>

DeleteLost(i) ==
  /\ call[i].kind = "delete" /\ InFlight(i)
  /\ exact' = FALSE
  /\ End(i)
  /\ UNCHANGED <<store, records, view, notes>>

----------------------------------------------------------------------------
(* The dispatcher.                                                         *)

(* Something happens in the app, and a goroutine is started.               *)
Notify(n) ==
  /\ pc[n] = "none" /\ \A m \in 1..(n - 1) : pc[m] # "none"
  /\ pc' = [pc EXCEPT ![n] = "asked"]
  /\ UNCHANGED <<store, records, view, call, event, todo, spent, read, called,
                 held, refused, exact>>

(* The store is waited for, up to the deadline and no longer.              *)
Waits(n, time) ==
  /\ spent[n] + time <= Deadline
  /\ spent' = [spent EXCEPT ![n] = @ + time]

(* The hooks are read, in no particular order; or they, or the app, cannot *)
(* be, and nobody is told.                                                 *)
ListHooks(n) ==
  /\ pc[n] = "asked"
  /\ \/ /\ \E reading \in 0..Deadline :
             Waits(n, reading) /\ held' = [held EXCEPT ![n] = reading]
        /\ pc' = [pc EXCEPT ![n] = IF hooks = {} THEN "done" ELSE "calling"]
        /\ todo' = [todo EXCEPT ![n] = hooks]
        /\ read' = [read EXCEPT ![n] = hooks]
     \/ /\ pc' = [pc EXCEPT ![n] = "done"]
        /\ UNCHANGED <<todo, read, spent, held>>
  /\ UNCHANGED <<store, records, view, call, event, called, refused, exact>>

(* A hook without events gets them all.                                    *)
Wants(h, e) == want[h] = {} \/ e \in want[h]

Passed(n, h) ==
  /\ todo' = [todo EXCEPT ![n] = @ \ {h}]
  /\ pc' = [pc EXCEPT ![n] = IF todo[n] = {h} THEN "done" ELSE @]

(* Faulty: the first hook that does not want the event ends the loop.      *)
SkipRest(n, h) ==
  /\ pc[n] = "calling" /\ h \in todo[n] /\ ~Wants(h, event[n])
  /\ todo' = [todo EXCEPT ![n] = {}] /\ pc' = [pc EXCEPT ![n] = "done"]
  /\ UNCHANGED <<store, records, view, call, event, spent, read, called, held,
                 refused, exact>>

Skip(n, h) ==
  /\ pc[n] = "calling" /\ h \in todo[n] /\ ~Wants(h, event[n])
  /\ Passed(n, h)
  /\ UNCHANGED <<store, records, view, call, event, spent, read, called, held,
                 refused, exact>>

(* Past the deadline a call fails before it is sent.                       *)
Late(n) == spent[n] = Deadline

(* Nobody looks at what the store makes of a record: it takes its time     *)
(* over it, and may not save it, as it seldom does past the deadline.      *)
Record(n, h, took, saving) ==
  /\ Waits(n, took + saving)
  /\ held' = [held EXCEPT ![n] = @ + saving]
  /\ \/ records' = records \cup {<<n, h>>} /\ UNCHANGED refused
     \/ refused' = refused \cup {<<n, h>>} /\ UNCHANGED records

Called(n, h) ==
  called' = [called EXCEPT ![n] = IF Late(n) THEN @ ELSE @ \cup {h}]

(* Faulty: the client has no timeout of its own.                           *)
DeliverPatiently(n, h) ==
  /\ pc[n] = "calling" /\ h \in todo[n] /\ Wants(h, event[n])
  /\ Called(n, h)
  /\ \E took, saving \in 0..Deadline : Record(n, h, took, saving)
  /\ Passed(n, h)
  /\ UNCHANGED <<store, view, call, event, read, exact>>

(* The hook answers, with 2xx or not, cannot be reached, or runs into the  *)
(* client's timeout or the deadline; that is recorded, and nothing is      *)
(* tried again.  However the call ends, the time it took is gone.  What the*)
(* record says of it is left out: nobody decides by it.                    *)
Deliver(n, h) ==
  /\ pc[n] = "calling" /\ h \in todo[n] /\ Wants(h, event[n])
  /\ Called(n, h)
  /\ \E took \in 0..Timeout, saving \in 0..Deadline :
       Record(n, h, took, saving)
  /\ Passed(n, h)
  /\ UNCHANGED <<store, view, call, event, read, exact>>

----------------------------------------------------------------------------
User ==
  \/ Refresh \/ OpenModal \/ CancelModal \/ Create
  \/ \E e \in EventNames : Toggle(e)
  \/ \E h \in Hooks : Delete(h)

Answer(i) ==
  \/ ServeLoad(i) \/ LoadAnswered(i) \/ LoadLost(i)
  \/ ServeCreate(i) \/ CreateAnswered(i) \/ CreateLost(i)
  \/ ServeDelete(i) \/ DeleteAnswered(i) \/ DeleteLost(i)

Dispatch(n) ==
  ListHooks(n) \/ \E h \in Hooks : Skip(n, h) \/ Deliver(n, h)

Next ==
  \/ User
  \/ \E i \in Calls : Answer(i)
  \/ \E n \in Notes : Notify(n) \/ Dispatch(n)

Spec == Init /\ [][Next]_vars

(* A goroutine that can go on does: both the client's timeout and the      *)
(* deadline bound its waits.                                               *)
FairSpec == Spec /\ \A n \in Notes : WF_vars(Dispatch(n))

----------------------------------------------------------------------------
(* page.tsx:42-94: used one click at a time, the page lists the hooks that *)
(* exist and no other, and whatever overlapping or failing calls made of   *)
(* the list, one refresh on its own puts right.                            *)
OneAtATimeIsAccurate == Quiet /\ exact => list = hooks

(* dispatcher.go:43, 77-87, 91-144: when a notification is done, each hook *)
(* it read that wants the event was called in time, unless what the store  *)
(* took and the client's timeout for each hook called before add up to the *)
(* deadline: one hook alone, or two, cannot keep the others from being     *)
(* told.  And each has its record, unless the store did not save it.       *)
EveryHookIsAccounted ==
  \A n \in Notes : pc[n] = "done" =>
    \A h \in read[n] : Wants(h, event[n]) =>
      /\ \/ h \in called[n]
         \/ held[n] + Timeout * Cardinality(called[n]) >= Deadline
      /\ <<n, h>> \in records \cup refused

(* dispatcher.go:40-88, page.tsx:64-94: a hook that exists when something  *)
(* happens is called in time, however the list is edited meanwhile, unless *)
(* it is deleted first, all of the deadline goes to the store and to       *)
(* others, slow ones or not, or the store cannot be read.                  *)
HookIsToldInTheEnd ==
  \A n \in Notes, h \in Hooks :
    pc[n] = "asked" /\ h \in hooks /\ Wants(h, event[n])
      ~> \/ h \in called[n] \/ h \notin hooks \/ Late(n)
         \/ pc[n] = "done" /\ h \notin read[n]
=============================================================================
