--------------------------- MODULE WebhooksProofs ---------------------------
(***************************************************************************)
(* The webhooks page and the dispatcher, for any number of hooks, calls,   *)
(* clicks and notifications.                                               *)
(*                                                                         *)
(* OneAtATimeIsAccurate speaks of quiet moments only.  In between, an      *)
(* exact list and the store differ only while a call is under way that     *)
(* will repair the difference or own up to it, and what a call that is     *)
(* alone read, or keeps of its render, is still true: ListInv.             *)
(* EveryHookIsAccounted speaks of notifications that are done; the same    *)
(* holds, as they go, of the hooks they have passed, because every unit of *)
(* time that is gone went to the store or to a hook called in time, which  *)
(* takes no more than the client's timeout: DispatchInv.                   *)
(***************************************************************************)
EXTENDS Webhooks, FiniteSetTheorems, TLAPS

----------------------------------------------------------------------------
(* The list.                                                               *)

CallRecords ==
  [kind : {"none", "load", "create", "delete"},
   pc : {"free", "sent", "ok", "failed", "ended"}, hook : Hooks \cup {0},
   events : SUBSET EventNames, rows : SUBSET Hooks,
   alone : BOOLEAN]

CallsTyped == call \in [Calls -> CallRecords]

(* Call i has changed the store, or will read it.                          *)
Repairs(i) ==
  \/ InFlight(i) /\ call[i].kind = "load"
  \/ call[i].kind \in {"create", "delete"} /\ call[i].pc = "ok"

AloneIsAlone ==
  \A i, j \in Calls : call[i].alone /\ InFlight(i) /\ InFlight(j) => i = j

(* An exact list is the store's, or somebody sees to it.                   *)
ExactOrRepaired == exact => list = hooks \/ \E i \in Calls : Repairs(i)

(* What a call alone has read, or keeps of its render, is so still.        *)
AloneIsCurrent ==
  \A i \in Calls : call[i].alone =>
    /\ call[i].kind = "load" /\ call[i].pc = "ok" => call[i].rows = hooks
    /\ call[i].kind = "delete" /\ InFlight(i) => call[i].rows = list
    /\ call[i].kind = "delete" /\ call[i].pc = "ok" /\ exact =>
         hooks = list \ {call[i].hook}

ListInv == /\ CallsTyped /\ hooks \subseteq Hooks /\ list \subseteq Hooks
           /\ selected \subseteq EventNames
           /\ AloneIsAlone /\ ExactOrRepaired /\ AloneIsCurrent

(* The forms of a call.                                                    *)
LEMMA Forms ==
  /\ Unused \in CallRecords /\ Loading \in CallRecords
  /\ Loading.kind = "load" /\ Loading.pc = "sent"
  /\ [Unused EXCEPT !.pc = "ended"] \in CallRecords
  /\ [Unused EXCEPT !.pc = "ended"].pc = "ended"
  /\ ~[Unused EXCEPT !.pc = "ended"].alone
BY DEF Unused, Loading, CallRecords

(* What a record keeps when one field is set.                              *)
LEMMA SetAlone ==
  ASSUME NEW r \in CallRecords, NEW b \in BOOLEAN
  PROVE  LET c == [r EXCEPT !.alone = b]
         IN /\ c \in CallRecords /\ c.alone = b /\ c.kind = r.kind
            /\ c.pc = r.pc /\ c.hook = r.hook /\ c.rows = r.rows
BY DEF CallRecords

(* What answering or refusing a call changes of it.                        *)
LEMMA SetPc ==
  ASSUME NEW r \in CallRecords, NEW p \in {"ok", "failed"}
  PROVE  LET c == [r EXCEPT !.pc = p]
         IN /\ c \in CallRecords /\ c.alone = r.alone /\ c.kind = r.kind
            /\ c.pc = p /\ c.hook = r.hook /\ c.rows = r.rows
BY DEF CallRecords

(* A call starts: it is alone if nothing is under way, the others are not. *)
LEMMA Started ==
  ASSUME CallsTyped, NEW r \in CallRecords, Start(r)
  PROVE  /\ CallsTyped'
         /\ \E i \in Calls :
              /\ call[i].pc = "free"
              /\ call'[i].kind = r.kind /\ call'[i].pc = r.pc
              /\ call'[i].hook = r.hook /\ call'[i].rows = r.rows
              /\ call'[i].alone = Quiet
              /\ \A j \in Calls \ {i} :
                   /\ call'[j].kind = call[j].kind /\ call'[j].pc = call[j].pc
                   /\ ~call'[j].alone
<1>1. PICK i \in Calls :
        /\ call[i].pc = "free"
        /\ call' = [j \in Calls |->
             IF j = i THEN [r EXCEPT !.alone = Quiet]
                      ELSE [call[j] EXCEPT !.alone = FALSE]]
  BY DEF Start
<1>2. Quiet \in BOOLEAN
  BY DEF Quiet
<1> DEFINE new == [r EXCEPT !.alone = Quiet]
           old(j) == [call[j] EXCEPT !.alone = FALSE]
<1>3. /\ new \in CallRecords /\ new.alone = Quiet /\ new.kind = r.kind
      /\ new.pc = r.pc /\ new.hook = r.hook /\ new.rows = r.rows
  BY <1>2, SetAlone
<1>4. \A j \in Calls : /\ old(j) \in CallRecords /\ ~old(j).alone
                       /\ old(j).kind = call[j].kind /\ old(j).pc = call[j].pc
  BY SetAlone DEF CallsTyped
<1>5. call' = [j \in Calls |-> IF j = i THEN new ELSE old(j)]
  BY <1>1
<1> HIDE DEF new, old
<1>6. /\ call'[i] = new
      /\ \A j \in Calls \ {i} : call'[j] = old(j)
  BY <1>5
<1>7. CallsTyped'
  BY <1>3, <1>4, <1>5 DEF CallsTyped
<1>8. /\ call'[i].kind = r.kind /\ call'[i].pc = r.pc
      /\ call'[i].hook = r.hook /\ call'[i].rows = r.rows
      /\ call'[i].alone = Quiet
  BY <1>3, <1>6
<1>9. \A j \in Calls \ {i} :
        /\ call'[j].kind = call[j].kind /\ call'[j].pc = call[j].pc
        /\ ~call'[j].alone
  BY <1>4, <1>6
<1> QED BY <1>1, <1>7, <1>8, <1>9

(* A call ends; the others go on.                                          *)
LEMMA Ended ==
  ASSUME CallsTyped, NEW i \in Calls, End(i)
  PROVE  /\ CallsTyped'
         /\ call'[i].pc = "ended" /\ ~call'[i].alone
         /\ \A j \in Calls \ {i} : call'[j] = call[j]
BY Forms DEF CallsTyped, End

(* Any click that starts a call.                                           *)
LEMMA StartKeepsList ==
  ASSUME ListInv, NEW r \in CallRecords, r.pc = "sent", Start(r),
         r.kind = "delete" => r.rows = list,
         UNCHANGED <<hooks, list, selected, exact>>
  PROVE  ListInv'
<1>1. PICK i \in Calls :
        /\ call[i].pc = "free"
        /\ call'[i].kind = r.kind /\ call'[i].pc = "sent"
        /\ call'[i].rows = r.rows /\ call'[i].alone = Quiet
        /\ \A j \in Calls \ {i} :
             /\ call'[j].kind = call[j].kind /\ call'[j].pc = call[j].pc
             /\ ~call'[j].alone
  BY Started DEF ListInv
<1>2. CallsTyped'
  BY Started DEF ListInv
<1>3. ~InFlight(i) /\ ~Repairs(i)
  BY <1>1 DEF InFlight, Repairs
<1>4. \A j \in Calls \ {i} : /\ InFlight(j)' <=> InFlight(j)
                             /\ Repairs(j)' <=> Repairs(j)
  BY <1>1 DEF InFlight, Repairs
<1>5. AloneIsAlone'
  <2> SUFFICES ASSUME NEW k \in Calls, NEW j \in Calls,
                      call'[k].alone, InFlight(k)', InFlight(j)'
               PROVE  k = j
    BY DEF AloneIsAlone
  <2>1. k = i /\ Quiet
    BY <1>1
  <2> QED BY <1>4, <2>1 DEF Quiet
<1>6. ExactOrRepaired'
  BY <1>3, <1>4 DEF ListInv, ExactOrRepaired
<1>7. AloneIsCurrent'
  BY <1>1 DEF AloneIsCurrent
<1> QED BY <1>2, <1>5, <1>6, <1>7 DEF ListInv

(* A call that is over and had nothing to repair.                          *)
LEMMA EndKeepsList ==
  ASSUME ListInv, NEW i \in Calls, InFlight(i), End(i), list' \subseteq Hooks,
         UNCHANGED <<hooks, selected>>,
         exact' => \/ list' = hooks
                   \/ exact /\ UNCHANGED list /\ ~Repairs(i)
  PROVE  ListInv'
<1>1. /\ CallsTyped' /\ call'[i].pc = "ended" /\ ~call'[i].alone
      /\ \A j \in Calls \ {i} : call'[j] = call[j]
  BY Ended DEF ListInv
<1>2. AloneIsAlone'
  BY <1>1 DEF ListInv, AloneIsAlone, InFlight
<1>3. ExactOrRepaired'
  BY <1>1 DEF ListInv, ExactOrRepaired, Repairs, InFlight
<1>4. AloneIsCurrent'
  <2> SUFFICES ASSUME NEW j \in Calls \ {i}, call[j].alone
               PROVE  /\ call[j].kind = "load" /\ call[j].pc = "ok" =>
                           call[j].rows = hooks
                      /\ call[j].kind = "delete" /\ InFlight(j) =>
                           call[j].rows = list'
                      /\ call[j].kind = "delete" /\ call[j].pc = "ok" /\ exact' =>
                           hooks = list' \ {call[j].hook}
    BY <1>1 DEF AloneIsCurrent, InFlight
  <2>1. ~InFlight(j)
    BY DEF ListInv, AloneIsAlone
  <2> QED BY <2>1 DEF InFlight
<1> QED BY <1>1, <1>2, <1>3, <1>4 DEF ListInv

(* A call under way gets on; whoever else is alone is not under way.       *)
LEMMA GoingOnKeepsList ==
  ASSUME ListInv, NEW i \in Calls, InFlight(i), NEW c \in CallRecords,
         call' = [call EXCEPT ![i] = c],
         c.alone = call[i].alone, c.pc \in {"sent", "ok", "failed"},
         hooks' \subseteq Hooks, UNCHANGED <<list, selected, exact>>,
         \/ Repairs(i)'
         \/ ~Repairs(i) /\ UNCHANGED hooks,
         c.alone =>
           /\ c.kind = "load" /\ c.pc = "ok" => c.rows = hooks'
           /\ c.kind = "delete" => c.rows = list
           /\ c.kind = "delete" /\ c.pc = "ok" /\ exact =>
                hooks' = list \ {c.hook}
  PROVE  ListInv'
<1>1. /\ CallsTyped' /\ call'[i] = c
      /\ \A j \in Calls \ {i} : call'[j] = call[j]
  BY DEF ListInv, CallsTyped
<1>2. InFlight(i)'
  BY <1>1 DEF InFlight
<1>3. AloneIsAlone'
  BY <1>1, <1>2 DEF ListInv, AloneIsAlone, InFlight
<1>4. ExactOrRepaired'
  <2>1. \A j \in Calls \ {i} : Repairs(j) => Repairs(j)'
    BY <1>1 DEF Repairs, InFlight
  <2> QED BY <2>1 DEF ListInv, ExactOrRepaired
<1>5. \A j \in Calls \ {i} : call'[j].alone => ~InFlight(j)'
  BY <1>2, <1>3 DEF AloneIsAlone
<1>6. AloneIsCurrent'
  BY <1>1, <1>5 DEF AloneIsCurrent, InFlight
<1> QED BY <1>1, <1>3, <1>4, <1>6 DEF ListInv

(* What is under way, and alone, is the only call that could repair.       *)
LEMMA AloneRepairs ==
  ASSUME ListInv, NEW i \in Calls, InFlight(i), call[i].alone, exact, ~Repairs(i)
  PROVE  list = hooks
<1>1. \A j \in Calls \ {i} : ~InFlight(j)
  BY DEF ListInv, AloneIsAlone
<1>2. \A j \in Calls \ {i} : ~Repairs(j)
  BY <1>1 DEF Repairs, InFlight
<1> QED BY <1>2 DEF ListInv, ExactOrRepaired

(* page.tsx:42-62: the list is loaded.                                     *)
LEMMA ServeLoadKeeps ==
  ASSUME ListInv, NEW i \in Calls, ServeLoad(i)
  PROVE  ListInv'
<1> DEFINE c == [call[i] EXCEPT !.pc = "ok", !.rows = hooks]
<1>1. /\ call[i].kind = "load" /\ call[i].pc = "sent"
      /\ call' = [call EXCEPT ![i] = c]
      /\ UNCHANGED <<hooks, list, selected, exact>>
  BY DEF ServeLoad, store, view
<1>3. /\ c \in CallRecords /\ c.kind = "load" /\ c.pc = "ok"
      /\ c.rows = hooks /\ c.alone = call[i].alone
  BY <1>1 DEF ListInv, CallsTyped, CallRecords
<1> HIDE DEF c
<1>4. InFlight(i) /\ Repairs(i)'
  <2>1. call'[i] = c
    BY <1>1 DEF ListInv, CallsTyped
  <2> QED BY <1>1, <1>3, <2>1 DEF InFlight, Repairs
<1>5. hooks' \subseteq Hooks
  BY <1>1 DEF ListInv
<1> QED BY <1>1, <1>3, <1>4, <1>5, GoingOnKeepsList

(* page.tsx:42-58: an answered load shows what it read; a lost one leaves  *)
(* the list.                                                               *)
LEMMA LoadEndsKeeps ==
  ASSUME ListInv, NEW i \in Calls, LoadAnswered(i) \/ LoadLost(i)
  PROVE  ListInv'
<1>1. /\ End(i) /\ UNCHANGED <<hooks, selected>> /\ InFlight(i)
  BY DEF LoadAnswered, LoadLost, store, InFlight
<1>2. CASE LoadLost(i)
  BY <1>1, <1>2, EndKeepsList DEF LoadLost, ListInv
<1>3. CASE LoadAnswered(i)
  <2>1. \/ list' = call[i].rows /\ exact' = call[i].alone
        \/ exact' = FALSE /\ UNCHANGED list
    BY <1>3 DEF LoadAnswered
  <2>2. call[i].kind = "load" /\ call[i].pc = "ok"
    BY <1>3 DEF LoadAnswered
  <2>3. call[i].rows \subseteq Hooks /\ list \subseteq Hooks
    BY DEF ListInv, CallsTyped, CallRecords
  <2>4. call[i].alone => call[i].rows = hooks
    BY <2>2 DEF ListInv, AloneIsCurrent
  <2>5. exact' => list' = hooks
    BY <2>1, <2>4
  <2>6. list' \subseteq Hooks
    BY <2>1, <2>3
  <2> QED BY <1>1, <2>5, <2>6, EndKeepsList
<1> QED BY <1>2, <1>3

(* page.tsx:64-86: a hook is created, and the list loaded again.           *)
LEMMA ServeCreateKeeps ==
  ASSUME ListInv, created \in Nat, NEW i \in Calls, ServeCreate(i)
  PROVE  ListInv'
<1>1. /\ call[i].kind = "create" /\ call[i].pc = "sent"
      /\ UNCHANGED <<list, selected, exact>>
  BY DEF ServeCreate, view
<1>2. call[i] \in CallRecords
  BY DEF ListInv, CallsTyped
<1>3. PICK p \in {"ok", "failed"} :
        /\ call' = [call EXCEPT ![i].pc = p]
        /\ p = "failed" => UNCHANGED hooks
        /\ hooks' \subseteq Hooks
  <2>1. CASE UNCHANGED store /\ call' = [call EXCEPT ![i].pc = "failed"]
    BY <2>1 DEF ListInv, store
  <2>2. CASE /\ created < MaxHooks /\ created' = created + 1
             /\ hooks' = hooks \cup {created'}
             /\ call' = [call EXCEPT ![i].pc = "ok"]
    <3>1. created' \in Hooks
      BY <2>2, WebhooksAssumption DEF Hooks
    <3> QED BY <2>2, <3>1 DEF ListInv
  <2> QED BY <2>1, <2>2 DEF ServeCreate
<1> DEFINE c == [call[i] EXCEPT !.pc = p]
<1>4. /\ c \in CallRecords /\ c.alone = call[i].alone /\ c.pc = p
      /\ c.kind = "create"
  BY <1>1, <1>2, SetPc
<1>5. call' = [call EXCEPT ![i] = c]
  BY <1>3
<1> HIDE DEF c
<1>6. call'[i] = c
  BY <1>5 DEF ListInv, CallsTyped
<1>7. InFlight(i) /\ ~Repairs(i) /\ (p = "ok" => Repairs(i)')
  BY <1>1, <1>4, <1>6 DEF InFlight, Repairs
<1> QED BY <1>1, <1>3, <1>4, <1>5, <1>7, GoingOnKeepsList

(* page.tsx:64-85: an answered create goes on as a load, a refused one     *)
(* ends, and after a lost one nothing is claimed.                          *)
LEMMA CreateEndsKeeps ==
  ASSUME ListInv, NEW i \in Calls, CreateAnswered(i) \/ CreateLost(i)
  PROVE  ListInv'
<1>1. /\ call[i].kind = "create" /\ InFlight(i)
      /\ UNCHANGED <<hooks, list, selected>>
      /\ \/ call[i].pc = "failed" /\ End(i) /\ UNCHANGED exact
         \/ End(i) /\ exact' = FALSE
         \/ /\ call[i].pc = "ok" /\ UNCHANGED exact
            /\ call' = [call EXCEPT ![i] = [Loading EXCEPT !.alone = call[i].alone]]
  BY DEF CreateAnswered, CreateLost, store, view, InFlight
<1>2. CASE End(i) /\ exact' = FALSE
  BY <1>1, <1>2, EndKeepsList DEF ListInv
<1>3. CASE call[i].pc = "failed" /\ End(i) /\ UNCHANGED exact
  <2>1. ~Repairs(i)
    BY <1>1, <1>3 DEF Repairs
  <2> QED BY <1>1, <1>3, <2>1, EndKeepsList DEF ListInv
<1>4. CASE /\ call[i].pc = "ok" /\ UNCHANGED exact
           /\ call' = [call EXCEPT ![i] = [Loading EXCEPT !.alone = call[i].alone]]
  <2> DEFINE c == [Loading EXCEPT !.alone = call[i].alone]
  <2>1. call[i].alone \in BOOLEAN
    BY DEF ListInv, CallsTyped, CallRecords
  <2>2. /\ c \in CallRecords /\ c.alone = call[i].alone
        /\ c.kind = "load" /\ c.pc = "sent"
    BY <2>1, Forms, SetAlone
  <2> HIDE DEF c
  <2>3. call' = [call EXCEPT ![i] = c]
    BY <1>4 DEF c
  <2>4. call'[i] = c
    BY <2>3 DEF ListInv, CallsTyped
  <2>5. Repairs(i)' /\ hooks' \subseteq Hooks
    BY <1>1, <2>2, <2>4 DEF Repairs, InFlight, ListInv
  <2> QED BY <1>1, <1>4, <2>2, <2>3, <2>5, GoingOnKeepsList
<1> QED BY <1>1, <1>2, <1>3, <1>4

(* page.tsx:88-94: a hook is deleted, and its row goes.                    *)
LEMMA ServeDeleteKeeps ==
  ASSUME ListInv, NEW i \in Calls, ServeDelete(i)
  PROVE  ListInv'
<1>1. /\ call[i].kind = "delete" /\ call[i].pc = "sent" /\ InFlight(i)
      /\ UNCHANGED <<list, selected, exact>> /\ ~Repairs(i)
  BY DEF ServeDelete, view, InFlight, Repairs
<1>2. PICK p \in {"ok", "failed"} :
        /\ call' = [call EXCEPT ![i].pc = p]
        /\ hooks' = IF p = "ok" THEN hooks \ {call[i].hook} ELSE hooks
  BY DEF ServeDelete
<1>3. call[i] \in CallRecords
  BY DEF ListInv, CallsTyped
<1> DEFINE c == [call[i] EXCEPT !.pc = p]
<1>4. /\ c \in CallRecords /\ c.alone = call[i].alone /\ c.pc = p
      /\ c.kind = "delete" /\ c.hook = call[i].hook /\ c.rows = call[i].rows
  BY <1>1, <1>3, SetPc
<1>5. call' = [call EXCEPT ![i] = c]
  BY <1>2
<1> HIDE DEF c
<1>6. call'[i] = c
  BY <1>5 DEF ListInv, CallsTyped
<1>7. p = "ok" => Repairs(i)'
  BY <1>4, <1>6 DEF Repairs
<1>8. call[i].alone => call[i].rows = list
  BY <1>1 DEF ListInv, AloneIsCurrent
<1>9. call[i].alone /\ exact => list = hooks
  BY <1>1, AloneRepairs
<1>10. hooks' \subseteq Hooks
  BY <1>2 DEF ListInv
<1>11. c.alone =>
         /\ ~(c.kind = "load" /\ c.pc = "ok")
         /\ c.kind = "delete" => c.rows = list
         /\ c.kind = "delete" /\ c.pc = "ok" /\ exact => hooks' = list \ {c.hook}
  BY <1>2, <1>4, <1>8, <1>9
<1> QED BY <1>1, <1>2, <1>4, <1>5, <1>7, <1>10, <1>11, GoingOnKeepsList

(* page.tsx:86-94: an answered delete takes its hook out of its render's   *)
(* rows.                                                                   *)
LEMMA DeleteEndsKeeps ==
  ASSUME ListInv, NEW i \in Calls, DeleteAnswered(i) \/ DeleteLost(i)
  PROVE  ListInv'
<1>1. /\ call[i].kind = "delete" /\ InFlight(i) /\ End(i)
      /\ UNCHANGED <<hooks, selected>>
  BY DEF DeleteAnswered, DeleteLost, store, view, InFlight
<1>2. CASE DeleteLost(i)
  BY <1>1, <1>2, EndKeepsList DEF DeleteLost, view, ListInv
<1>3. CASE DeleteAnswered(i)
  <2>1. /\ list' = call[i].rows \ {call[i].hook}
        /\ exact' = (exact /\ call[i].alone /\ call[i].pc = "ok")
    BY <1>3 DEF DeleteAnswered
  <2>2. call[i].rows \subseteq Hooks
    BY DEF ListInv, CallsTyped, CallRecords
  <2>3. exact' => list' = hooks
    BY <1>1, <2>1 DEF ListInv, AloneIsCurrent
  <2> QED BY <1>1, <2>1, <2>2, <2>3, EndKeepsList
<1> QED BY <1>2, <1>3

----------------------------------------------------------------------------
(* The dispatcher.                                                         *)

(* The deadline can be used up: the store and the hooks called in time,    *)
(* with the client's timeout each, have room for it.                       *)
UsedUp(n) == held[n] + Timeout * Cardinality(called[n]) >= Deadline

(* Of the hooks a notification has read, those it has passed were called   *)
(* in time or came after the deadline, and have their record or were       *)
(* refused it.                                                             *)
PassedAccounted ==
  \A n \in Notes, h \in Hooks :
    h \in read[n] /\ h \notin todo[n] /\ Wants(h, event[n]) =>
      /\ h \in called[n] \/ Late(n)
      /\ <<n, h>> \in records \cup refused

(* The time that is gone went to the store or to hooks called in time.     *)
TimeAccounted ==
  \A n \in Notes :
    /\ spent[n] <= Deadline
    /\ spent[n] <= held[n] + Timeout * Cardinality(called[n])
    /\ called[n] \cap todo[n] = {}
    /\ pc[n] \in {"none", "asked"} => spent[n] = 0 /\ called[n] = {}

(* It reads hooks that exist, whose events do not change, and is done when *)
(* it has passed them all.                                                 *)
NotesInv ==
  /\ created \in Nat
  /\ \A h \in hooks : h \in Hooks /\ h <= created
  /\ pc \in [Notes -> {"none", "asked", "calling", "done"}]
  /\ todo \in [Notes -> SUBSET Hooks] /\ read \in [Notes -> SUBSET Hooks]
  /\ spent \in [Notes -> Nat] /\ held \in [Notes -> Nat]
  /\ called \in [Notes -> SUBSET Hooks]
  /\ want \in [Hooks -> SUBSET EventNames]
  /\ \A n \in Notes :
       /\ \A h \in read[n] : h <= created
       /\ pc[n] # "calling" => todo[n] = {}

DispatchInv == NotesInv /\ PassedAccounted /\ TimeAccounted

(* One more hook called in time leaves room for one more timeout.          *)
LEMMA OneMoreCalled ==
  ASSUME NEW S \in SUBSET Hooks, NEW h \in Hooks, h \notin S
  PROVE  /\ Cardinality(S) \in Nat
         /\ Timeout * Cardinality(S \cup {h}) = Timeout * Cardinality(S) + Timeout
<1>1. IsFiniteSet(Hooks)
  BY FS_Interval, WebhooksAssumption DEF Hooks
<1>2. IsFiniteSet(S)
  BY <1>1, FS_Subset
<1>3. Cardinality(S) \in Nat /\ Cardinality(S \cup {h}) = Cardinality(S) + 1
  BY <1>2, FS_CardinalityType, FS_AddElement
<1>4. \A k \in Nat : Timeout * (k + 1) = Timeout * k + Timeout
  BY WebhooksAssumption
<1> QED BY <1>3, <1>4

(* The page and its calls create hooks, but change none that was read.     *)
LEMMA PageKeepsNotes ==
  ASSUME DispatchInv, UNCHANGED <<records, notes>>,
         \/ hooks' \subseteq hooks /\ UNCHANGED <<want, created>>
         \/ \E events \in SUBSET EventNames :
              /\ created < MaxHooks /\ created' = created + 1
              /\ hooks' = hooks \cup {created'}
              /\ want' = [want EXCEPT ![created'] = events]
  PROVE  DispatchInv'
<1> USE DEF DispatchInv, NotesInv
<1>1. UNCHANGED <<records, pc, event, todo, spent, read, called, held, refused>>
  BY DEF notes
<1>4. TimeAccounted'
  BY <1>1 DEF TimeAccounted
<1>2. CASE hooks' \subseteq hooks /\ UNCHANGED <<want, created>>
  <2>1. NotesInv'
    BY <1>1, <1>2
  <2>2. PassedAccounted'
    BY <1>1, <1>2 DEF PassedAccounted, Late, Wants
  <2> QED BY <1>4, <2>1, <2>2
<1>3. ASSUME NEW events \in SUBSET EventNames,
             created < MaxHooks, created' = created + 1,
             hooks' = hooks \cup {created'},
             want' = [want EXCEPT ![created'] = events]
      PROVE  DispatchInv'
  <2>1. created' \in Hooks /\ \A h \in Hooks : h <= created => h # created' /\ h <= created'
    BY <1>3, WebhooksAssumption DEF Hooks
  <2>2. NotesInv'
    <3>1. want' \in [Hooks -> SUBSET EventNames]
      BY <1>3
    <3>2. \A h \in hooks' : h \in Hooks /\ h <= created'
      <4>1. created' <= created'
        BY <1>3
      <4> QED BY <1>3, <2>1, <4>1
    <3>3. \A n \in Notes : \A h \in read[n] : h \in Hooks /\ h <= created'
      BY <2>1
    <3>4. created' \in Nat
      BY <1>3
    <3> QED BY <1>1, <3>1, <3>2, <3>3, <3>4
  <2>3. \A n \in Notes : \A h \in read[n] : Wants(h, event[n])' <=> Wants(h, event[n])
    <3>1. \A n \in Notes : \A h \in read[n] : want'[h] = want[h]
      BY <1>3, <2>1
    <3> QED BY <1>1, <3>1 DEF Wants
  <2>4. PassedAccounted'
    BY <1>1, <2>3 DEF PassedAccounted, Late
  <2> QED BY <1>4, <2>2, <2>4
<1> QED BY <1>2, <1>3

(* dispatcher.go:46-60: the hooks are read, in some of the time.           *)
LEMMA ListHooksKeepsNotes ==
  ASSUME DispatchInv, NEW n \in Notes, ListHooks(n)
  PROVE  DispatchInv'
<1> USE DEF DispatchInv, NotesInv
<1>1. /\ pc[n] = "asked"
      /\ UNCHANGED <<hooks, want, created, records, event, called, refused>>
  BY DEF ListHooks, store
<1>2. CASE pc' = [pc EXCEPT ![n] = "done"] /\ UNCHANGED <<todo, read, spent, held>>
  <2>1. NotesInv'
    BY <1>1, <1>2
  <2>2. PassedAccounted' /\ TimeAccounted'
    BY <1>1, <1>2 DEF PassedAccounted, TimeAccounted, Late, Wants
  <2> QED BY <2>1, <2>2
<1>3. ASSUME NEW reading \in 0..Deadline, Waits(n, reading),
             held' = [held EXCEPT ![n] = reading],
             pc' = [pc EXCEPT ![n] = IF hooks = {} THEN "done" ELSE "calling"],
             todo' = [todo EXCEPT ![n] = hooks], read' = [read EXCEPT ![n] = hooks]
      PROVE  DispatchInv'
  <2>1. /\ reading \in Nat /\ hooks \in SUBSET Hooks
        /\ spent[n] = 0 /\ called[n] = {}
    BY <1>1, <1>3, WebhooksAssumption DEF TimeAccounted
  <2>2. reading <= Deadline /\ spent' = [spent EXCEPT ![n] = reading]
    <3>1. spent[n] + reading = reading
      BY <2>1
    <3> QED BY <1>3, <3>1 DEF Waits
  <2>3. NotesInv'
    BY <1>1, <1>3, <2>1, <2>2
  <2>4. PassedAccounted'
    BY <1>1, <1>3, <2>2 DEF PassedAccounted, Late, Wants
  <2>5. TimeAccounted'
    <3> SUFFICES ASSUME NEW m \in Notes
                 PROVE  /\ spent'[m] <= Deadline
                        /\ spent'[m] <= held'[m] + Timeout * Cardinality(called[m])
                        /\ called[m] \cap todo'[m] = {}
                        /\ pc'[m] \in {"none", "asked"} =>
                             spent'[m] = 0 /\ called[m] = {}
      BY <1>1 DEF TimeAccounted
    <3>1. CASE m # n
      BY <1>3, <2>2, <3>1 DEF TimeAccounted
    <3>2. CASE m = n
      <4>1. reading <= reading + Timeout * Cardinality({})
        BY <2>1, WebhooksAssumption, FS_EmptySet
      <4> QED BY <1>3, <2>1, <2>2, <3>2, <4>1
    <3> QED BY <3>1, <3>2
  <2> QED BY <2>3, <2>4, <2>5
<1> QED BY <1>2, <1>3 DEF ListHooks

(* dispatcher.go:81-84: a hook that does not want the event is passed.     *)
LEMMA SkipKeepsNotes ==
  ASSUME DispatchInv, NEW n \in Notes, NEW h \in Hooks, Skip(n, h)
  PROVE  DispatchInv'
<1> USE DEF DispatchInv, NotesInv
<1>1. /\ pc[n] = "calling" /\ h \in todo[n] /\ ~Wants(h, event[n])
      /\ UNCHANGED <<hooks, want, created, event, records, read, spent, called,
                     held, refused>>
      /\ todo' = [todo EXCEPT ![n] = @ \ {h}]
      /\ pc' = [pc EXCEPT ![n] = IF todo[n] = {h} THEN "done" ELSE @]
  BY DEF Skip, Passed, store
<1>2. NotesInv'
  <2>1. /\ todo' \in [Notes -> SUBSET Hooks]
        /\ pc' \in [Notes -> {"none", "asked", "calling", "done"}]
    BY <1>1
  <2>2. \A m \in Notes : pc'[m] # "calling" => todo'[m] = {}
    BY <1>1
  <2> QED BY <1>1, <2>1, <2>2
<1>3. PassedAccounted'
  BY <1>1 DEF PassedAccounted, Late, Wants
<1>4. TimeAccounted'
  BY <1>1 DEF TimeAccounted
<1> QED BY <1>2, <1>3, <1>4

(* dispatcher.go:91-144: a hook is called, in time or not, and its record  *)
(* saved or not; what that took is within the two limits.                  *)
LEMMA DeliverKeepsNotes ==
  ASSUME DispatchInv, NEW n \in Notes, NEW h \in Hooks, Deliver(n, h)
  PROVE  DispatchInv'
<1> USE DEF DispatchInv, NotesInv
<1>1. /\ pc[n] = "calling" /\ h \in todo[n]
      /\ UNCHANGED <<hooks, want, created, event, read>>
      /\ todo' = [todo EXCEPT ![n] = @ \ {h}]
      /\ pc' = [pc EXCEPT ![n] = IF todo[n] = {h} THEN "done" ELSE @]
      /\ called' = [called EXCEPT ![n] = IF Late(n) THEN @ ELSE @ \cup {h}]
  BY DEF Deliver, Called, Passed, store
<1>2. PICK took \in 0..Timeout, saving \in 0..Deadline : Record(n, h, took, saving)
  BY DEF Deliver
<1>3. /\ took \in Nat /\ saving \in Nat /\ took <= Timeout
      /\ Timeout \in Nat /\ Deadline \in Nat
  BY <1>2, WebhooksAssumption
<1>4. /\ spent[n] + (took + saving) <= Deadline
      /\ spent' = [spent EXCEPT ![n] = @ + (took + saving)]
      /\ held' = [held EXCEPT ![n] = @ + saving]
      /\ records \subseteq records' /\ refused \subseteq refused'
      /\ <<n, h>> \in records' \cup refused'
  BY <1>2 DEF Record, Waits
<1>5. /\ spent[n] \in Nat /\ held[n] \in Nat
      /\ spent'[n] = spent[n] + took + saving /\ held'[n] = held[n] + saving
  BY <1>3, <1>4
<1>6. NotesInv'
  <2>1. /\ todo' \in [Notes -> SUBSET Hooks] /\ called' \in [Notes -> SUBSET Hooks]
        /\ pc' \in [Notes -> {"none", "asked", "calling", "done"}]
    BY <1>1
  <2>2. \A m \in Notes : pc'[m] # "calling" => todo'[m] = {}
    BY <1>1
  <2>3. spent' \in [Notes -> Nat] /\ held' \in [Notes -> Nat]
    <3>1. spent[n] + (took + saving) \in Nat /\ held[n] + saving \in Nat
      BY <1>3, <1>5
    <3> QED BY <1>4, <3>1
  <2> QED BY <1>1, <2>1, <2>2, <2>3
<1>7. PassedAccounted'
  <2> SUFFICES ASSUME NEW m \in Notes, NEW g \in Hooks,
                      g \in read[m], g \notin todo'[m], Wants(g, event[m])
               PROVE  /\ g \in called'[m] \/ Late(m)'
                      /\ <<m, g>> \in records' \cup refused'
    BY <1>1 DEF PassedAccounted, Wants
  <2>1. Late(m) => Late(m)'
    <3>1. spent[n] = Deadline => spent'[n] = Deadline
      BY <1>3, <1>4, <1>5
    <3>2. m # n => spent'[m] = spent[m]
      BY <1>4
    <3> QED BY <3>1, <3>2 DEF Late
  <2>2. CASE m = n /\ g = h
    BY <1>1, <1>4, <2>1, <2>2
  <2>3. CASE ~(m = n /\ g = h)
    <3>1. g \notin todo[m]
      BY <1>1, <2>3
    <3>2. g \in called[m] => g \in called'[m]
      BY <1>1
    <3> QED BY <1>4, <2>1, <3>1, <3>2 DEF PassedAccounted
  <2> QED BY <2>2, <2>3
<1>8. TimeAccounted'
  <2>1. h \notin called[n] /\ called[n] \in SUBSET Hooks
    BY <1>1 DEF TimeAccounted
  <2>2. /\ Cardinality(called[n]) \in Nat
        /\ Timeout * Cardinality(called[n] \cup {h})
             = Timeout * Cardinality(called[n]) + Timeout
    BY <2>1, OneMoreCalled
  <2>3. spent[n] <= held[n] + Timeout * Cardinality(called[n])
    BY DEF TimeAccounted
  <2> DEFINE room == Timeout * Cardinality(called[n])
  <2>4. room \in Nat
    BY <1>3, <2>2
  <2>5. spent'[n] <= held'[n] + Timeout * Cardinality(called'[n])
    <3>1. CASE Late(n)
      <4>1. took = 0
        BY <1>3, <1>4, <1>5, <3>1 DEF Late
      <4>2. called'[n] = called[n]
        BY <1>1, <3>1
      <4>3. spent'[n] <= held'[n] + room
        <5> HIDE DEF room
        <5>1. spent[n] <= held[n] + room
          BY <2>3 DEF room
        <5> QED BY <1>3, <1>5, <2>4, <4>1, <5>1
      <4> QED BY <4>2, <4>3
    <3>2. CASE ~Late(n)
      <4>1. called'[n] = called[n] \cup {h}
        BY <1>1, <3>2
      <4>2. spent'[n] <= held'[n] + (room + Timeout)
        <5> HIDE DEF room
        <5>1. spent[n] <= held[n] + room
          BY <2>3 DEF room
        <5> QED BY <1>3, <1>5, <2>4, <5>1
      <4> QED BY <2>2, <4>1, <4>2
    <3> QED BY <3>1, <3>2
  <2> SUFFICES ASSUME NEW m \in Notes
               PROVE  /\ spent'[m] <= Deadline
                      /\ spent'[m] <= held'[m] + Timeout * Cardinality(called'[m])
                      /\ called'[m] \cap todo'[m] = {}
                      /\ pc'[m] \in {"none", "asked"} =>
                           spent'[m] = 0 /\ called'[m] = {}
    BY DEF TimeAccounted
  <2>6. CASE m # n
    <3>1. /\ spent'[m] = spent[m] /\ held'[m] = held[m] /\ called'[m] = called[m]
          /\ todo'[m] = todo[m] /\ pc'[m] = pc[m]
      BY <1>1, <1>4, <2>6
    <3> QED BY <3>1 DEF TimeAccounted
  <2>7. CASE m = n
    <3>1. spent'[n] <= Deadline
      BY <1>3, <1>4, <1>5
    <3>2. called'[n] \cap todo'[n] = {}
      BY <1>1 DEF TimeAccounted
    <3>3. pc'[n] \notin {"none", "asked"}
      BY <1>1
    <3> QED BY <2>5, <2>7, <3>1, <3>2, <3>3
  <2> QED BY <2>6, <2>7
<1> QED BY <1>6, <1>7, <1>8

----------------------------------------------------------------------------
(* Both together.                                                          *)

WebhooksInv == ListInv /\ DispatchInv

(* The page is opened: its first load is under way, and alone.             *)
LEMMA WebhooksInit == Init => WebhooksInv
<1> SUFFICES ASSUME Init PROVE WebhooksInv
  OBVIOUS
<1> DEFINE first == [Loading EXCEPT !.alone = TRUE]
<1>1. /\ first \in CallRecords /\ first.pc = "sent" /\ first.kind = "load"
      /\ Unused \in CallRecords /\ ~Unused.alone /\ Unused.pc = "free"
  BY Forms, SetAlone DEF Unused
<1> HIDE DEF first
<1>2. call = [i \in Calls |-> IF i = 1 THEN first ELSE Unused]
  BY DEF Init, first
<1>3. CallsTyped
  BY <1>1, <1>2 DEF CallsTyped
<1>4. AloneIsAlone /\ AloneIsCurrent
  <2>1. \A i \in Calls : i # 1 => call[i] = Unused
    BY <1>2
  <2>2. \A i \in Calls : call[i].alone \/ InFlight(i) => i = 1
    BY <1>1, <2>1 DEF InFlight
  <2>3. \A i \in Calls : i = 1 => call[i] = first
    BY <1>2
  <2> QED BY <1>1, <2>2, <2>3 DEF AloneIsAlone, AloneIsCurrent
<1>5. ListInv
  BY <1>3, <1>4 DEF Init, ListInv, ExactOrRepaired
<1>6. NotesInv
  BY WebhooksAssumption DEF Init, NotesInv
<1>7. PassedAccounted /\ TimeAccounted
  BY FS_EmptySet, WebhooksAssumption DEF Init, PassedAccounted, TimeAccounted
<1> QED BY <1>5, <1>6, <1>7 DEF WebhooksInv, DispatchInv

(* The clicks.                                                             *)
LEMMA UserKeepsList ==
  ASSUME ListInv, User
  PROVE  ListInv'
<1> USE DEF ListInv
<1>1. CASE Refresh
  BY <1>1, Forms, StartKeepsList DEF Refresh, store, view
<1>2. CASE Create
  <2> DEFINE r == [Unused EXCEPT !.kind = "create", !.pc = "sent", !.events = selected]
  <2>1. r \in CallRecords /\ r.pc = "sent" /\ r.kind = "create"
    BY DEF Unused, CallRecords
  <2> HIDE DEF r
  <2>2. Start(r) /\ UNCHANGED <<hooks, list, selected, exact>>
    BY <1>2 DEF Create, store, view, r
  <2> QED BY <2>1, <2>2, StartKeepsList
<1>3. ASSUME NEW h \in Hooks, Delete(h) PROVE ListInv'
  <2> DEFINE r == [Unused EXCEPT !.kind = "delete", !.pc = "sent", !.hook = h,
                                 !.rows = list]
  <2>1. r \in CallRecords /\ r.pc = "sent" /\ r.rows = list
    BY DEF Unused, CallRecords
  <2> HIDE DEF r
  <2>2. Start(r) /\ UNCHANGED <<hooks, list, selected, exact>>
    BY <1>3 DEF Delete, store, view, r
  <2> QED BY <2>1, <2>2, StartKeepsList
<1>4. CASE OpenModal \/ CancelModal \/ \E e \in EventNames : Toggle(e)
  <2>1. /\ UNCHANGED <<hooks, list, call, exact>>
        /\ selected' \subseteq EventNames
    BY <1>4 DEF OpenModal, CancelModal, Toggle, store
  <2> QED BY <2>1 DEF CallsTyped, AloneIsAlone, ExactOrRepaired, AloneIsCurrent,
                      Repairs, InFlight
<1> QED BY <1>1, <1>2, <1>3, <1>4 DEF User

(* Every step keeps the invariant.                                         *)
LEMMA WebhooksNext == WebhooksInv /\ [Next]_vars => WebhooksInv'
<1> SUFFICES ASSUME WebhooksInv, [Next]_vars PROVE WebhooksInv'
  OBVIOUS
<1> USE DEF WebhooksInv
<1>1. ASSUME UNCHANGED <<hooks, list, selected, call, exact>> PROVE ListInv'
  BY <1>1 DEF ListInv, CallsTyped, AloneIsAlone, ExactOrRepaired, AloneIsCurrent,
              Repairs, InFlight
<1>2. ASSUME UNCHANGED <<store, records, notes>> PROVE DispatchInv'
  BY <1>2, PageKeepsNotes DEF store
<1>3. CASE User
  <2>1. UNCHANGED <<store, records, notes>>
    BY <1>3 DEF User, Refresh, OpenModal, CancelModal, Create, Toggle, Delete
  <2> QED BY <1>2, <1>3, <2>1, UserKeepsList
<1>4. ASSUME NEW i \in Calls, Answer(i) PROVE WebhooksInv'
  <2>1. ListInv'
    BY <1>4, ServeLoadKeeps, LoadEndsKeeps, ServeCreateKeeps, CreateEndsKeeps,
       ServeDeleteKeeps, DeleteEndsKeeps DEF Answer, DispatchInv, NotesInv
  <2>2. CASE \/ ServeLoad(i) \/ LoadAnswered(i) \/ LoadLost(i)
             \/ CreateAnswered(i) \/ CreateLost(i)
             \/ DeleteAnswered(i) \/ DeleteLost(i)
    <3>1. UNCHANGED <<store, records, notes>>
      BY <2>2 DEF ServeLoad, LoadAnswered, LoadLost, CreateAnswered, CreateLost,
                  DeleteAnswered, DeleteLost
    <3> QED BY <1>2, <2>1, <3>1
  <2>3. CASE ServeCreate(i)
    <3>1. call[i].events \in SUBSET EventNames
      BY DEF ListInv, CallsTyped, CallRecords
    <3>2. \/ UNCHANGED store
          \/ /\ created < MaxHooks /\ created' = created + 1
             /\ hooks' = hooks \cup {created'}
             /\ want' = [want EXCEPT ![created'] = call[i].events]
      BY <2>3 DEF ServeCreate
    <3>3. UNCHANGED <<records, notes>>
      BY <2>3 DEF ServeCreate
    <3> QED BY <2>1, <3>1, <3>2, <3>3, PageKeepsNotes DEF store
  <2>4. CASE ServeDelete(i)
    <3>1. /\ UNCHANGED <<records, notes, want, created>>
          /\ hooks' \subseteq hooks
      BY <2>4 DEF ServeDelete
    <3> QED BY <2>1, <3>1, PageKeepsNotes
  <2> QED BY <1>4, <2>2, <2>3, <2>4 DEF Answer
<1>5. ASSUME NEW n \in Notes, Notify(n) PROVE WebhooksInv'
  <2>1. /\ UNCHANGED <<hooks, want, created, records, list, selected, call,
                       exact, event, todo, spent, read, called, held, refused>>
        /\ pc[n] = "none" /\ pc' = [pc EXCEPT ![n] = "asked"]
    BY <1>5 DEF Notify, store, view
  <2>2. NotesInv' /\ PassedAccounted' /\ TimeAccounted'
    BY <2>1 DEF DispatchInv, NotesInv, PassedAccounted, TimeAccounted, Late, Wants
  <2> QED BY <1>1, <2>1, <2>2 DEF DispatchInv
<1>6. ASSUME NEW n \in Notes, Dispatch(n) PROVE WebhooksInv'
  <2>1. UNCHANGED <<hooks, list, selected, call, exact>>
    BY <1>6 DEF Dispatch, ListHooks, Skip, Deliver, store, view
  <2>2. DispatchInv'
    BY <1>6, ListHooksKeepsNotes, SkipKeepsNotes, DeliverKeepsNotes DEF Dispatch
  <2> QED BY <1>1, <2>1, <2>2
<1>7. CASE UNCHANGED vars
  BY <1>1, <1>2, <1>7 DEF vars, store, notes
<1> QED BY <1>3, <1>4, <1>5, <1>6, <1>7 DEF Next

(* page.tsx:42-94: at a quiet moment an exact list is the store's, however *)
(* calls overlapped, failed or were lost before.                           *)
THEOREM OneAtATime == Spec => []OneAtATimeIsAccurate
<1>1. WebhooksInv => OneAtATimeIsAccurate
  <2> SUFFICES ASSUME WebhooksInv, Quiet, exact PROVE list = hooks
    BY DEF OneAtATimeIsAccurate
  <2>1. \A i \in Calls : ~Repairs(i)
    BY DEF Quiet, Repairs, InFlight
  <2> QED BY <2>1 DEF WebhooksInv, ListInv, ExactOrRepaired
<1> QED BY <1>1, WebhooksInit, WebhooksNext, PTL DEF Spec

(* dispatcher.go:43, 77-87, 91-144: a notification that is done has called *)
(* every hook it read that wants the event, in time unless the store and   *)
(* the timeouts of the others have room for the whole deadline, and each   *)
(* has its record unless the store did not save it.                        *)
THEOREM EveryHookAccounted == Spec => []EveryHookIsAccounted
<1>1. WebhooksInv => EveryHookIsAccounted
  <2> SUFFICES ASSUME WebhooksInv, NEW n \in Notes, pc[n] = "done",
                      NEW h \in read[n], Wants(h, event[n])
               PROVE  /\ h \in called[n] \/ UsedUp(n)
                      /\ <<n, h>> \in records \cup refused
    BY DEF EveryHookIsAccounted, UsedUp
  <2>1. h \in Hooks /\ h \notin todo[n]
    BY DEF WebhooksInv, DispatchInv, NotesInv
  <2>2. /\ h \in called[n] \/ spent[n] = Deadline
        /\ <<n, h>> \in records \cup refused
    BY <2>1 DEF WebhooksInv, DispatchInv, PassedAccounted, Late
  <2>3. spent[n] = Deadline => UsedUp(n)
    <3> DEFINE room == held[n] + Timeout * Cardinality(called[n])
    <3>1. spent[n] <= room
      BY DEF WebhooksInv, DispatchInv, TimeAccounted
    <3> HIDE DEF room
    <3>2. spent[n] = Deadline => Deadline <= room
      BY <3>1
    <3>3. Deadline <= room => UsedUp(n)
      BY DEF UsedUp, room
    <3> QED BY <3>2, <3>3
  <2> QED BY <2>2, <2>3
<1> QED BY <1>1, WebhooksInit, WebhooksNext, PTL DEF Spec
=============================================================================
