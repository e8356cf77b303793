------------------------------- MODULE Beams -------------------------------
(***************************************************************************)
(* Beams from end to end: the push page of the dashboard                   *)
(* (dashboard/src/app/dashboard/apps/[id]/beams/page.tsx) and the REST     *)
(* service it and every device call (internal/beams/beams.go), over the    *)
(* Postgres store.                                                         *)
(*                                                                         *)
(* A handler that reads the store and writes it later does so in two       *)
(* steps, and any other call may come between them.  Handlers that touch   *)
(* it once are one step.  The errors of most writes are ignored, so any of *)
(* those writes may be lost.  Texts, tokens and metadata are left out, and *)
(* so are the devices the page lists.                                      *)
(***************************************************************************)
EXTENDS Naturals, FiniteSets, Sequences

CONSTANTS
  Users, Interests,
  NoUser,        \* the owner of a device nobody is logged in on
  ListLimit,     \* deliveries a list has at most (50 in the code)
  MaxDevices,    \* bound: registrations
  MaxRequests    \* bound: calls of more than one step

ASSUME BeamsAssumption ==
  /\ MaxDevices \in Nat /\ MaxRequests \in Nat \ {0} /\ ListLimit \in Nat
  /\ NoUser \notin Users /\ Users \cap Interests = {}

Devices == 1..MaxDevices
Requests == 1..MaxRequests

Halves == {"fcm", "apns"}   \* the credentials of an instance

VARIABLES
  provisioned, \* does the app have an instance?
  registered,  \* devices in the store
  nextDevice,  \* device ids given out so far
  owner,       \* user_id of each device
  interests,   \* interests of each device
  stored,      \* credentials of the instance in the store
  receipts,    \* push deliveries in the store, oldest first: the publish,
               \* its sent_count
  told,        \* events handed to the webhook dispatcher
  request,     \* the calls
  instance,    \* the page has an instance
  hasFcm,      \* its has_fcm
  listed,      \* deliveries on the page
  loading, sending, fcmStatus,
  feedback,    \* none, failed, or the publish and sent_count reported
  gone,        \* ghost: devices deleted at some time
  raced,       \* ghost: those a handleSetInterests had in hand at that time
  saved,       \* ghost: credentials some upload was answered "configured" for
  spoiled,     \* ghost: an upload was lost, or overlapped another
  exact        \* ghost: the deliveries were last loaded alone and entirely

phone == <<registered, nextDevice, owner, interests, gone, raced>>
keys  == <<stored, saved, spoiled>>
page  == <<instance, hasFcm, listed, loading, sending, fcmStatus, feedback>>
vars == <<provisioned, registered, nextDevice, owner, interests, stored,
          receipts, told, request, instance, hasFcm, listed, loading, sending,
          fcmStatus, feedback, gone, raced, saved, spoiled, exact>>

Pushes == Requests \X (0..MaxDevices)
None == <<0, 0>>      \* no feedback
Failed == <<0, 1>>

(* A call: what it is, how far it got, whether the page made it; the       *)
(* device or the target it is about, new interests, what it read of the    *)
(* credentials, how many deliveries there were when a load had the app,    *)
(* and whether no other load ran beside it.                                *)
RequestRecords ==
  [kind  : {"none", "load", "push", "interests"} \cup Halves,
   pc    : {"free", "sent", "read", "ok", "refused", "ended"},
   mine  : BOOLEAN, device : Devices \cup {0},
   target : Users \cup Interests \cup {NoUser}, wants : SUBSET Interests,
   count : 0..MaxDevices, copy : SUBSET Halves, seen : Nat, alone : BOOLEAN]

Unused == [kind |-> "none", pc |-> "free", mine |-> FALSE, device |-> 0,
           target |-> NoUser, wants |-> {}, count |-> 0, copy |-> {},
           seen |-> 0, alone |-> FALSE]

Is(i, kind, pc) == request[i].kind = kind /\ request[i].pc = pc

Busy(i) == request[i].pc \notin {"free", "ended"}

LoadsUnderWay == {i \in Requests : request[i].kind = "load" /\ Busy(i)}

Start(record) ==
  \E i \in Requests :
    /\ request[i].pc = "free" /\ \A j \in 1..(i - 1) : request[j].pc # "free"
    /\ request' = [request EXCEPT ![i] = [record EXCEPT !.pc = "sent"]]

End(i) == request' = [request EXCEPT ![i] = [Unused EXCEPT !.pc = "ended"]]

(* A load the page starts in the place of the call that led to it.         *)
Load(i) ==
  request' = [j \in Requests |->
    IF j = i THEN [Unused EXCEPT !.kind = "load", !.pc = "sent", !.mine = TRUE,
                                 !.alone = LoadsUnderWay = {}]
             ELSE [request[j] EXCEPT !.alone = FALSE]]

Tell(events) == told' = IF provisioned THEN told \cup events ELSE told

(* The page is opened, and loads.                                          *)
Init ==
  /\ provisioned \in BOOLEAN
  /\ registered = {} /\ nextDevice = 0 /\ gone = {} /\ raced = {}
  /\ owner = [d \in Devices |-> NoUser] /\ interests = [d \in Devices |-> {}]
  /\ stored = {} /\ saved = {} /\ spoiled = FALSE
  /\ receipts = <<>> /\ told = {}
  /\ request = [i \in Requests |->
       IF i = 1 THEN [Unused EXCEPT !.kind = "load", !.pc = "sent",
                                    !.mine = TRUE, !.alone = TRUE]
                ELSE Unused]
  /\ instance = FALSE /\ hasFcm = FALSE /\ listed = {}
  /\ loading = TRUE /\ sending = FALSE /\ fcmStatus = FALSE
  /\ feedback = None /\ exact = FALSE

----------------------------------------------------------------------------
(* Devices.                                                                *)

Register(u, wants) ==
  /\ nextDevice < MaxDevices /\ nextDevice' = nextDevice + 1
  /\ registered' = registered \cup {nextDevice'}
  /\ owner' = [owner EXCEPT ![nextDevice'] = u]
  /\ interests' = [interests EXCEPT ![nextDevice'] = wants]
  /\ Tell({<<"registered", nextDevice'>>})
  /\ UNCHANGED <<provisioned, keys, receipts, request, page, gone, raced, exact>>

(* Devices that some handleSetInterests has read and will write.           *)
InHand == {request[i].device : i \in {j \in Requests : Is(j, "interests", "read")}}

Remove(ds) ==
  /\ registered' = registered \ ds
  /\ gone' = gone \cup ds
  /\ raced' = raced \cup (ds \cap InHand)

(* An error of the store is ignored, and the webhook told anyway.          *)
DeleteDevice(d) ==
  /\ d <= nextDevice
  /\ Remove({d}) \/ UNCHANGED <<registered, gone, raced>>
  /\ Tell({<<"deleted", d>>})
  /\ UNCHANGED <<provisioned, nextDevice, owner, interests, keys, receipts,
                 request, page, exact>>

(* No event tells of these; an error changes nothing.                      *)
TerminateUser(u) ==
  /\ Remove({d \in registered : owner[d] = u})
  /\ UNCHANGED <<provisioned, nextDevice, owner, interests, keys, receipts,
                 told, request, page, exact>>

SetInterests(d, wants) ==
  /\ d <= nextDevice
  /\ Start([Unused EXCEPT !.kind = "interests", !.device = d, !.wants = wants])
  /\ UNCHANGED <<provisioned, phone, keys, receipts, told, page, exact>>

(* Faulty: no 404 for a device that is not there.                          *)
GetAnyDevice(i) ==
  /\ Is(i, "interests", "sent")
  /\ request' = [request EXCEPT ![i].pc = "read"]
  /\ UNCHANGED <<provisioned, phone, keys, receipts, told, page, exact>>

(* The device is read ...                                                  *)
GetDevice(i) ==
  /\ Is(i, "interests", "sent")
  /\ IF request[i].device \in registered
     THEN request' = [request EXCEPT ![i].pc = "read"]
     ELSE End(i)
  /\ UNCHANGED <<provisioned, phone, keys, receipts, told, page, exact>>

(* ... and the whole of it written back, whether it is still there or not. *)
UpsertDevice(i) ==
  /\ Is(i, "interests", "read")
  /\ \/ /\ registered' = registered \cup {request[i].device}
        /\ interests' = [interests EXCEPT ![request[i].device] = request[i].wants]
     \/ UNCHANGED <<registered, interests>>
  /\ End(i)
  /\ UNCHANGED <<provisioned, nextDevice, owner, gone, raced, keys, receipts,
                 told, page, exact>>

----------------------------------------------------------------------------
(* The page as it is rendered: a spinner while it loads, then what was     *)
(* reported, two forms and the history.                                    *)

(* The targets the form publishes to: an interest or a user, by the type   *)
(* chosen and the name typed; its button is disabled while it is sending.  *)
PublishForm == IF loading \/ sending THEN {} ELSE Users \cup Interests

(* The form of the credentials is there whatever is under way, and says    *)
(* "Configured" or that pushes are simulated.                              *)
CredentialsForm == ~loading
Configured == hasFcm \/ fcmStatus

(* A row for each delivery the page has.                                   *)
Rows == IF loading THEN {} ELSE listed

----------------------------------------------------------------------------
(* Publishing, from the page or by a server of the app.                    *)

PublishByApi(target) ==
  /\ Start([Unused EXCEPT !.kind = "push", !.target = target])
  /\ UNCHANGED <<provisioned, phone, keys, receipts, told, page, exact>>

(* Faulty: the button stays enabled while a push is being sent.            *)
SendPushAgain(target) ==
  /\ ~loading /\ instance
  /\ sending' = TRUE /\ feedback' = None
  /\ Start([Unused EXCEPT !.kind = "push", !.mine = TRUE, !.target = target])
  /\ UNCHANGED <<provisioned, phone, keys, receipts, told, instance, hasFcm,
                 listed, loading, fcmStatus, exact>>

SendPush(target) ==
  /\ target \in PublishForm /\ instance
  /\ sending' = TRUE /\ feedback' = None
  /\ Start([Unused EXCEPT !.kind = "push", !.mine = TRUE, !.target = target])
  /\ UNCHANGED <<provisioned, phone, keys, receipts, told, instance, hasFcm,
                 listed, loading, fcmStatus, exact>>

Matching(target) ==
  {d \in registered : target = owner[d] \/ target \in interests[d]}

(* handlePublishInterests gives up if the devices cannot be read;          *)
(* handlePublishUsers counts none then.                                    *)
ListTargets(i) ==
  /\ Is(i, "push", "sent")
  /\ \/ request' = [request EXCEPT ![i].pc = "read",
                       ![i].count = Cardinality(Matching(request[i].target))]
     \/ /\ request[i].target \in Interests
        /\ request' = [request EXCEPT ![i].pc = "refused"]
     \/ /\ request[i].target \in Users
        /\ request' = [request EXCEPT ![i].pc = "read"]
  /\ UNCHANGED <<provisioned, phone, keys, receipts, told, page, exact>>

(* Nothing is sent in fact: the devices are counted, and that is recorded. *)
(* A broadcast of the HTTP API, to an interest and to channels at once,    *)
(* comes here too and tells no webhook.                                    *)
SavePushDelivery(i) ==
  /\ Is(i, "push", "read")
  /\ receipts' \in {receipts, Append(receipts, <<i, request[i].count>>)}
  /\ \/ Tell({<<"delivered", i>>})
     \/ ~request[i].mine /\ request[i].target \in Interests /\ UNCHANGED told
  /\ request' = [request EXCEPT ![i].pc = "ok"]
  /\ UNCHANGED <<provisioned, phone, keys, page, exact>>

(* Faulty: the receipts are not loaded again.                              *)
PushNotReloaded(i) ==
  /\ Is(i, "push", "ok") /\ request[i].mine
  /\ feedback' = <<i, request[i].count>> /\ sending' = FALSE
  /\ End(i)
  /\ UNCHANGED <<provisioned, phone, keys, receipts, told, instance, hasFcm,
                 listed, loading, fcmStatus, exact>>

PushAnswered(i) ==
  /\ Is(i, "push", "ok") /\ request[i].mine
  /\ feedback' = <<i, request[i].count>> /\ sending' = FALSE
  /\ Load(i)
  /\ UNCHANGED <<provisioned, phone, keys, receipts, told, instance, hasFcm,
                 listed, loading, fcmStatus, exact>>

(* Refused, never sent, or its answer is lost or not JSON.                 *)
PushFailed(i) ==
  /\ request[i].kind = "push" /\ request[i].mine
  /\ request[i].pc \in {"sent", "ok", "refused"}
  /\ feedback' = Failed /\ sending' = FALSE
  /\ End(i)
  /\ UNCHANGED <<provisioned, phone, keys, receipts, told, instance, hasFcm,
                 listed, loading, fcmStatus, exact>>

----------------------------------------------------------------------------
(* Credentials.                                                            *)

UploadByApi(half) ==
  /\ Start([Unused EXCEPT !.kind = half])
  /\ UNCHANGED <<provisioned, phone, keys, receipts, told, page, exact>>

(* It can be sent twice.                                                   *)
SaveFCM ==
  /\ CredentialsForm /\ instance
  /\ Start([Unused EXCEPT !.kind = "fcm", !.mine = TRUE])
  /\ UNCHANGED <<provisioned, phone, keys, receipts, told, page, exact>>

Uploading(i) == request[i].kind \in Halves

(* The instance is read; there may be none, or the upload be malformed ... *)
GetInstance(i) ==
  /\ Uploading(i) /\ request[i].pc = "sent"
  /\ \/ /\ provisioned
        /\ request' = [request EXCEPT ![i].pc = "read", ![i].copy = stored]
     \/ request' = [request EXCEPT ![i].pc = "refused"]
  /\ UNCHANGED <<provisioned, phone, keys, receipts, told, page, exact>>

(* Faulty: only the uploaded half is written.                              *)
StoreHalf(i) ==
  /\ Uploading(i) /\ request[i].pc = "read"
  /\ stored' = {request[i].kind}
  /\ saved' = saved \cup {request[i].kind}
  /\ spoiled' = (spoiled \/ \E j \in Requests \ {i} :
                              Uploading(j) /\ request[j].pc = "read")
  /\ request' = [request EXCEPT ![i].pc = "ok"]
  /\ UNCHANGED <<provisioned, phone, receipts, told, page, exact>>

(* ... and both its halves are written back, one of them new.              *)
UpdateCredentials(i) ==
  /\ Uploading(i) /\ request[i].pc = "read"
  /\ \/ /\ stored' = request[i].copy \cup {request[i].kind}
        /\ spoiled' = (spoiled \/ \E j \in Requests \ {i} :
                                    Uploading(j) /\ request[j].pc = "read")
     \/ UNCHANGED stored /\ spoiled' = TRUE
  /\ saved' = saved \cup {request[i].kind}
  /\ request' = [request EXCEPT ![i].pc = "ok"]
  /\ UNCHANGED <<provisioned, phone, receipts, told, page, exact>>

(* Faulty: whatever the answer, FCM is shown as configured.                *)
SaveFCMAnyAnswer(i) ==
  /\ Is(i, "fcm", "ok") \/ Is(i, "fcm", "refused")
  /\ request[i].mine
  /\ fcmStatus' = TRUE
  /\ Load(i)
  /\ UNCHANGED <<provisioned, phone, keys, receipts, told, instance, hasFcm,
                 listed, loading, sending, feedback, exact>>

SaveFCMAnswered(i) ==
  /\ Is(i, "fcm", "ok") /\ request[i].mine
  /\ fcmStatus' = TRUE
  /\ Load(i)
  /\ UNCHANGED <<provisioned, phone, keys, receipts, told, instance, hasFcm,
                 listed, loading, sending, feedback, exact>>

SaveFCMFailed(i) ==
  /\ request[i].kind = "fcm" /\ request[i].mine
  /\ request[i].pc \in {"sent", "ok", "refused"}
  /\ End(i)
  /\ UNCHANGED <<provisioned, phone, keys, receipts, told, page, exact>>

(* Another program has its answer.                                         *)
ApiAnswered(i) ==
  /\ request[i].kind \in {"push"} \cup Halves /\ ~request[i].mine
  /\ request[i].pc \in {"ok", "refused"}
  /\ End(i)
  /\ UNCHANGED <<provisioned, phone, keys, receipts, told, page, exact>>

----------------------------------------------------------------------------
(* loadBeamsData: the app, and then, if it has an instance, the deliveries.*)

(* A load that ends before the deliveries are in.                          *)
LoadEndsEarly(i) ==
  /\ loading' = FALSE /\ exact' = FALSE
  /\ End(i)

AppArrives(i) ==
  /\ Is(i, "load", "sent")
  /\ instance' = provisioned
  /\ hasFcm' = (provisioned /\ "fcm" \in stored)
  /\ IF provisioned
     THEN /\ request' = [request EXCEPT ![i].pc = "read", ![i].seen = Len(receipts)]
          /\ UNCHANGED <<loading, exact>>
     ELSE LoadEndsEarly(i)
  /\ UNCHANGED <<provisioned, phone, keys, receipts, told, listed, sending,
                 fcmStatus, feedback>>

(* handleListDeliveries: the newest of the first n there were, up to the   *)
(* limit.                                                                  *)
Newest(n) == {receipts[k] : k \in {j \in 1..n : n < j + ListLimit}}

(* They are read some time after the app was.                              *)
DeliveriesArrive(i) ==
  /\ Is(i, "load", "read")
  /\ \E n \in request[i].seen..Len(receipts) : listed' = Newest(n)
  /\ exact' = request[i].alone
  /\ loading' = FALSE
  /\ End(i)
  /\ UNCHANGED <<provisioned, phone, keys, receipts, told, instance, hasFcm,
                 sending, fcmStatus, feedback>>

LoadFails(i) ==
  /\ i \in LoadsUnderWay
  /\ LoadEndsEarly(i)
  /\ UNCHANGED <<provisioned, phone, keys, receipts, told, instance, hasFcm,
                 listed, sending, fcmStatus, feedback>>

----------------------------------------------------------------------------
(* The devices, and servers of the app.                                    *)
Caller ==
  \/ \E u \in Users \cup {NoUser}, wants \in SUBSET Interests : Register(u, wants)
  \/ \E d \in Devices : DeleteDevice(d)
  \/ \E d \in Devices, wants \in SUBSET Interests : SetInterests(d, wants)
  \/ \E u \in Users : TerminateUser(u)
  \/ \E t \in Users \cup Interests : PublishByApi(t)
  \/ \E half \in Halves : UploadByApi(half)

(* The forms of the page.                                                  *)
User == SaveFCM \/ \E t \in Users \cup Interests : SendPush(t)

Answer(i) ==
  \/ GetDevice(i) \/ UpsertDevice(i)
  \/ ListTargets(i) \/ SavePushDelivery(i) \/ PushAnswered(i) \/ PushFailed(i)
  \/ GetInstance(i) \/ UpdateCredentials(i)
  \/ SaveFCMAnswered(i) \/ SaveFCMFailed(i) \/ ApiAnswered(i)
  \/ AppArrives(i) \/ DeliveriesArrive(i) \/ LoadFails(i)

Next == Caller \/ User \/ \E i \in Requests : Answer(i)

Spec == Init /\ [][Next]_vars

----------------------------------------------------------------------------
(* beams.go:212-250, 361-373: a device that was deleted, or whose user was *)
(* terminated, is back in the store only if a change of its interests had  *)
(* read it before.                                                         *)
ReturnsOnlyByOverlap == registered \cap gone \subseteq raced

(* beams.go:405-476: uploads that do not overlap keep each other's half of *)
(* the credentials.                                                        *)
UploadsKeepEachOther == ~spoiled => saved \subseteq stored

(* page.tsx:119-136, 279: the page says "Configured" of credentials the    *)
(* store has, unless an upload overlapped another or was lost.             *)
ConfiguredIsStored == Configured => "fcm" \in stored \/ spoiled

(* page.tsx:71-117, 255-262: the page sends one push at a time, its button *)
(* is disabled as long as that one is under way and no longer, and what it *)
(* says meanwhile is not the outcome of an earlier one.                    *)
SendingIsOneRequest ==
  LET pushes == {i \in Requests : request[i].kind = "push" /\ request[i].mine}
  IN /\ Cardinality(pushes) = (IF sending THEN 1 ELSE 0)
     /\ sending => feedback = None

(* page.tsx:103-108 and 42-69, beams.go:390-404: a push reported as        *)
(* published is in the history below, with the same count, once the page   *)
(* has loaded, unless as many as a list has were published after it; an    *)
(* older load that ends last, or one that fails, may hide it until the     *)
(* next.                                                                   *)
PushedIsListed ==
  LoadsUnderWay = {} /\ exact /\ feedback \in Newest(Len(receipts))
    => feedback \in Rows
=============================================================================
