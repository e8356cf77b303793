---------------------------- MODULE BeamsProofs ----------------------------
(***************************************************************************)
(* What overlapping calls can do to devices and to credentials, for any    *)
(* number of users, interests, devices and calls.                          *)
(*                                                                         *)
(* ReturnsOnlyByOverlap is not inductive: a change of interests that has   *)
(* its device in hand is going to write it back.  It needs that such a     *)
(* device, if deleted meanwhile, counts as raced already.  In the same way *)
(* UploadsKeepEachOther needs that an upload that has read the credentials *)
(* has read those of the store, and ConfiguredIsStored that an upload is   *)
(* answered only after it was saved.                                       *)
(* Of the page, PageInv says that what was reported is reported for good,  *)
(* and that a load alone that has read the deliveries has it among them.   *)
(***************************************************************************)
EXTENDS Beams, FiniteSetTheorems, TLAPS

DevicesTyped ==
  /\ nextDevice \in 0..MaxDevices
  /\ registered \subseteq 1..nextDevice /\ gone \subseteq 1..nextDevice

CallsTyped ==
  /\ request \in [Requests -> RequestRecords]
  /\ stored \subseteq Halves /\ receipts \in Seq(Pushes)

InHandIsKnown ==
  \A i \in Requests : Is(i, "interests", "read") =>
    /\ request[i].device \in 1..nextDevice
    /\ request[i].device \in gone => request[i].device \in raced

CopyIsCurrent ==
  ~spoiled => \A i \in Requests :
    request[i].kind \in Halves /\ request[i].pc = "read" => request[i].copy = stored

AnsweredIsSaved ==
  \A i \in Requests : Is(i, "fcm", "ok") => "fcm" \in saved

(* The inductive invariant.                                                *)
TypesInv == DevicesTyped /\ CallsTyped

DeviceInv == ReturnsOnlyByOverlap /\ InHandIsKnown

KeyInv ==
  UploadsKeepEachOther /\ ConfiguredIsStored /\ CopyIsCurrent /\ AnsweredIsSaved

BeamsInv == TypesInv /\ DeviceInv /\ KeyInv

USE BeamsAssumption DEF BeamsAssumption, Requests, Devices, Halves, Configured

(* A free call slot.                                                       *)
LEMMA UnusedTyped == Unused \in RequestRecords
BY DEF Unused, RequestRecords

(* beams.go:252-274, 310-326: no more devices are counted than there are.  *)
LEMMA CountIsBounded ==
  ASSUME DevicesTyped, NEW target PROVE Cardinality(Matching(target)) \in 0..MaxDevices
<1>1. Matching(target) \subseteq 1..MaxDevices
  <2>1. Matching(target) \subseteq registered
    BY DEF Matching
  <2>2. registered \subseteq 1..nextDevice /\ nextDevice \in 0..MaxDevices
    BY DEF DevicesTyped
  <2>3. \A d \in 1..nextDevice : d \in 1..MaxDevices
    BY <2>2
  <2> QED BY <2>1, <2>2, <2>3
<1>2. IsFiniteSet(1..MaxDevices) /\ Cardinality(1..MaxDevices) = MaxDevices
  BY FS_Interval
<1>3. /\ IsFiniteSet(Matching(target))
      /\ Cardinality(Matching(target)) <= Cardinality(1..MaxDevices)
  BY <1>1, <1>2, FS_Subset
<1>4. Cardinality(Matching(target)) \in Nat
  BY <1>3, FS_CardinalityType
<1> QED BY <1>2, <1>3, <1>4

(* Nothing is stored and nothing is under way in the beginning.            *)
LEMMA BeamsInit == Init => BeamsInv
<1> SUFFICES ASSUME Init PROVE BeamsInv
  OBVIOUS
<1>1. TypesInv
  <2>1. request \in [Requests -> RequestRecords]
    <3>1. [Unused EXCEPT !.kind = "load", !.pc = "sent", !.mine = TRUE, !.alone = TRUE]
            \in RequestRecords
      BY UnusedTyped DEF RequestRecords
    <3> QED
      BY <3>1, UnusedTyped DEF Init
  <2>2. receipts \in Seq(Pushes) /\ stored \subseteq Halves
    BY DEF Init
  <2> QED
    BY <2>1, <2>2 DEF Init, TypesInv, DevicesTyped, CallsTyped
<1>2. DeviceInv
  BY DEF Init, DeviceInv, ReturnsOnlyByOverlap, InHandIsKnown, Is, Unused
<1>3. KeyInv
  BY DEF Init, KeyInv, UploadsKeepEachOther, ConfiguredIsStored, CopyIsCurrent,
         AnsweredIsSaved, Is, Unused
<1> QED BY <1>1, <1>2, <1>3 DEF BeamsInv

----------------------------------------------------------------------------
(* How a step may change the calls: nothing that the invariant speaks of   *)
(* becomes true of a call by its being started, ended or answered.         *)

Harmless(r) ==
  /\ r \in RequestRecords
  /\ r.pc = "read" => r.kind \notin {"interests"} \cup Halves
  /\ r.pc = "ok" => r.kind # "fcm"

(* Each call stays as it is, or becomes harmless.                          *)
HarmlessStep ==
  /\ request' \in [Requests -> RequestRecords]
  /\ \A i \in Requests :
       \/ Harmless(request'[i])
       \/ /\ request'[i].kind = request[i].kind /\ request'[i].pc = request[i].pc
          /\ request'[i].device = request[i].device
          /\ request'[i].copy = request[i].copy

(* A call that starts takes a free slot and has read nothing yet.          *)
LEMMA StartIsHarmless ==
  ASSUME CallsTyped, NEW record \in RequestRecords, Start(record)
  PROVE  HarmlessStep
<1>1. PICK i \in Requests :
        request' = [request EXCEPT ![i] = [record EXCEPT !.pc = "sent"]]
  BY DEF Start
<1>2. [record EXCEPT !.pc = "sent"] \in RequestRecords
  BY DEF RequestRecords
<1>3. [record EXCEPT !.pc = "sent"].pc = "sent"
  BY DEF RequestRecords
<1>4. Harmless([record EXCEPT !.pc = "sent"])
  BY <1>2, <1>3 DEF Harmless
<1> QED BY <1>1, <1>2, <1>4 DEF HarmlessStep, CallsTyped

(* A call that ends lets go of its device and its copy.                    *)
LEMMA EndIsHarmless ==
  ASSUME CallsTyped, NEW i \in Requests, End(i) PROVE HarmlessStep
<1>1. /\ [Unused EXCEPT !.pc = "ended"] \in RequestRecords
      /\ [Unused EXCEPT !.pc = "ended"].pc = "ended"
  BY UnusedTyped DEF RequestRecords
<1>2. Harmless([Unused EXCEPT !.pc = "ended"])
  BY <1>1 DEF Harmless
<1> QED BY <1>1, <1>2 DEF End, HarmlessStep, CallsTyped

(* A load of the page writes neither devices nor credentials.              *)
LEMMA LoadIsHarmless ==
  ASSUME CallsTyped, NEW i \in Requests, Load(i) PROVE HarmlessStep
<1>1. PICK b \in BOOLEAN : request' = [j \in Requests |->
        IF j = i THEN [Unused EXCEPT !.kind = "load", !.pc = "sent",
                                     !.mine = TRUE, !.alone = b]
                 ELSE [request[j] EXCEPT !.alone = FALSE]]
  <2>1. (LoadsUnderWay = {}) \in BOOLEAN
    OBVIOUS
  <2> QED BY <2>1 DEF Load
<1>2. request'[i] = [Unused EXCEPT !.kind = "load", !.pc = "sent",
                                   !.mine = TRUE, !.alone = b]
  BY <1>1
<1>3. /\ request'[i] \in RequestRecords /\ request'[i].pc = "sent"
  BY <1>2, UnusedTyped DEF RequestRecords
<1>4. Harmless(request'[i])
  BY <1>3 DEF Harmless
<1>5. ASSUME NEW j \in Requests, j # i
      PROVE /\ request'[j] \in RequestRecords
            /\ request'[j].kind = request[j].kind /\ request'[j].pc = request[j].pc
            /\ request'[j].device = request[j].device
            /\ request'[j].copy = request[j].copy
  <2>1. request'[j] = [request[j] EXCEPT !.alone = FALSE]
    BY <1>1, <1>5
  <2>2. request[j] \in RequestRecords
    BY DEF CallsTyped
  <2> QED BY <2>1, <2>2 DEF RequestRecords
<1>6. request' \in [Requests -> RequestRecords]
  BY <1>1, <1>3, <1>5
<1> QED BY <1>4, <1>5, <1>6 DEF HarmlessStep

(* A call that goes on, of a kind the invariant does not speak of.         *)
LEMMA UpdateIsHarmless ==
  ASSUME CallsTyped, NEW i \in Requests, NEW r, Harmless(r),
         request' = [request EXCEPT ![i] = r]
  PROVE  HarmlessStep
BY DEF HarmlessStep, CallsTyped, Harmless

(* The half about devices under a step that leaves the store's devices     *)
(* alone.                                                                  *)
LEMMA HarmlessKeepsDevices ==
  ASSUME DevicesTyped, DeviceInv, HarmlessStep,
         UNCHANGED <<registered, nextDevice, gone, raced>>
  PROVE  DevicesTyped' /\ DeviceInv'
BY DEF DevicesTyped, DeviceInv, ReturnsOnlyByOverlap, InHandIsKnown, Is,
       HarmlessStep, Harmless

(* The half about credentials under a step that leaves the stored ones     *)
(* alone.                                                                  *)
LEMMA HarmlessKeepsKeys ==
  ASSUME KeyInv, HarmlessStep, UNCHANGED keys, UNCHANGED <<hasFcm, fcmStatus>>
  PROVE  KeyInv'
<1>1. UploadsKeepEachOther' /\ ConfiguredIsStored'
  BY DEF KeyInv, UploadsKeepEachOther, ConfiguredIsStored, keys
<1>2. CopyIsCurrent'
  BY DEF KeyInv, CopyIsCurrent, HarmlessStep, Harmless, keys
<1>3. AnsweredIsSaved'
  BY DEF KeyInv, AnsweredIsSaved, Is, HarmlessStep, Harmless, keys
<1> QED BY <1>1, <1>2, <1>3 DEF KeyInv

(* Most steps: calls are started, ended or answered.                       *)
LEMMA HarmlessKeeps ==
  ASSUME BeamsInv, HarmlessStep, UNCHANGED phone, UNCHANGED keys,
         UNCHANGED <<hasFcm, fcmStatus, receipts>>
  PROVE  BeamsInv'
<1>1. DevicesTyped' /\ DeviceInv'
  BY HarmlessKeepsDevices DEF BeamsInv, TypesInv, phone
<1>2. KeyInv'
  BY HarmlessKeepsKeys DEF BeamsInv
<1>3. CallsTyped'
  BY DEF BeamsInv, TypesInv, CallsTyped, HarmlessStep, keys
<1> QED BY <1>1, <1>2, <1>3 DEF BeamsInv, TypesInv

----------------------------------------------------------------------------
(* The other steps.                                                        *)

(* beams.go:120-164, 212-227, 361-373: devices come and go; no call does.  *)
LEMMA DevicesComeAndGo ==
  ASSUME BeamsInv, UNCHANGED <<keys, hasFcm, fcmStatus, receipts, request>>,
         DevicesTyped', DeviceInv'
  PROVE  BeamsInv'
<1>1. HarmlessStep
  BY DEF BeamsInv, TypesInv, CallsTyped, HarmlessStep
<1>2. KeyInv'
  BY <1>1, HarmlessKeepsKeys DEF BeamsInv
<1>3. CallsTyped'
  BY DEF BeamsInv, TypesInv, CallsTyped, keys
<1> QED BY <1>2, <1>3 DEF BeamsInv, TypesInv

(* beams.go: a new device has a number nobody has in hand yet.             *)
LEMMA RegisterKeeps ==
  ASSUME BeamsInv, NEW u, NEW wants, Register(u, wants) PROVE BeamsInv'
<1>1. /\ nextDevice' = nextDevice + 1 /\ nextDevice' \in 0..MaxDevices
      /\ registered' = registered \cup {nextDevice'}
      /\ UNCHANGED <<gone, raced, request, keys, hasFcm, fcmStatus, receipts>>
  BY DEF Register, BeamsInv, TypesInv, DevicesTyped, page
<1>2. DevicesTyped'
  BY <1>1 DEF BeamsInv, TypesInv, DevicesTyped
<1>3. ReturnsOnlyByOverlap'
  BY <1>1 DEF BeamsInv, TypesInv, DevicesTyped, DeviceInv, ReturnsOnlyByOverlap
<1>4. InHandIsKnown'
  BY <1>1 DEF BeamsInv, TypesInv, DevicesTyped, DeviceInv, InHandIsKnown, Is
<1> QED BY <1>1, <1>2, <1>3, <1>4, DevicesComeAndGo DEF DeviceInv

(* Deleting devices marks those a change of interests has in hand as       *)
(* raced.                                                                  *)
LEMMA RemoveKeeps ==
  ASSUME BeamsInv, NEW ds \in SUBSET (1..nextDevice), Remove(ds),
         UNCHANGED <<nextDevice, request, keys, hasFcm, fcmStatus, receipts>>
  PROVE  BeamsInv'
<1>1. DevicesTyped'
  BY DEF Remove, BeamsInv, TypesInv, DevicesTyped
<1>2. ReturnsOnlyByOverlap'
  BY DEF Remove, BeamsInv, DeviceInv, ReturnsOnlyByOverlap
<1>3. InHandIsKnown'
  BY DEF Remove, InHand, BeamsInv, DeviceInv, InHandIsKnown, Is
<1> QED BY <1>1, <1>2, <1>3, DevicesComeAndGo DEF DeviceInv

(* beams.go:229-250: a device is written back only after it was found.     *)
LEMMA GetDeviceKeeps ==
  ASSUME BeamsInv, NEW i \in Requests, GetDevice(i) PROVE BeamsInv'
<1>1. CASE request[i].device \notin registered
  <2>1. HarmlessStep
    BY <1>1, EndIsHarmless DEF GetDevice, BeamsInv, TypesInv
  <2> QED BY <2>1, HarmlessKeeps DEF GetDevice, page
<1>2. CASE request[i].device \in registered
  <2>1. /\ request' = [request EXCEPT ![i].pc = "read"]
        /\ request[i].kind = "interests"
        /\ UNCHANGED <<phone, keys, receipts, page>>
    BY <1>2 DEF GetDevice, Is
  <2>2. CallsTyped'
    <3>1. request[i] \in RequestRecords
      BY DEF BeamsInv, TypesInv, CallsTyped
    <3>2. [request[i] EXCEPT !.pc = "read"] \in RequestRecords
      BY <3>1 DEF RequestRecords
    <3>3. request' \in [Requests -> RequestRecords]
      BY <2>1, <3>2 DEF BeamsInv, TypesInv, CallsTyped
    <3> QED BY <2>1, <3>3 DEF BeamsInv, TypesInv, CallsTyped, keys
  <2>3. DevicesTyped' /\ ReturnsOnlyByOverlap'
    BY <2>1 DEF BeamsInv, TypesInv, DevicesTyped, DeviceInv,
                ReturnsOnlyByOverlap, phone
  <2>4. /\ request[i].device \in 1..nextDevice
        /\ request[i].device \in gone => request[i].device \in raced
    BY <1>2 DEF BeamsInv, TypesInv, DevicesTyped, DeviceInv,
                ReturnsOnlyByOverlap
  <2>5. InHandIsKnown'
    BY <2>1, <2>4 DEF BeamsInv, TypesInv, CallsTyped, RequestRecords, DeviceInv,
                      InHandIsKnown, Is, phone
  <2>6. KeyInv'
    <3>1. CopyIsCurrent'
      BY <2>1 DEF BeamsInv, TypesInv, CallsTyped, RequestRecords, KeyInv,
                  CopyIsCurrent, keys
    <3>2. AnsweredIsSaved'
      BY <2>1 DEF BeamsInv, TypesInv, CallsTyped, RequestRecords, KeyInv,
                  AnsweredIsSaved, Is, keys
    <3> QED
      BY <2>1, <3>1, <3>2 DEF BeamsInv, KeyInv, UploadsKeepEachOther,
                              ConfiguredIsStored, keys, page
  <2> QED BY <2>2, <2>3, <2>5, <2>6 DEF BeamsInv, TypesInv, DeviceInv
<1> QED BY <1>1, <1>2

(* The write-back of a device: one that was deleted meanwhile is raced     *)
(* already.                                                                *)
LEMMA UpsertDeviceKeeps ==
  ASSUME BeamsInv, NEW i \in Requests, UpsertDevice(i) PROVE BeamsInv'
<1>1. HarmlessStep
  BY EndIsHarmless DEF UpsertDevice, BeamsInv, TypesInv
<1>2. /\ registered' \in {registered, registered \cup {request[i].device}}
      /\ UNCHANGED <<nextDevice, gone, raced, keys, receipts, hasFcm, fcmStatus>>
      /\ Is(i, "interests", "read")
  BY DEF UpsertDevice, page
<1>3. /\ request[i].device \in 1..nextDevice
      /\ request[i].device \in gone => request[i].device \in raced
  BY <1>2 DEF BeamsInv, DeviceInv, InHandIsKnown
<1>4. DevicesTyped' /\ ReturnsOnlyByOverlap'
  BY <1>2, <1>3 DEF BeamsInv, TypesInv, DevicesTyped, DeviceInv,
                    ReturnsOnlyByOverlap
<1>5. InHandIsKnown'
  BY <1>1, <1>2 DEF BeamsInv, DeviceInv, InHandIsKnown, Is, HarmlessStep, Harmless
<1>6. KeyInv'
  BY <1>1, <1>2, HarmlessKeepsKeys DEF BeamsInv
<1>7. CallsTyped'
  BY <1>1, <1>2 DEF BeamsInv, TypesInv, CallsTyped, HarmlessStep, keys
<1> QED BY <1>4, <1>5, <1>6, <1>7 DEF BeamsInv, TypesInv, DeviceInv

(* beams.go:405-419: an upload has the credentials of the store in hand.   *)
LEMMA GetInstanceKeeps ==
  ASSUME BeamsInv, NEW i \in Requests, GetInstance(i) PROVE BeamsInv'
<1>1. /\ request[i] \in RequestRecords /\ request[i].kind \in Halves
      /\ stored \subseteq Halves
      /\ UNCHANGED <<phone, keys, receipts, page>>
  BY DEF GetInstance, Uploading, BeamsInv, TypesInv, CallsTyped
<1>2. CASE request' = [request EXCEPT ![i].pc = "refused"]
  <2>1. request' = [request EXCEPT ![i] = [request[i] EXCEPT !.pc = "refused"]]
    BY <1>2
  <2>2. Harmless([request[i] EXCEPT !.pc = "refused"])
    BY <1>1 DEF Harmless, RequestRecords
  <2>3. HarmlessStep
    BY <2>1, <2>2, UpdateIsHarmless DEF BeamsInv, TypesInv
  <2> QED BY <1>1, <2>3, HarmlessKeeps DEF page
<1>3. CASE request' = [request EXCEPT ![i].pc = "read", ![i].copy = stored]
  <2> DEFINE r == [request[i] EXCEPT !.pc = "read", !.copy = stored]
  <2>1. request' = [request EXCEPT ![i] = r]
    BY <1>3
  <2>2. /\ r \in RequestRecords /\ r.kind = request[i].kind /\ r.pc = "read"
        /\ r.copy = stored
    BY <1>1 DEF RequestRecords
  <2> HIDE DEF r
  <2>3. CallsTyped'
    BY <1>1, <2>1, <2>2 DEF BeamsInv, TypesInv, CallsTyped, keys
  <2>4. DevicesTyped' /\ ReturnsOnlyByOverlap'
    BY <1>1 DEF BeamsInv, TypesInv, DevicesTyped, DeviceInv,
                ReturnsOnlyByOverlap, phone
  <2>5. InHandIsKnown'
    BY <1>1, <2>1, <2>2 DEF BeamsInv, TypesInv, CallsTyped, DeviceInv,
                            InHandIsKnown, Is, phone
  <2>6. CopyIsCurrent'
    BY <1>1, <2>1, <2>2 DEF BeamsInv, TypesInv, CallsTyped, KeyInv,
                            CopyIsCurrent, keys
  <2>7. AnsweredIsSaved'
    BY <1>1, <2>1, <2>2 DEF BeamsInv, TypesInv, CallsTyped, KeyInv,
                            AnsweredIsSaved, Is, keys
  <2>8. UploadsKeepEachOther' /\ ConfiguredIsStored'
    BY <1>1 DEF BeamsInv, KeyInv, UploadsKeepEachOther, ConfiguredIsStored,
                keys, page
  <2> QED BY <2>3, <2>4, <2>5, <2>6, <2>7, <2>8
          DEF BeamsInv, TypesInv, DeviceInv, KeyInv
<1> QED BY <1>2, <1>3 DEF GetInstance

(* beams.go:427-434: writing them back loses nothing, unless another upload*)
(* has read them too, and is going to write back what it read.             *)
LEMMA UpdateCredentialsKeeps ==
  ASSUME BeamsInv, NEW i \in Requests, UpdateCredentials(i) PROVE BeamsInv'
<1> DEFINE r == [request[i] EXCEPT !.pc = "ok"]
<1>1. /\ request[i] \in RequestRecords /\ request[i].kind \in Halves
      /\ request[i].pc = "read"
      /\ UNCHANGED <<phone, receipts, page>>
      /\ saved' = saved \cup {request[i].kind}
      /\ request' = [request EXCEPT ![i] = r]
  BY DEF UpdateCredentials, Uploading, BeamsInv, TypesInv, CallsTyped
<1>2. /\ r \in RequestRecords /\ r.kind = request[i].kind /\ r.pc = "ok"
  BY <1>1 DEF RequestRecords
<1> HIDE DEF r
<1>3. /\ stored' \in {stored, request[i].copy \cup {request[i].kind}}
      /\ ~spoiled' => /\ ~spoiled
                      /\ stored' = request[i].copy \cup {request[i].kind}
                      /\ \A j \in Requests \ {i} :
                           ~(request[j].kind \in Halves /\ request[j].pc = "read")
  BY DEF UpdateCredentials, Uploading
<1>4. CallsTyped'
  <2>1. request[i].copy \subseteq Halves
    BY <1>1 DEF RequestRecords
  <2> QED BY <1>1, <1>2, <1>3, <2>1 DEF BeamsInv, TypesInv, CallsTyped
<1>5. DevicesTyped' /\ ReturnsOnlyByOverlap'
  BY <1>1 DEF BeamsInv, TypesInv, DevicesTyped, DeviceInv, ReturnsOnlyByOverlap,
              phone
<1>6. InHandIsKnown'
  BY <1>1, <1>2 DEF BeamsInv, TypesInv, CallsTyped, DeviceInv, InHandIsKnown, Is,
                    phone
<1>7. ~spoiled' => ~spoiled /\ stored' = stored \cup {request[i].kind}
  BY <1>1, <1>3 DEF BeamsInv, KeyInv, CopyIsCurrent
<1>8. UploadsKeepEachOther'
  BY <1>1, <1>7 DEF BeamsInv, KeyInv, UploadsKeepEachOther
<1>9. ConfiguredIsStored'
  BY <1>1, <1>7 DEF BeamsInv, KeyInv, ConfiguredIsStored, page
<1>10. CopyIsCurrent'
  BY <1>1, <1>2, <1>3 DEF BeamsInv, TypesInv, CallsTyped, CopyIsCurrent
<1>11. AnsweredIsSaved'
  BY <1>1, <1>2 DEF BeamsInv, TypesInv, CallsTyped, KeyInv, AnsweredIsSaved, Is
<1> QED BY <1>4, <1>5, <1>6, <1>8, <1>9, <1>10, <1>11
        DEF BeamsInv, TypesInv, DeviceInv, KeyInv

(* page.tsx:42-50, 128-131: what the page says of the credentials is what  *)
(* the store had, or what an upload was answered.                          *)
LEMMA PageLearns ==
  ASSUME BeamsInv, HarmlessStep, UNCHANGED phone, UNCHANGED keys,
         UNCHANGED receipts,
         hasFcm' \/ fcmStatus' => hasFcm \/ fcmStatus \/ "fcm" \in stored
                                    \/ "fcm" \in saved
  PROVE  BeamsInv'
<1>1. DevicesTyped' /\ DeviceInv'
  BY HarmlessKeepsDevices DEF BeamsInv, TypesInv, phone
<1>2. CallsTyped'
  BY DEF BeamsInv, TypesInv, CallsTyped, HarmlessStep, keys
<1>3. UploadsKeepEachOther' /\ ConfiguredIsStored'
  BY DEF BeamsInv, KeyInv, UploadsKeepEachOther, ConfiguredIsStored, keys
<1>4. CopyIsCurrent'
  BY DEF BeamsInv, KeyInv, CopyIsCurrent, HarmlessStep, Harmless, keys
<1>5. AnsweredIsSaved'
  BY DEF BeamsInv, KeyInv, AnsweredIsSaved, Is, HarmlessStep, Harmless, keys
<1> QED BY <1>1, <1>2, <1>3, <1>4, <1>5 DEF BeamsInv, TypesInv, KeyInv

(* beams.go:252-274, 310-326: the devices are counted, or cannot be read.  *)
LEMMA Targets ==
  ASSUME BeamsInv, NEW i \in Requests, ListTargets(i)
  PROVE  \E n \in 0..MaxDevices, pc \in {"read", "refused"} :
           request' = [request EXCEPT ![i] = [request[i] EXCEPT !.pc = pc, !.count = n]]
<1>1. request[i] \in RequestRecords
  BY DEF BeamsInv, TypesInv, CallsTyped
<1>2. CASE request' = [request EXCEPT ![i].pc = "read",
                         ![i].count = Cardinality(Matching(request[i].target))]
  <2>1. Cardinality(Matching(request[i].target)) \in 0..MaxDevices
    BY CountIsBounded DEF BeamsInv, TypesInv
  <2> QED BY <1>2, <2>1
<1>3. ASSUME NEW pc \in {"read", "refused"},
             request' = [request EXCEPT ![i].pc = pc]
      PROVE  /\ request[i].count \in 0..MaxDevices
             /\ request' = [request EXCEPT ![i] =
                  [request[i] EXCEPT !.pc = pc, !.count = request[i].count]]
  <2>1. [request[i] EXCEPT !.pc = pc]
          = [request[i] EXCEPT !.pc = pc, !.count = request[i].count]
    BY <1>1 DEF RequestRecords
  <2> QED BY <1>1, <1>3, <2>1 DEF RequestRecords
<1> QED BY <1>2, <1>3 DEF ListTargets

(* A push reads the devices and has none in hand.                          *)
LEMMA ListTargetsKeeps ==
  ASSUME BeamsInv, NEW i \in Requests, ListTargets(i) PROVE BeamsInv'
<1>1. /\ request[i] \in RequestRecords /\ request[i].kind = "push"
      /\ UNCHANGED <<phone, keys, receipts, page>>
  BY DEF ListTargets, Is, BeamsInv, TypesInv, CallsTyped
<1>2. PICK n \in 0..MaxDevices, pc \in {"read", "refused"} :
        request' = [request EXCEPT ![i] = [request[i] EXCEPT !.pc = pc, !.count = n]]
  BY Targets
<1>3. Harmless([request[i] EXCEPT !.pc = pc, !.count = n])
  BY <1>1 DEF Harmless, RequestRecords
<1>4. HarmlessStep
  BY <1>2, <1>3, UpdateIsHarmless DEF BeamsInv, TypesInv
<1> QED BY <1>1, <1>4, HarmlessKeeps DEF page

(* A push adds a receipt and touches no device.                            *)
LEMMA SavePushDeliveryKeeps ==
  ASSUME BeamsInv, NEW i \in Requests, SavePushDelivery(i) PROVE BeamsInv'
<1>1. /\ request[i] \in RequestRecords /\ request[i].kind = "push"
      /\ request' = [request EXCEPT ![i] = [request[i] EXCEPT !.pc = "ok"]]
      /\ UNCHANGED <<phone, keys, page>>
  BY DEF SavePushDelivery, Is, BeamsInv, TypesInv, CallsTyped
<1>2. Harmless([request[i] EXCEPT !.pc = "ok"])
  BY <1>1 DEF Harmless, RequestRecords
<1>3. HarmlessStep
  BY <1>1, <1>2, UpdateIsHarmless DEF BeamsInv, TypesInv
<1>4. DevicesTyped' /\ DeviceInv' /\ KeyInv'
  BY <1>1, <1>3, HarmlessKeepsDevices, HarmlessKeepsKeys
  DEF BeamsInv, TypesInv, phone, page
<1>5. request[i].count \in 0..MaxDevices
  BY <1>1 DEF RequestRecords
<1>6. receipts' \in Seq(Pushes)
  <2>1. <<i, request[i].count>> \in Pushes /\ receipts \in Seq(Pushes)
    BY <1>5 DEF Pushes, BeamsInv, TypesInv, CallsTyped
  <2>2. \A push \in Pushes : Append(receipts, push) \in Seq(Pushes)
    BY <2>1
  <2>3. receipts' \in {receipts, Append(receipts, <<i, request[i].count>>)}
    BY DEF SavePushDelivery
  <2> QED
    BY <2>1, <2>2, <2>3
<1>7. CallsTyped'
  BY <1>1, <1>3, <1>6 DEF BeamsInv, TypesInv, CallsTyped, HarmlessStep, keys
<1> QED BY <1>4, <1>7 DEF BeamsInv, TypesInv

(* The app that arrives says of the credentials what is stored.            *)
LEMMA AppArrivesKeeps ==
  ASSUME BeamsInv, NEW i \in Requests, AppArrives(i) PROVE BeamsInv'
<1>1. /\ request[i] \in RequestRecords /\ request[i].kind = "load"
      /\ receipts \in Seq(Pushes)
      /\ UNCHANGED <<phone, keys, receipts, fcmStatus>>
  BY DEF AppArrives, Is, BeamsInv, TypesInv, CallsTyped
<1>2. HarmlessStep
  <2>1. CASE request' = [request EXCEPT ![i].pc = "read", ![i].seen = Len(receipts)]
    <3>1. request' = [request EXCEPT ![i] =
                        [request[i] EXCEPT !.pc = "read", !.seen = Len(receipts)]]
      BY <2>1
    <3>2. Harmless([request[i] EXCEPT !.pc = "read", !.seen = Len(receipts)])
      <4>1. Len(receipts) \in Nat
        BY <1>1
      <4> HIDE DEF Pushes
      <4> QED
        BY <1>1, <4>1 DEF Harmless, RequestRecords
    <3> QED BY <3>1, <3>2, UpdateIsHarmless DEF BeamsInv, TypesInv
  <2>2. CASE End(i)
    BY <2>2, EndIsHarmless DEF BeamsInv, TypesInv
  <2> QED BY <2>1, <2>2 DEF AppArrives, LoadEndsEarly
<1>3. hasFcm' => "fcm" \in stored
  BY DEF AppArrives
<1> QED BY <1>1, <1>2, <1>3, PageLearns

(* beams.go:95-117, page.tsx:42-136: every step keeps the invariant.       *)
LEMMA BeamsNext == BeamsInv /\ [Next]_vars => BeamsInv'
<1> SUFFICES ASSUME BeamsInv, [Next]_vars PROVE BeamsInv'
  OBVIOUS
<1>0. CallsTyped
  BY DEF BeamsInv, TypesInv
<1>1. ASSUME NEW u \in Users \cup {NoUser}, NEW wants \in SUBSET Interests,
             Register(u, wants)
      PROVE  BeamsInv'
  BY <1>1, RegisterKeeps
<1>2. ASSUME NEW d \in Devices, DeleteDevice(d) PROVE BeamsInv'
  <2>1. {d} \in SUBSET (1..nextDevice) /\ {} \in SUBSET (1..nextDevice)
    BY <1>2 DEF DeleteDevice, BeamsInv, TypesInv, DevicesTyped
  <2>2. Remove({d}) \/ UNCHANGED <<registered, gone, raced>>
    BY <1>2 DEF DeleteDevice
  <2>3. UNCHANGED <<registered, gone, raced>> => Remove({})
    BY DEF Remove
  <2>4. UNCHANGED <<nextDevice, request, keys, hasFcm, fcmStatus, receipts>>
    BY <1>2 DEF DeleteDevice, page
  <2> QED BY <2>1, <2>2, <2>3, <2>4, RemoveKeeps
<1>3. ASSUME NEW u \in Users, TerminateUser(u) PROVE BeamsInv'
  <2>1. {d \in registered : owner[d] = u} \in SUBSET (1..nextDevice)
    BY DEF BeamsInv, TypesInv, DevicesTyped
  <2> QED BY <1>3, <2>1, RemoveKeeps DEF TerminateUser, page
<1>4. ASSUME NEW d \in Devices, NEW wants \in SUBSET Interests,
             SetInterests(d, wants)
      PROVE  BeamsInv'
  <2>1. [Unused EXCEPT !.kind = "interests", !.device = d, !.wants = wants]
          \in RequestRecords
    BY UnusedTyped DEF RequestRecords
  <2> QED BY <1>0, <1>4, <2>1, StartIsHarmless, HarmlessKeeps
          DEF SetInterests, page
<1>5. ASSUME NEW t \in Users \cup Interests, PublishByApi(t) PROVE BeamsInv'
  <2>1. [Unused EXCEPT !.kind = "push", !.target = t] \in RequestRecords
    BY UnusedTyped DEF RequestRecords
  <2> QED BY <1>0, <1>5, <2>1, StartIsHarmless, HarmlessKeeps
          DEF PublishByApi, page
<1>6. ASSUME NEW half \in Halves, UploadByApi(half) PROVE BeamsInv'
  <2>1. [Unused EXCEPT !.kind = half] \in RequestRecords
    BY UnusedTyped DEF RequestRecords
  <2> QED BY <1>0, <1>6, <2>1, StartIsHarmless, HarmlessKeeps
          DEF UploadByApi, page
<1>7. CASE SaveFCM
  <2>1. [Unused EXCEPT !.kind = "fcm", !.mine = TRUE] \in RequestRecords
    BY UnusedTyped DEF RequestRecords
  <2> QED BY <1>0, <1>7, <2>1, StartIsHarmless, HarmlessKeeps DEF SaveFCM, page
<1>8. ASSUME NEW t \in Users \cup Interests, SendPush(t) PROVE BeamsInv'
  <2>1. [Unused EXCEPT !.kind = "push", !.mine = TRUE, !.target = t]
          \in RequestRecords
    BY UnusedTyped DEF RequestRecords
  <2> QED BY <1>0, <1>8, <2>1, StartIsHarmless, HarmlessKeeps DEF SendPush
<1>9. ASSUME NEW i \in Requests, GetDevice(i) \/ UpsertDevice(i) PROVE BeamsInv'
  BY <1>9, GetDeviceKeeps, UpsertDeviceKeeps
<1>10. ASSUME NEW i \in Requests, ListTargets(i) \/ SavePushDelivery(i)
       PROVE  BeamsInv'
  BY <1>10, ListTargetsKeeps, SavePushDeliveryKeeps
<1>11. ASSUME NEW i \in Requests, GetInstance(i) \/ UpdateCredentials(i)
       PROVE  BeamsInv'
  BY <1>11, GetInstanceKeeps, UpdateCredentialsKeeps
<1>12. ASSUME NEW i \in Requests, PushAnswered(i) PROVE BeamsInv'
  BY <1>0, <1>12, LoadIsHarmless, HarmlessKeeps DEF PushAnswered
<1>13. ASSUME NEW i \in Requests,
              PushFailed(i) \/ DeliveriesArrive(i)
       PROVE  BeamsInv'
  BY <1>0, <1>13, EndIsHarmless, HarmlessKeeps DEF PushFailed, DeliveriesArrive
<1>14. ASSUME NEW i \in Requests, SaveFCMFailed(i) \/ ApiAnswered(i)
       PROVE  BeamsInv'
  BY <1>0, <1>14, EndIsHarmless, HarmlessKeeps
  DEF SaveFCMFailed, ApiAnswered, page
<1>15. ASSUME NEW i \in Requests, LoadFails(i) PROVE BeamsInv'
  BY <1>0, <1>15, EndIsHarmless, HarmlessKeeps DEF LoadFails, LoadEndsEarly
<1>16. ASSUME NEW i \in Requests, SaveFCMAnswered(i) PROVE BeamsInv'
  <2>1. "fcm" \in saved
    BY <1>16 DEF SaveFCMAnswered, BeamsInv, KeyInv, AnsweredIsSaved
  <2> QED BY <1>0, <1>16, <2>1, LoadIsHarmless, PageLearns DEF SaveFCMAnswered
<1>17. ASSUME NEW i \in Requests, AppArrives(i) PROVE BeamsInv'
  BY <1>17, AppArrivesKeeps
<1>18. CASE UNCHANGED vars
  <2>1. HarmlessStep
    BY <1>0, <1>18 DEF vars, HarmlessStep, CallsTyped
  <2> QED BY <1>18, <2>1, HarmlessKeeps DEF vars, phone, keys
<1> QED
  BY <1>1, <1>2, <1>3, <1>4, <1>5, <1>6, <1>7, <1>8, <1>9, <1>10, <1>11, <1>12,
     <1>13, <1>14, <1>15, <1>16, <1>17, <1>18
  DEF Next, Caller, User, Answer

(* BeamsInv is inductive.                                                  *)
LEMMA BeamsAlways == Spec => []BeamsInv
<1>1. Init => BeamsInv
  BY BeamsInit
<1>2. BeamsInv /\ [Next]_vars => BeamsInv'
  BY BeamsNext
<1> QED BY <1>1, <1>2, PTL DEF Spec

(* beams.go:212-250, 361-373: a device that was deleted is back only if a  *)
(* change of its interests had it in hand at the time.                     *)
THEOREM DeletedStaysDeleted == Spec => []ReturnsOnlyByOverlap
<1>1. BeamsInv => ReturnsOnlyByOverlap
  BY DEF BeamsInv, DeviceInv
<1> QED BY <1>1, BeamsAlways, PTL

(* beams.go:405-476: uploads that do not overlap keep each other's half.   *)
THEOREM HalvesAreKept == Spec => []UploadsKeepEachOther
<1>1. BeamsInv => UploadsKeepEachOther
  BY DEF BeamsInv, KeyInv
<1> QED BY <1>1, BeamsAlways, PTL

(* page.tsx:119-136, 279: "Configured" is said of credentials that are     *)
(* stored, unless an upload overlapped another or was lost.                *)
THEOREM ConfiguredIsTrue == Spec => []ConfiguredIsStored
<1>1. BeamsInv => ConfiguredIsStored
  BY DEF BeamsInv, KeyInv
<1> QED BY <1>1, BeamsAlways, PTL

----------------------------------------------------------------------------
(* The page: one push at a time, and its outcome in the list.              *)

MyPush(x) == x.kind = "push" /\ x.mine
BusyLoad(x) == x.kind = "load" /\ x.pc \notin {"free", "ended"}

(* A load that has read the deliveries, with no other load beside it.      *)
ReadyLoad(x) == x.kind = "load" /\ x.pc = "read" /\ x.alone

(* A slot no push will come to, or from, any more.                         *)
Settled(x) == x.kind # "push" /\ x.pc # "free"

SlotsInv == \A i \in Requests : request[i].pc \in {"free", "ended"} => request[i].kind = "none"

OnePush ==
  /\ sending \in BOOLEAN
  /\ sending <=> \E i \in Requests : MyPush(request[i])
  /\ \A i, j \in Requests : MyPush(request[i]) /\ MyPush(request[j]) => i = j
  /\ sending => feedback = None

(* What was reported is reported for good: nothing more is recorded of it. *)
FeedbackInv ==
  \/ feedback \in {None, Failed}
  \/ \E i \in Requests, n \in Nat : feedback = <<i, n>> /\ Settled(request[i])

(* Wherever what was reported is among the deliveries, it is among the     *)
(* first n.                                                                *)
Reported(n) ==
  \A k \in 1..Len(receipts) : receipts[k] = feedback => k <= n

(* A load that is going to be believed has what was reported.              *)
LoadInv ==
  \A i \in Requests :
    ReadyLoad(request[i]) => Reported(request[i].seen)

(* And a list to be believed has it, unless enough came after it.          *)
ListInv ==
  LoadsUnderWay = {} /\ exact /\ feedback \in Newest(Len(receipts))
    => feedback \in listed

(* No step adds to the deliveries what is reported already.                *)
ReportsAlike ==
  /\ feedback' = feedback
  /\ \/ receipts' = receipts
     \/ \E push \in Pushes :
          receipts' = Append(receipts, push) /\ push # feedback

(* The inductive invariant, with BeamsInv.                                 *)
PageInv == SlotsInv /\ OnePush /\ FeedbackInv /\ LoadInv /\ ListInv

(* A call that goes on as it was, from record x to record y.               *)
Gentle(x, y) ==
  /\ y.pc \in {"free", "ended"} => y.kind = "none"
  /\ Settled(x) => Settled(y)
  /\ ReadyLoad(y) => ReadyLoad(x) /\ y.seen = x.seen

(* No feedback is not a delivery.                                          *)
LEMMA NoneIsNoReceipt ==
  ASSUME BeamsInv
  PROVE  \A k \in 1..Len(receipts) : receipts[k] # None /\ receipts[k] # Failed
BY DEF BeamsInv, TypesInv, CallsTyped, Pushes, None, Failed

(* What is reported is found nowhere it was not found before.              *)
LEMMA AlikeReports ==
  ASSUME CallsTyped, ReportsAlike
  PROVE  /\ Len(receipts) \in Nat /\ Len(receipts') \in Nat
         /\ Len(receipts) <= Len(receipts')
         /\ \A k \in 1..Len(receipts') : receipts'[k] = feedback' =>
              k \in 1..Len(receipts) /\ receipts[k] = feedback
<1>1. receipts \in Seq(Pushes) /\ Len(receipts) \in Nat
  BY DEF CallsTyped
<1>2. CASE receipts' = receipts
  BY <1>1, <1>2 DEF ReportsAlike
<1>3. ASSUME NEW push \in Pushes, receipts' = Append(receipts, push), push # feedback
      PROVE  /\ Len(receipts') = Len(receipts) + 1
             /\ \A k \in 1..Len(receipts') : receipts'[k] = feedback =>
                  k \in 1..Len(receipts) /\ receipts[k] = feedback
  BY <1>1, <1>3
<1> QED
  BY <1>1, <1>2, <1>3 DEF ReportsAlike

(* A call that is not used, or no longer, is of no kind.                   *)
LEMMA GentleSame ==
  ASSUME SlotsInv, NEW i \in Requests PROVE Gentle(request[i], request[i])
BY DEF SlotsInv, Gentle

(* The four ways calls change.  One is started in a slot that was free ... *)
LEMMA Started ==
  ASSUME CallsTyped, SlotsInv, NEW record \in RequestRecords,
         record.kind \notin {"none", "load"}, Start(record)
  PROVE  /\ \A j \in Requests : /\ Gentle(request[j], request'[j])
                                /\ BusyLoad(request[j]) => BusyLoad(request'[j])
         /\ \E i \in Requests :
              /\ ~MyPush(request[i]) /\ request'[i].kind = record.kind
              /\ request'[i].mine = record.mine
              /\ \A j \in Requests \ {i} : request'[j] = request[j]
<1> DEFINE y == [record EXCEPT !.pc = "sent"]
<1>1. PICK i \in Requests : request[i].pc = "free" /\ request' = [request EXCEPT ![i] = y]
  BY DEF Start
<1>2. y.pc = "sent" /\ y.kind = record.kind /\ y.mine = record.mine
  BY DEF RequestRecords
<1> HIDE DEF y
<1>3. request'[i] = y /\ \A j \in Requests \ {i} : request'[j] = request[j]
  BY <1>1 DEF CallsTyped
<1>4. request[i].kind = "none"
  BY <1>1 DEF SlotsInv
<1>5. /\ Gentle(request[i], request'[i]) /\ ~MyPush(request[i]) /\ ~BusyLoad(request[i])
  BY <1>1, <1>2, <1>3, <1>4 DEF Gentle, Settled, ReadyLoad, MyPush, BusyLoad
<1>6. ASSUME NEW j \in Requests
      PROVE  /\ Gentle(request[j], request'[j])
             /\ BusyLoad(request[j]) => BusyLoad(request'[j])
  BY <1>3, <1>5, GentleSame
<1> QED
  BY <1>2, <1>3, <1>5, <1>6

(* ... one ends, and its slot is not used again ...                        *)
LEMMA Ended ==
  ASSUME CallsTyped, SlotsInv, NEW i \in Requests, End(i)
  PROVE  /\ \A j \in Requests : Gentle(request[j], request'[j])
         /\ ~MyPush(request'[i]) /\ \A j \in Requests \ {i} : request'[j] = request[j]
<1> DEFINE y == [Unused EXCEPT !.pc = "ended"]
<1>1. request'[i] = y /\ \A j \in Requests \ {i} : request'[j] = request[j]
  BY DEF End, CallsTyped
<1>2. y.pc = "ended" /\ y.kind = "none"
  BY DEF Unused
<1> HIDE DEF y
<1>3. Gentle(request[i], request'[i]) /\ ~MyPush(request'[i])
  BY <1>1, <1>2 DEF Gentle, Settled, ReadyLoad, MyPush
<1> QED
  BY <1>1, <1>3, GentleSame

(* ... one makes room for a load, and no load is alone but that ...        *)
LEMMA Loading ==
  ASSUME CallsTyped, SlotsInv, NEW i \in Requests, Load(i)
  PROVE  /\ \A j \in Requests : Gentle(request[j], request'[j]) /\ ~ReadyLoad(request'[j])
         /\ ~MyPush(request'[i]) /\ BusyLoad(request'[i]) /\ Settled(request'[i])
         /\ \A j \in Requests \ {i} : MyPush(request'[j]) <=> MyPush(request[j])
<1>1. /\ request'[i].kind = "load" /\ request'[i].pc = "sent"
      /\ \A j \in Requests \ {i} : request'[j] = [request[j] EXCEPT !.alone = FALSE]
  BY DEF Load, Unused
<1>2. /\ Gentle(request[i], request'[i]) /\ ~MyPush(request'[i]) /\ BusyLoad(request'[i])
      /\ Settled(request'[i]) /\ ~ReadyLoad(request'[i])
  BY <1>1 DEF Gentle, Settled, ReadyLoad, MyPush, BusyLoad
<1>3. ASSUME NEW j \in Requests \ {i}
      PROVE  /\ Gentle(request[j], request'[j]) /\ ~ReadyLoad(request'[j])
             /\ MyPush(request'[j]) <=> MyPush(request[j])
  <2>1. /\ request'[j].kind = request[j].kind /\ request'[j].pc = request[j].pc
        /\ request'[j].mine = request[j].mine /\ request'[j].alone = FALSE
    <3>1. request[j] \in RequestRecords /\ request'[j] = [request[j] EXCEPT !.alone = FALSE]
      BY <1>1 DEF CallsTyped
    <3> QED
      BY <3>1 DEF RequestRecords
  <2> QED
    BY <2>1 DEF Gentle, Settled, ReadyLoad, MyPush, SlotsInv
<1> QED
  BY <1>2, <1>3

(* ... or one gets further.                                                *)
LEMMA Further ==
  ASSUME CallsTyped, SlotsInv, NEW i \in Requests, NEW r,
         request' = [request EXCEPT ![i] = r],
         r.kind = request[i].kind, r.mine = request[i].mine, r.kind # "load",
         request[i].pc \notin {"free", "ended"}, r.pc \notin {"free", "ended"}
  PROVE  \A j \in Requests : /\ Gentle(request[j], request'[j])
                             /\ BusyLoad(request[j]) => BusyLoad(request'[j])
                             /\ MyPush(request'[j]) <=> MyPush(request[j])
<1>1. request'[i] = r /\ \A j \in Requests \ {i} : request'[j] = request[j]
  BY DEF CallsTyped
<1>2. /\ Gentle(request[i], request'[i])
      /\ BusyLoad(request[i]) => BusyLoad(request'[i])
      /\ MyPush(request'[i]) <=> MyPush(request[i])
  BY <1>1 DEF Gentle, Settled, ReadyLoad, MyPush, BusyLoad
<1> QED
  BY <1>1, <1>2, GentleSame

(* Where nothing is reported, what is known of it stays true.              *)
LEMMA ReportStays ==
  ASSUME BeamsInv, BeamsInv', PageInv,
         \A i \in Requests : Gentle(request[i], request'[i]),
         ReportsAlike
  PROVE  SlotsInv' /\ FeedbackInv' /\ LoadInv'
<1>1. SlotsInv'
  BY DEF SlotsInv, Gentle
<1>2. FeedbackInv'
  <2>1. CASE feedback \in {None, Failed}
    BY <2>1 DEF FeedbackInv, ReportsAlike
  <2>2. ASSUME NEW i \in Requests, NEW n \in Nat, feedback = <<i, n>>, Settled(request[i])
        PROVE  FeedbackInv'
    BY <2>2 DEF Gentle, FeedbackInv, ReportsAlike
  <2> QED
    BY <2>1, <2>2 DEF PageInv, FeedbackInv
<1>3. LoadInv'
  BY AlikeReports DEF BeamsInv, TypesInv, PageInv, LoadInv, Gentle, Reported
<1> QED
  BY <1>1, <1>2, <1>3

(* And where nothing is reported, a report that has gone missing from the  *)
(* list is either about to be loaded again or no longer claimed.           *)
LEMMA ReportIsNone ==
  ASSUME BeamsInv, BeamsInv', PageInv,
         \A i \in Requests : Gentle(request[i], request'[i]),
         feedback' \in {None, Failed}
  PROVE  SlotsInv' /\ FeedbackInv' /\ LoadInv' /\ ListInv'
<1>1. SlotsInv'
  BY DEF SlotsInv, Gentle
<1>2. \A k \in 1..Len(receipts') : receipts'[k] # feedback'
  BY DEF BeamsInv, TypesInv, CallsTyped, Pushes, None, Failed
<1> QED
  BY <1>1, <1>2 DEF FeedbackInv, LoadInv, Reported, ListInv, Newest

(* The page's pushes stay what they are.                                   *)
LEMMA PushStays ==
  ASSUME PageInv, \A i \in Requests : MyPush(request'[i]) <=> MyPush(request[i]),
         UNCHANGED <<sending, feedback>>
  PROVE  OnePush'
BY DEF PageInv, OnePush

(* A load under way stays so.                                              *)
LEMMA ListStays ==
  ASSUME PageInv, \A i \in Requests : BusyLoad(request[i]) => BusyLoad(request'[i]),
         UNCHANGED <<listed, exact>>, CallsTyped, ReportsAlike
  PROVE  ListInv'
<1>1. LoadsUnderWay' = {} => LoadsUnderWay = {}
  BY DEF LoadsUnderWay, BusyLoad, Busy
<1>2. feedback' \in Newest(Len(receipts))' => feedback \in Newest(Len(receipts))
  BY AlikeReports DEF Newest
<1> QED
  BY <1>1, <1>2 DEF PageInv, ListInv, ReportsAlike

(* All of that, for most steps.                                            *)
LEMMA GentleKeeps ==
  ASSUME BeamsInv, BeamsInv', PageInv,
         \A i \in Requests : /\ Gentle(request[i], request'[i])
                             /\ BusyLoad(request[i]) => BusyLoad(request'[i])
                             /\ MyPush(request'[i]) <=> MyPush(request[i]),
         UNCHANGED <<sending, listed, exact>>, ReportsAlike
  PROVE  PageInv'
<1>1. SlotsInv' /\ FeedbackInv' /\ LoadInv'
  BY ReportStays
<1>2. OnePush' /\ ListInv'
  BY PushStays, ListStays DEF BeamsInv, TypesInv, ReportsAlike
<1> QED
  BY <1>1, <1>2 DEF PageInv

(* Another call is made, or a call that is no push of the page's nor a load*)
(* ends.                                                                   *)
LEMMA OthersCalls ==
  ASSUME BeamsInv, BeamsInv', PageInv, UNCHANGED <<sending, feedback, listed, exact, receipts>>,
         \/ request' = request
         \/ \E record \in RequestRecords :
              record.kind \notin {"none", "load"} /\ ~MyPush(record) /\ Start(record)
         \/ \E i \in Requests :
              ~MyPush(request[i]) /\ ~BusyLoad(request[i]) /\ End(i)
  PROVE  PageInv'
<1>1. CallsTyped /\ SlotsInv /\ ReportsAlike
  BY DEF BeamsInv, TypesInv, PageInv, ReportsAlike
<1>2. CASE request' = request
  <2>1. \A i \in Requests : Gentle(request[i], request'[i])
    BY <1>1, <1>2, GentleSame
  <2> QED
    BY <1>1, <1>2, <2>1, GentleKeeps
<1>3. ASSUME NEW record \in RequestRecords, record.kind \notin {"none", "load"},
             ~MyPush(record), Start(record)
      PROVE  PageInv'
  <2>1. PICK i \in Requests : /\ ~MyPush(request[i]) /\ request'[i].kind = record.kind
                              /\ request'[i].mine = record.mine
                              /\ \A j \in Requests \ {i} : request'[j] = request[j]
    BY <1>1, <1>3, Started
  <2>2. \A j \in Requests : MyPush(request'[j]) <=> MyPush(request[j])
    BY <1>3, <2>1 DEF MyPush
  <2>3. \A j \in Requests : /\ Gentle(request[j], request'[j])
                            /\ BusyLoad(request[j]) => BusyLoad(request'[j])
    BY <1>1, <1>3, Started
  <2> QED
    BY <1>1, <2>2, <2>3, GentleKeeps
<1>4. ASSUME NEW i \in Requests, ~MyPush(request[i]), ~BusyLoad(request[i]), End(i)
      PROVE  PageInv'
  <2>1. /\ \A j \in Requests : Gentle(request[j], request'[j])
        /\ ~MyPush(request'[i]) /\ \A j \in Requests \ {i} : request'[j] = request[j]
    BY <1>1, <1>4, Ended
  <2> QED
    BY <1>1, <1>4, <2>1, GentleKeeps
<1> QED
  BY <1>2, <1>3, <1>4

(* page.tsx:71-93: the form sends a push, when none is being sent.         *)
LEMMA SendPushKeeps ==
  ASSUME BeamsInv, BeamsInv', PageInv, NEW t \in Users \cup Interests, SendPush(t)
  PROVE  PageInv'
<1> DEFINE x == [Unused EXCEPT !.kind = "push", !.mine = TRUE, !.target = t]
<1>1. x \in RequestRecords /\ x.kind = "push" /\ x.mine
  BY UnusedTyped DEF RequestRecords, Unused
<1>2. /\ ~sending /\ sending' = TRUE /\ feedback' = None /\ Start(x)
      /\ UNCHANGED <<listed, exact, receipts>>
  BY DEF SendPush, PublishForm
<1> HIDE DEF x
<1>3. CallsTyped /\ SlotsInv
  BY DEF BeamsInv, TypesInv, PageInv
<1>4. \A j \in Requests : Gentle(request[j], request'[j])
  BY <1>1, <1>2, <1>3, Started
<1>5. PICK i \in Requests : /\ ~MyPush(request[i]) /\ request'[i].kind = x.kind
                            /\ request'[i].mine = x.mine
                            /\ \A j \in Requests \ {i} : request'[j] = request[j]
  BY <1>1, <1>2, <1>3, Started
<1>6. OnePush'
  BY <1>1, <1>2, <1>5 DEF PageInv, OnePush, MyPush
<1>7. SlotsInv' /\ FeedbackInv' /\ LoadInv' /\ ListInv'
  BY <1>2, <1>4, ReportIsNone
<1> QED
  BY <1>6, <1>7 DEF PageInv

(* page.tsx:95-117: it is answered, and the page loads; or it has failed.  *)
LEMMA PushEndsKeeps ==
  ASSUME BeamsInv, BeamsInv', PageInv, NEW i \in Requests, PushAnswered(i) \/ PushFailed(i)
  PROVE  PageInv'
<1>1. CallsTyped /\ SlotsInv
  BY DEF BeamsInv, TypesInv, PageInv
<1>2. MyPush(request[i]) /\ sending' = FALSE
  BY DEF PushAnswered, PushFailed, Is, MyPush
<1>3. ASSUME ~MyPush(request'[i]),
             \A j \in Requests \ {i} : MyPush(request'[j]) <=> MyPush(request[j])
      PROVE  OnePush'
  <2>1. \A j \in Requests : ~MyPush(request'[j])
    BY <1>2, <1>3 DEF PageInv, OnePush
  <2> QED
    BY <1>2, <2>1 DEF OnePush
<1>4. CASE PushFailed(i)
  <2>1. feedback' = Failed /\ End(i)
    BY <1>4 DEF PushFailed
  <2>2. /\ \A j \in Requests : Gentle(request[j], request'[j])
        /\ ~MyPush(request'[i]) /\ \A j \in Requests \ {i} : request'[j] = request[j]
    BY <1>1, <2>1, Ended
  <2>3. SlotsInv' /\ FeedbackInv' /\ LoadInv' /\ ListInv'
    BY <2>1, <2>2, ReportIsNone
  <2> QED
    BY <1>3, <2>2, <2>3 DEF PageInv
<1>5. CASE PushAnswered(i)
  <2>1. feedback' = <<i, request[i].count>> /\ Load(i) /\ request[i].count \in Nat
    BY <1>1, <1>5 DEF PushAnswered, CallsTyped, RequestRecords
  <2>2. /\ \A j \in Requests : Gentle(request[j], request'[j]) /\ ~ReadyLoad(request'[j])
        /\ ~MyPush(request'[i]) /\ BusyLoad(request'[i]) /\ Settled(request'[i])
        /\ \A j \in Requests \ {i} : MyPush(request'[j]) <=> MyPush(request[j])
    BY <1>1, <2>1, Loading
  <2>3. SlotsInv' /\ FeedbackInv' /\ LoadInv'
    BY <2>1, <2>2 DEF SlotsInv, Gentle, FeedbackInv, LoadInv
  <2>4. ListInv'
    BY <2>2 DEF ListInv, LoadsUnderWay, BusyLoad, Busy
  <2> QED
    BY <1>3, <2>2, <2>3, <2>4 DEF PageInv
<1> QED
  BY <1>4, <1>5

(* beams.go:212-476: a call of two steps has taken its first, or its write.*)
LEMMA FurtherKeeps ==
  ASSUME BeamsInv, BeamsInv', PageInv, NEW i \in Requests, NEW r \in RequestRecords,
         request' = [request EXCEPT ![i] = r], r.kind = request[i].kind,
         r.mine = request[i].mine, r.kind # "load",
         request[i].pc \notin {"free", "ended"}, r.pc \notin {"free", "ended"},
         UNCHANGED <<sending, feedback, listed, exact>>,
         receipts' = receipts
           \/ (r.kind = "push" /\ receipts' = Append(receipts, <<i, r.count>>))
  PROVE  PageInv'
<1>1. CallsTyped /\ SlotsInv
  BY DEF BeamsInv, TypesInv, PageInv
<1>2. \A j \in Requests : /\ Gentle(request[j], request'[j])
                          /\ BusyLoad(request[j]) => BusyLoad(request'[j])
                          /\ MyPush(request'[j]) <=> MyPush(request[j])
  BY <1>1, Further
<1>3. ReportsAlike
  <2>1. <<i, r.count>> \in Pushes
    BY DEF RequestRecords, Pushes
  <2>2. r.kind = "push" => <<i, r.count>> # feedback
    <3>1. CASE feedback \in {None, Failed}
      BY <3>1 DEF None, Failed
    <3>2. ASSUME NEW j \in Requests, NEW n \in Nat, feedback = <<j, n>>, Settled(request[j])
          PROVE  r.kind = "push" => <<i, r.count>> # feedback
      BY <3>2 DEF Settled
    <3> QED
      BY <3>1, <3>2 DEF PageInv, FeedbackInv
  <2> QED
    BY <2>1, <2>2 DEF ReportsAlike
<1> QED
  BY <1>2, <1>3, GentleKeeps

(* beams.go:166-476: the steps of the calls in the server.                 *)
LEMMA ServerKeepsPage ==
  ASSUME BeamsInv, BeamsInv', PageInv, NEW i \in Requests,
         \/ GetDevice(i) \/ UpsertDevice(i) \/ ListTargets(i) \/ SavePushDelivery(i)
         \/ GetInstance(i) \/ UpdateCredentials(i)
  PROVE  PageInv'
<1>1. request[i] \in RequestRecords /\ CallsTyped
  BY DEF BeamsInv, TypesInv, CallsTyped
<1>2. CASE GetDevice(i)
  <2>1. /\ request[i].kind = "interests" /\ request[i].pc = "sent"
        /\ UNCHANGED <<sending, feedback, listed, exact, receipts>>
        /\ request' = [request EXCEPT ![i] = [request[i] EXCEPT !.pc = "read"]] \/ End(i)
    BY <1>2 DEF GetDevice, Is, page
  <2>2. /\ [request[i] EXCEPT !.pc = "read"] \in RequestRecords
        /\ [request[i] EXCEPT !.pc = "read"].kind = request[i].kind
        /\ [request[i] EXCEPT !.pc = "read"].mine = request[i].mine
        /\ [request[i] EXCEPT !.pc = "read"].pc = "read"
    BY <1>1 DEF RequestRecords
  <2>3. ~MyPush(request[i]) /\ ~BusyLoad(request[i])
    BY <2>1 DEF MyPush, BusyLoad
  <2>4. CASE End(i)
    BY <2>1, <2>3, <2>4, OthersCalls
  <2>5. CASE request' = [request EXCEPT ![i] = [request[i] EXCEPT !.pc = "read"]]
    BY <2>1, <2>2, <2>5, FurtherKeeps
  <2> QED
    BY <2>1, <2>4, <2>5
<1>3. CASE UpsertDevice(i)
  <2>1. /\ ~MyPush(request[i]) /\ ~BusyLoad(request[i]) /\ End(i)
        /\ UNCHANGED <<sending, feedback, listed, exact, receipts>>
    BY <1>3 DEF UpsertDevice, Is, MyPush, BusyLoad, page
  <2> QED
    BY <2>1, OthersCalls
<1>4. CASE ListTargets(i)
  <2>1. /\ request[i].kind = "push" /\ request[i].pc = "sent"
        /\ UNCHANGED <<sending, feedback, listed, exact, receipts>>
    BY <1>4 DEF ListTargets, Is, page
  <2>2. PICK n \in 0..MaxDevices, pc \in {"read", "refused"} :
          request' = [request EXCEPT ![i] = [request[i] EXCEPT !.pc = pc, !.count = n]]
    BY <1>4, Targets
  <2>3. /\ [request[i] EXCEPT !.pc = pc, !.count = n] \in RequestRecords
        /\ [request[i] EXCEPT !.pc = pc, !.count = n].kind = request[i].kind
        /\ [request[i] EXCEPT !.pc = pc, !.count = n].mine = request[i].mine
        /\ [request[i] EXCEPT !.pc = pc, !.count = n].pc = pc
    BY <1>1 DEF RequestRecords
  <2> QED
    BY <2>1, <2>2, <2>3, FurtherKeeps
<1>5. CASE SavePushDelivery(i)
  <2> DEFINE r == [request[i] EXCEPT !.pc = "ok"]
  <2>1. /\ request[i].kind = "push" /\ request[i].pc = "read"
        /\ UNCHANGED <<sending, feedback, listed, exact>>
        /\ request' = [request EXCEPT ![i] = r]
        /\ receipts' \in {receipts, Append(receipts, <<i, request[i].count>>)}
    BY <1>5 DEF SavePushDelivery, Is, page
  <2>2. /\ r \in RequestRecords /\ r.kind = request[i].kind /\ r.mine = request[i].mine
        /\ r.pc = "ok" /\ r.count = request[i].count
    BY <1>1 DEF RequestRecords
  <2> HIDE DEF r
  <2> QED
    BY <2>1, <2>2, FurtherKeeps
<1>6. CASE GetInstance(i)
  <2>1. /\ request[i].kind \in Halves /\ request[i].pc = "sent" /\ stored \subseteq Halves
        /\ UNCHANGED <<sending, feedback, listed, exact, receipts>>
    BY <1>1, <1>6 DEF GetInstance, Uploading, page, CallsTyped
  <2>2. CASE request' = [request EXCEPT ![i].pc = "refused"]
    <3> DEFINE r == [request[i] EXCEPT !.pc = "refused"]
    <3>1. request' = [request EXCEPT ![i] = r]
      BY <2>2
    <3>2. /\ r \in RequestRecords /\ r.kind = request[i].kind /\ r.mine = request[i].mine
          /\ r.pc = "refused"
      BY <1>1 DEF RequestRecords
    <3> HIDE DEF r
    <3> QED
      BY <2>1, <3>1, <3>2, FurtherKeeps
  <2>3. CASE request' = [request EXCEPT ![i].pc = "read", ![i].copy = stored]
    <3> DEFINE r == [request[i] EXCEPT !.pc = "read", !.copy = stored]
    <3>1. request' = [request EXCEPT ![i] = r]
      BY <2>3
    <3>2. /\ r \in RequestRecords /\ r.kind = request[i].kind /\ r.mine = request[i].mine
          /\ r.pc = "read"
      BY <1>1, <2>1 DEF RequestRecords
    <3> HIDE DEF r
    <3> QED
      BY <2>1, <3>1, <3>2, FurtherKeeps
  <2> QED
    BY <1>6, <2>2, <2>3 DEF GetInstance
<1>7. CASE UpdateCredentials(i)
  <2> DEFINE r == [request[i] EXCEPT !.pc = "ok"]
  <2>1. /\ request[i].kind \in Halves /\ request[i].pc = "read"
        /\ UNCHANGED <<sending, feedback, listed, exact, receipts>>
        /\ request' = [request EXCEPT ![i] = r]
    BY <1>7 DEF UpdateCredentials, Uploading, page
  <2>2. /\ r \in RequestRecords /\ r.kind = request[i].kind /\ r.mine = request[i].mine
        /\ r.pc = "ok"
    BY <1>1 DEF RequestRecords
  <2> HIDE DEF r
  <2> QED
    BY <2>1, <2>2, FurtherKeeps
<1> QED
  BY <1>2, <1>3, <1>4, <1>5, <1>6, <1>7

(* page.tsx:42-69: a load has the app, has the deliveries, or has failed.  *)
LEMMA LoadKeeps ==
  ASSUME BeamsInv, BeamsInv', PageInv, NEW i \in Requests,
         AppArrives(i) \/ DeliveriesArrive(i) \/ LoadFails(i)
  PROVE  PageInv'
<1>1. /\ request[i] \in RequestRecords /\ CallsTyped /\ SlotsInv
      /\ request \in [Requests -> RequestRecords]
  BY DEF BeamsInv, TypesInv, CallsTyped, PageInv
<1>2. /\ request[i].kind = "load" /\ ~MyPush(request[i])
      /\ UNCHANGED <<sending, feedback, receipts>> /\ ReportsAlike
  BY DEF AppArrives, DeliveriesArrive, LoadFails, LoadsUnderWay, Is, MyPush, ReportsAlike
<1>3. CASE End(i)
  <2>1. /\ \A j \in Requests : Gentle(request[j], request'[j])
        /\ ~MyPush(request'[i]) /\ \A j \in Requests \ {i} : request'[j] = request[j]
    BY <1>1, <1>3, Ended
  <2>2. SlotsInv' /\ FeedbackInv' /\ LoadInv'
    BY <1>2, <2>1, ReportStays
  <2>3. OnePush'
    BY <1>2, <2>1, PushStays
  <2>4. exact' = FALSE \/ (feedback \in Newest(Len(receipts)) => feedback \in listed')
    <3>1. CASE exact' = FALSE
      BY <3>1
    <3>2. CASE DeliveriesArrive(i)
      <4>1. /\ request[i].pc = "read" /\ exact' = request[i].alone
            /\ request[i].alone => ReadyLoad(request[i])
        BY <1>2, <3>2 DEF DeliveriesArrive, Is, ReadyLoad
      <4>2. PICK n \in request[i].seen..Len(receipts) : listed' = Newest(n)
        BY <3>2 DEF DeliveriesArrive
      <4>3. /\ request[i].alone \in BOOLEAN /\ request[i].seen \in Nat
            /\ Len(receipts) \in Nat
        BY <1>1 DEF RequestRecords, CallsTyped
      <4>4. CASE request[i].alone
        <5>1. Reported(request[i].seen)
          BY <4>1, <4>4 DEF PageInv, LoadInv
        <5> QED
          BY <4>2, <4>3, <5>1 DEF Reported, Newest
      <4> QED
        BY <4>1, <4>3, <4>4
    <3>3. CASE LoadFails(i)
      BY <3>3 DEF LoadFails, LoadEndsEarly
    <3>4. CASE AppArrives(i)
      <4>1. CASE provisioned
        <5>1. request'[i].pc = "read"
          BY <1>1, <3>4, <4>1 DEF AppArrives, RequestRecords
        <5>2. request'[i].pc = "ended"
          BY <1>1, <1>3 DEF End, Unused
        <5> QED
          BY <5>1, <5>2
      <4>2. CASE ~provisioned
        BY <3>4, <4>2 DEF AppArrives, LoadEndsEarly
      <4> QED
        BY <4>1, <4>2
    <3> QED
      BY <3>2, <3>3, <3>4
  <2> QED
    BY <1>2, <2>2, <2>3, <2>4 DEF PageInv, ListInv, Newest
<1>4. CASE AppArrives(i) /\ provisioned
  <2> DEFINE r == [request[i] EXCEPT !.pc = "read", !.seen = Len(receipts)]
  <2>1. /\ request' = [request EXCEPT ![i] = r] /\ request[i].pc = "sent"
        /\ UNCHANGED <<listed, exact>>
    BY <1>4 DEF AppArrives, Is
  <2>2. /\ r.kind = "load" /\ r.pc = "read" /\ r.seen = Len(receipts) /\ r.mine = request[i].mine
    BY <1>1, <1>2 DEF RequestRecords
  <2> HIDE DEF r
  <2>3. request'[i] = r /\ \A j \in Requests \ {i} : request'[j] = request[j]
    BY <1>1, <2>1
  <2>4. SlotsInv'
    BY <2>2, <2>3 DEF PageInv, SlotsInv
  <2>5. FeedbackInv'
    <3>1. \A j \in Requests : Settled(request[j]) => Settled(request'[j])
      BY <2>2, <2>3 DEF Settled
    <3> QED
      BY <1>2, <3>1 DEF PageInv, FeedbackInv
  <2>6. LoadInv'
    <3>1. \A j \in Requests \ {i} : ReadyLoad(request'[j]) => Reported(request'[j].seen)
      BY <2>3 DEF PageInv, LoadInv
    <3>2. Len(receipts) \in Nat /\ Reported(request'[i].seen)
      BY <1>1, <2>2, <2>3 DEF CallsTyped, Reported
    <3> QED
      BY <1>2, <3>1, <3>2 DEF LoadInv, Reported
  <2>7. OnePush'
    <3>1. ~MyPush(request'[i])
      BY <2>2, <2>3 DEF MyPush
    <3> QED
      BY <1>2, <2>3, <3>1, PushStays
  <2>8. ListInv'
    <3>1. BusyLoad(request'[i])
      BY <2>2, <2>3 DEF BusyLoad
    <3> QED
      BY <1>1, <1>2, <2>1, <2>3, <3>1, ListStays DEF ReportsAlike
  <2> QED
    BY <2>4, <2>5, <2>6, <2>7, <2>8 DEF PageInv
<1> QED
  BY <1>3, <1>4 DEF AppArrives, DeliveriesArrive, LoadFails, LoadEndsEarly

(* Every step keeps the invariant.                                         *)
LEMMA PageStep == BeamsInv /\ BeamsInv' /\ PageInv /\ [Next]_vars => PageInv'
<1> SUFFICES ASSUME BeamsInv, BeamsInv', PageInv, [Next]_vars PROVE PageInv'
  OBVIOUS
<1>1. CASE UNCHANGED vars
  BY <1>1, OthersCalls DEF vars
<1>2. CASE Caller
  <2>1. CASE \/ \E u \in Users \cup {NoUser}, wants \in SUBSET Interests : Register(u, wants)
             \/ \E d \in Devices : DeleteDevice(d)
             \/ \E u \in Users : TerminateUser(u)
    <3>1. UNCHANGED <<sending, feedback, listed, exact, receipts, request>>
      BY <2>1 DEF Register, DeleteDevice, TerminateUser, page
    <3> QED
      BY <3>1, OthersCalls
  <2>2. ASSUME NEW d \in Devices, NEW wants \in SUBSET Interests, SetInterests(d, wants)
        PROVE  PageInv'
    <3> DEFINE x == [Unused EXCEPT !.kind = "interests", !.device = d, !.wants = wants]
    <3>1. x \in RequestRecords /\ x.kind = "interests"
      BY UnusedTyped DEF RequestRecords
    <3>2. Start(x) /\ UNCHANGED <<sending, feedback, listed, exact, receipts>>
      BY <2>2 DEF SetInterests, page
    <3> HIDE DEF x
    <3> QED
      BY <3>1, <3>2, OthersCalls DEF MyPush
  <2>3. ASSUME NEW t \in Users \cup Interests, PublishByApi(t) PROVE PageInv'
    <3> DEFINE x == [Unused EXCEPT !.kind = "push", !.target = t]
    <3>1. x \in RequestRecords /\ x.kind = "push" /\ ~x.mine
      BY UnusedTyped DEF RequestRecords, Unused
    <3>2. Start(x) /\ UNCHANGED <<sending, feedback, listed, exact, receipts>>
      BY <2>3 DEF PublishByApi, page
    <3> HIDE DEF x
    <3> QED
      BY <3>1, <3>2, OthersCalls DEF MyPush
  <2>4. ASSUME NEW half \in Halves, UploadByApi(half) PROVE PageInv'
    <3> DEFINE x == [Unused EXCEPT !.kind = half]
    <3>1. x \in RequestRecords /\ x.kind = half
      BY UnusedTyped DEF RequestRecords
    <3>2. Start(x) /\ UNCHANGED <<sending, feedback, listed, exact, receipts>>
      BY <2>4 DEF UploadByApi, page
    <3> HIDE DEF x
    <3> QED
      BY <3>1, <3>2, OthersCalls DEF MyPush
  <2> QED
    BY <1>2, <2>1, <2>2, <2>3, <2>4 DEF Caller
<1>3. CASE User
  <2>1. CASE SaveFCM
    <3> DEFINE x == [Unused EXCEPT !.kind = "fcm", !.mine = TRUE]
    <3>1. x \in RequestRecords /\ x.kind = "fcm"
      BY UnusedTyped DEF RequestRecords
    <3>2. Start(x) /\ UNCHANGED <<sending, feedback, listed, exact, receipts>>
      BY <2>1 DEF SaveFCM, page
    <3> HIDE DEF x
    <3> QED
      BY <3>1, <3>2, OthersCalls DEF MyPush
  <2> QED
    BY <1>3, <2>1, SendPushKeeps DEF User
<1>4. ASSUME NEW i \in Requests, Answer(i) PROVE PageInv'
  <2>1. CASE \/ GetDevice(i) \/ UpsertDevice(i) \/ ListTargets(i) \/ SavePushDelivery(i)
             \/ GetInstance(i) \/ UpdateCredentials(i)
    BY <2>1, ServerKeepsPage
  <2>2. CASE PushAnswered(i) \/ PushFailed(i)
    BY <2>2, PushEndsKeeps
  <2>3. CASE AppArrives(i) \/ DeliveriesArrive(i) \/ LoadFails(i)
    BY <2>3, LoadKeeps
  <2>4. CASE SaveFCMFailed(i) \/ ApiAnswered(i)
    <3>1. /\ End(i) /\ ~MyPush(request[i]) /\ ~BusyLoad(request[i])
          /\ UNCHANGED <<sending, feedback, listed, exact, receipts>>
      BY <2>4 DEF SaveFCMFailed, ApiAnswered, page, MyPush, BusyLoad
    <3> QED
      BY <3>1, OthersCalls
  <2>5. CASE SaveFCMAnswered(i)
    <3>1. /\ Load(i) /\ ~MyPush(request[i])
          /\ UNCHANGED <<sending, feedback, listed, exact, receipts>>
      BY <2>5 DEF SaveFCMAnswered, Is, MyPush
    <3>2. CallsTyped /\ SlotsInv
      BY DEF BeamsInv, TypesInv, PageInv
    <3>3. /\ \A j \in Requests : Gentle(request[j], request'[j])
          /\ ~MyPush(request'[i]) /\ BusyLoad(request'[i])
          /\ \A j \in Requests \ {i} : MyPush(request'[j]) <=> MyPush(request[j])
      BY <3>1, <3>2, Loading
    <3>4. SlotsInv' /\ FeedbackInv' /\ LoadInv'
      BY <3>1, <3>3, ReportStays DEF ReportsAlike
    <3>5. OnePush'
      BY <3>1, <3>3, PushStays
    <3>6. ListInv'
      BY <3>3 DEF ListInv, LoadsUnderWay, BusyLoad, Busy
    <3> QED
      BY <3>4, <3>5, <3>6 DEF PageInv
  <2> QED
    BY <1>4, <2>1, <2>2, <2>3, <2>4, <2>5 DEF Answer
<1> QED
  BY <1>1, <1>2, <1>3, <1>4 DEF Next

(* What is known of the page and its calls, in every state.                *)
LEMMA PageAlways == Spec => []PageInv
<1>1. Init => PageInv
  <2> SUFFICES ASSUME Init PROVE PageInv
    OBVIOUS
  <2>1. /\ request[1].kind = "load" /\ request[1].pc = "sent"
        /\ \A i \in Requests \ {1} : request[i] = Unused
    BY DEF Init, Unused
  <2>2. \A i \in Requests : /\ ~MyPush(request[i]) /\ ~ReadyLoad(request[i])
                            /\ request[i].pc \in {"free", "ended"} => request[i].kind = "none"
    BY <2>1 DEF MyPush, ReadyLoad, Unused
  <2>3. receipts = <<>> /\ feedback = None /\ sending = FALSE
    BY DEF Init
  <2> QED
    BY <2>2, <2>3 DEF PageInv, SlotsInv, OnePush, FeedbackInv, LoadInv, ListInv, Newest, Init
<1> QED
  BY <1>1, BeamsAlways, PageStep, PTL DEF Spec

(* page.tsx:71-117, 255-262: one push at a time, a button disabled as long *)
(* as it is under way, and no outcome of an earlier one beside it.         *)
THEOREM SendingIsOne == Spec => []SendingIsOneRequest
<1>1. PageInv => SendingIsOneRequest
  <2> SUFFICES ASSUME PageInv PROVE SendingIsOneRequest
    OBVIOUS
  <2> DEFINE pushes == {i \in Requests : request[i].kind = "push" /\ request[i].mine}
  <2>1. /\ sending \in BOOLEAN
        /\ sending <=> pushes # {}
        /\ \A i, j \in pushes : i = j
        /\ sending => feedback = None
    BY DEF PageInv, OnePush, MyPush
  <2>2. Cardinality(pushes) = IF sending THEN 1 ELSE 0
    <3> HIDE DEF pushes
    <3>1. CASE ~sending
      BY <2>1, <3>1, FS_EmptySet
    <3>2. CASE sending
      <4>1. PICK i : pushes = {i}
        BY <2>1, <3>2
      <4>2. Cardinality({i}) = 1
        BY FS_Singleton
      <4> QED
        BY <3>2, <4>1, <4>2
    <3> QED
      BY <3>1, <3>2
  <2> QED
    BY <2>1, <2>2 DEF SendingIsOneRequest
<1> QED
  BY <1>1, PageAlways, PTL

(* page.tsx:138-144, 64-69: a list to be believed is shown: the spinner is *)
(* gone with the first load.                                               *)
LEMMA ExactIsShown == Spec => [](exact => ~loading)
<1>1. Init => (exact => ~loading)
  BY DEF Init
<1>2. ASSUME exact => ~loading, [Next]_vars PROVE (exact => ~loading)'
  <2>1. CASE UNCHANGED vars \/ Caller
    BY <1>2, <2>1 DEF vars, Caller, Register, DeleteDevice, TerminateUser, SetInterests,
                     PublishByApi, UploadByApi, page
  <2>2. CASE User
    BY <1>2, <2>2 DEF User, SaveFCM, SendPush, page
  <2>3. ASSUME NEW i \in Requests, Answer(i) PROVE (exact => ~loading)'
    <3>1. CASE \/ GetDevice(i) \/ UpsertDevice(i) \/ ListTargets(i) \/ SavePushDelivery(i)
               \/ GetInstance(i) \/ UpdateCredentials(i) \/ ApiAnswered(i)
      BY <1>2, <3>1 DEF GetDevice, UpsertDevice, ListTargets, SavePushDelivery,
                       GetInstance, UpdateCredentials, ApiAnswered, page
    <3>2. CASE \/ PushAnswered(i) \/ PushFailed(i) \/ SaveFCMAnswered(i) \/ SaveFCMFailed(i)
      BY <1>2, <3>2 DEF PushAnswered, PushFailed, SaveFCMAnswered, SaveFCMFailed, page
    <3>3. CASE AppArrives(i) \/ DeliveriesArrive(i) \/ LoadFails(i)
      BY <1>2, <3>3 DEF AppArrives, DeliveriesArrive, LoadFails, LoadEndsEarly
    <3> QED
      BY <2>3, <3>1, <3>2, <3>3 DEF Answer
  <2> QED
    BY <1>2, <2>1, <2>2, <2>3 DEF Next
<1> QED
  BY <1>1, <1>2, PTL DEF Spec

(* page.tsx:42-69, 103-108, beams.go:390-404: a push reported as published *)
(* is in the history below, with the same count, once the page has loaded, *)
(* unless as many as a list has were published after it.                   *)
THEOREM ReportedIsListed == Spec => []PushedIsListed
<1>1. PageInv /\ (exact => ~loading) => PushedIsListed
  BY DEF PageInv, ListInv, PushedIsListed, Rows
<1> QED
  BY <1>1, PageAlways, ExactIsShown, PTL
=============================================================================
