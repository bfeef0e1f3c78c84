-------------------------- MODULE KsefAccessProofs --------------------------
(***************************************************************************)
(* Proofs about KsefAccess and the two components it extends, for any      *)
(* number of clients, tokens, subscriptions, licences, parts of a file,    *)
(* requests and logins.  Every step of the composition is a step of one    *)
(* part that leaves the others alone, so each part is proved on its own.   *)
(***************************************************************************)
EXTENDS KsefAccess, TLAPS

-----------------------------------------------------------------------------
(* Subscription                                                            *)

States == [plan : Plans, status : Statuses]
GrantType == [tier : Plans, status : Statuses \cup {"trial"}, cap : Nat,
              sub : Subs \cup {None}, until : Nat \cup {None}]
StripeType == [Subs -> [plan : Plans, status : Statuses \cup {"none", "deleted"}]]

\* What an event says was so once; an ended subscription stays ended.
EventOK(e) ==
    /\ e.sub \in Subs
    /\ IF e.type = "deleted" THEN stripe[e.sub].status = "deleted"
       ELSE e.state \in States /\ <<e.sub, e.state>> \in sold

\* What a check is about to write is a licence that was installed.
LoadOK(p) ==
    /\ p.licence \in Licences /\ p.expired \in BOOLEAN
    /\ p.type = "check" => p.licence \in sold /\ (p.expired => Expired(p.licence))

ByStripe ==
    /\ loads = {} /\ licence = None
    /\ SoldByStripe /\ (grant.sub # None => grant.status \in Statuses)
    /\ \A e \in events : EventOK(e)
ByLicence ==
    /\ events = {} /\ sold \subseteq Licences /\ Licensed
    /\ licence # None => licence \in sold
    /\ \A p \in loads : LoadOK(p)

\* The inductive invariant of the subscription.  The grant itself does not say
\* enough: the events and the checks under way carry what will be written.
SubscriptionInv ==
    /\ provider \in Providers /\ grant \in GrantType /\ stripe \in StripeType /\ today \in Nat
    /\ provider = "stripe" => ByStripe
    /\ provider = "licence" => ByLicence

LEMMA SubscriptionStarts == SubscriptionInit => SubscriptionInv
<1> SUFFICES ASSUME SubscriptionInit PROVE SubscriptionInv
  OBVIOUS
<1>1. grant \in GrantType
  BY SubscriptionAssumption DEF SubscriptionInit, FirstGrant, Grant, GrantType, Statuses
<1>2. stripe \in StripeType
  BY SubscriptionAssumption DEF SubscriptionInit, NotBought, State, StripeType
<1>3. provider = "stripe" => ByStripe
  BY SubscriptionAssumption DEF SubscriptionInit, FirstGrant, Grant, ByStripe, SoldByStripe
<1>4. provider = "licence" => ByLicence
  BY DEF SubscriptionInit, ByLicence, Licensed
<1> QED
  BY <1>1, <1>2, <1>3, <1>4 DEF SubscriptionInit, SubscriptionInv

\* Stripe only adds to what was sold, and to the events.
Adds(s, type, told, new) ==
    /\ stripe' = [stripe EXCEPT ![s] = new]
    /\ events' = events \cup {Event(type, s, told)}
    /\ sold' = sold \cup {<<s, new>>}
    /\ new \in [plan : Plans, status : Statuses \cup {"deleted"}]
    /\ IF type = "deleted" THEN new.status = "deleted" ELSE told = new /\ new \in States
    /\ stripe[s].status # "deleted"

LEMMA StripeAdds ==
    ASSUME SubscriptionInv, StripeStep
    PROVE  \E s \in Subs : \E type, told, new : Adds(s, type, told, new)
<1> USE DEF SubscriptionInv, StripeType, States, Adds
<1>1. PICK s \in Subs : \/ \E plan \in Plans : Checkout(s, plan)
                        \/ \E plan \in Plans, status \in Statuses : Change(s, State(plan, status))
                        \/ End(s)
  BY DEF StripeStep
<1>2. ASSUME NEW plan \in Plans, Checkout(s, plan)
      PROVE  Adds(s, "checkout", State(plan, "active"), State(plan, "active"))
  BY <1>2 DEF Checkout, NotBought, State, Statuses
<1>3. ASSUME NEW plan \in Plans, NEW status \in Statuses, Change(s, State(plan, status))
      PROVE  Adds(s, "updated", State(plan, status), State(plan, status))
  BY <1>3 DEF Change, State
<1>4. ASSUME End(s)
      PROVE  Adds(s, "deleted", stripe[s], [stripe[s] EXCEPT !.status = "deleted"])
  BY <1>4 DEF End
<1> HIDE DEF Adds
<1> QED
  BY <1>1, <1>2, <1>3, <1>4

LEMMA StripeKeeps ==
    ASSUME SubscriptionInv, StripeStep
    PROVE  SubscriptionInv'
<1>1. PICK s \in Subs : \E type, told, new : Adds(s, type, told, new)
  BY StripeAdds
<1>2. PICK type, told, new : Adds(s, type, told, new)
  BY <1>1
<1> USE DEF Adds
<1>3. provider = "stripe" /\ UNCHANGED <<provider, grant, licence, loads, today>>
  BY DEF StripeStep, Checkout, Change, End, columns, licenceVars
<1>4. stripe \in StripeType /\ ByStripe
  BY <1>3 DEF SubscriptionInv
<1>5. stripe' \in StripeType
  BY <1>2, <1>4 DEF StripeType
<1>6. \A r \in Subs : stripe[r].status = "deleted" => stripe'[r].status = "deleted"
  BY <1>2, <1>4 DEF StripeType
<1>7. ASSUME NEW e \in events' PROVE EventOK(e)'
  <2>1. CASE e \in events
    BY <2>1, <1>2, <1>4, <1>6 DEF ByStripe, EventOK
  <2>2. CASE e = Event(type, s, told)
    <3>1. e.sub = s /\ e.type = type /\ e.state = told
      BY <2>2 DEF Event
    <3>2. stripe'[s] = new
      BY <1>2, <1>4 DEF StripeType
    <3> QED
      BY <3>1, <3>2, <1>2 DEF EventOK
  <2> QED
    BY <1>2, <2>1, <2>2
<1>8. SoldByStripe'
  BY <1>2, <1>3, <1>4, <1>6 DEF ByStripe, SoldByStripe
<1> QED
  BY <1>3, <1>4, <1>5, <1>7, <1>8 DEF SubscriptionInv, ByStripe

\* An event writes the whole of what it says, or ends what is stored.
LEMMA EventKeeps ==
    ASSUME SubscriptionInv, NEW e \in events, Handled(e)
    PROVE  SubscriptionInv'
<1>1. events' \subseteq events /\ UNCHANGED <<provider, stripe, licence, loads, today, sold>>
  BY DEF Handled, licenceVars
<1>2. CASE provider = "licence"
  BY <1>2 DEF SubscriptionInv, ByLicence
<1>3. CASE provider = "stripe"
  <2>1. ByStripe /\ EventOK(e) /\ grant \in GrantType /\ stripe \in StripeType
    BY <1>3 DEF SubscriptionInv, ByStripe
  <2>2. \A f \in events' : EventOK(f)'
    BY <1>1, <2>1 DEF ByStripe, EventOK
  <2> SUFFICES grant' \in GrantType /\ SoldByStripe' /\ (grant'.sub # None => grant'.status \in Statuses)
    BY <1>1, <1>3, <2>1, <2>2 DEF SubscriptionInv, ByStripe
  <2>3. CASE e.type # "deleted" /\ grant' = Columns(e)
    <3>1. e.state \in States /\ <<e.sub, e.state>> \in sold /\ e.sub \in Subs
      BY <2>1, <2>3 DEF EventOK
    <3>2. State(e.state.plan, e.state.status) = e.state
      BY <3>1 DEF States, State
    <3> QED
      BY <1>1, <2>1, <2>3, <3>1, <3>2, SubscriptionAssumption
         DEF Columns, Grant, GrantType, States, SoldByStripe
  <2>4. CASE UpdatedFirm(e) /\ grant' = [Columns(e) EXCEPT !.sub = grant.sub]
    <3>1. grant' = Columns(e) /\ e.type # "deleted"
      BY <2>4 DEF UpdatedFirm, Columns, Grant
    <3> QED
      BY <2>3, <3>1
  <2>5. CASE e.type = "deleted" /\ grant.sub # e.sub /\ grant' = grant
    BY <1>1, <2>1, <2>5 DEF ByStripe, SoldByStripe
  <2>6. CASE e.type = "deleted" /\ grant.sub = e.sub
             /\ grant' = [grant EXCEPT !.status = "canceled", !.sub = None]
    <3>1. stripe[e.sub].status = "deleted" /\ e.sub \in Subs /\ grant.sub # None
      BY <2>1, <2>6, SubscriptionAssumption DEF EventOK
    <3>2. <<e.sub, State(grant.tier, grant.status)>> \in sold /\ grant.status \in Statuses
          /\ grant.cap = Cap[grant.tier]
      BY <2>1, <2>6, <3>1 DEF ByStripe, SoldByStripe
    <3>3. grant' \in GrantType /\ grant'.sub = None /\ grant'.status = "canceled"
          /\ grant'.tier = grant.tier /\ grant'.cap = grant.cap
      BY <2>1, <2>6 DEF GrantType, Statuses
    <3> QED
      BY <1>1, <3>1, <3>2, <3>3 DEF SoldByStripe
  <2> QED
    BY <2>3, <2>4, <2>5, <2>6 DEF Handled
<1> QED
  BY <1>2, <1>3, SubscriptionAssumption DEF SubscriptionInv

LEMMA LicenceColumnsTyped ==
    ASSUME NEW l \in Licences, NEW expired \in BOOLEAN
    PROVE  LicenceColumns(l, expired) \in GrantType
BY SubscriptionAssumption DEF LicenceColumns, Grant, GrantType, Statuses

\* A check writes what it read, an upload what it stores.
LEMMA LicenceKeeps ==
    ASSUME SubscriptionInv, LicenceStep
    PROVE  SubscriptionInv'
<1>1. CASE provider = "stripe"
  BY <1>1 DEF SubscriptionInv, ByStripe, LicenceStep, UploadLicence, ReadLicence, NextDay
<1>2. CASE provider = "licence"
  <2>1. ByLicence /\ grant \in GrantType /\ stripe \in StripeType /\ today \in Nat
    BY <1>2 DEF SubscriptionInv
  <2> USE DEF ByLicence, Licensed
  <2>2. ASSUME NEW l \in Licences, UploadLicence(l) PROVE SubscriptionInv'
    <3>1. LoadOK(Load("upload", l, FALSE))'
      BY DEF LoadOK, Load
    <3>2. \A p \in loads : LoadOK(p)'
      BY <2>1, <2>2 DEF UploadLicence, LoadOK, Expired
    <3> QED
      BY <1>2, <2>1, <2>2, <3>1, <3>2 DEF UploadLicence, SubscriptionInv, columns, FirstGrant, LicenceColumns, Expired
  <2>3. CASE ReadLicence
    <3>1. licence \in sold /\ licence \in Licences
      BY <2>1, <2>3 DEF ReadLicence
    <3>2. ASSUME NEW p, p = Load("check", licence, Expired(licence)) PROVE LoadOK(p)'
      <4>1. p.type = "check" /\ p.licence = licence /\ p.expired = Expired(licence)
        BY <3>2, Zenon DEF Load
      <4>2. Expired(licence) \in BOOLEAN /\ UNCHANGED <<licence, today, sold>>
        BY <2>3 DEF ReadLicence, Expired
      <4>3. p.expired \in BOOLEAN /\ (p.expired => Expired(p.licence))
        BY <4>1, <4>2, Zenon
      <4> QED
        BY <3>1, <4>1, <4>2, <4>3 DEF LoadOK, Expired
    <3>3. \A p \in loads : LoadOK(p)'
      BY <2>1, <2>3 DEF ReadLicence, LoadOK, Expired
    <3> QED
      BY <1>2, <2>1, <2>3, <3>2, <3>3 DEF ReadLicence, SubscriptionInv, columns, FirstGrant, LicenceColumns, Expired
  <2>4. CASE NextDay
    <3>1. \A l \in Licences : Expired(l) => Expired(l)'
      BY <2>1, <2>4, SubscriptionAssumption DEF NextDay, Expired
    <3>2. \A p \in loads : LoadOK(p)'
      BY <2>1, <2>4, <3>1 DEF NextDay, LoadOK
    <3>3. today' \in Nat /\ UNCHANGED <<provider, grant, stripe, events, licence, loads, sold>>
      BY <2>1, <2>4 DEF NextDay, columns
    <3>4. Licensed'
      BY <2>1, <3>1, <3>3 DEF LicenceColumns, FirstGrant
    <3> QED
      BY <1>2, <2>1, <3>2, <3>3, <3>4 DEF SubscriptionInv
  <2>5. ASSUME NEW p \in loads, InstallLicence(p) PROVE SubscriptionInv'
    <3>1. p.licence \in Licences
      BY <2>1 DEF LoadOK
    <3>2. /\ loads' = loads \ {p} /\ licence' = p.licence /\ sold' = sold \cup {p.licence}
          /\ grant' = LicenceColumns(p.licence, FALSE) /\ UNCHANGED <<provider, stripe, events, today>>
      BY <2>5 DEF InstallLicence
    <3>3. \A q \in loads' : LoadOK(q)'
      BY <2>1, <3>2 DEF LoadOK, Expired
    <3>4. Licensed'
      BY <3>2 DEF LicenceColumns
    <3> QED
      BY <1>2, <2>1, <3>1, <3>2, <3>3, <3>4, LicenceColumnsTyped DEF SubscriptionInv
  <2>6. ASSUME NEW p \in loads, RepairColumns(p) PROVE SubscriptionInv'
    <3>1. /\ p.licence \in sold /\ p.licence \in Licences /\ p.expired \in BOOLEAN
          /\ p.expired => Expired(p.licence)
      BY <2>1, <2>6 DEF LoadOK, RepairColumns
    <3>2. /\ loads' = loads \ {p} /\ grant' = LicenceColumns(p.licence, p.expired)
          /\ UNCHANGED <<provider, stripe, events, licence, today, sold>>
      BY <2>6 DEF RepairColumns
    <3>3. \A q \in loads' : LoadOK(q)'
      BY <2>1, <3>2 DEF LoadOK, Expired
    <3>4. Licensed'
      BY <3>1, <3>2 DEF LicenceColumns, Expired
    <3> QED
      BY <1>2, <2>1, <3>1, <3>2, <3>3, <3>4, LicenceColumnsTyped DEF SubscriptionInv
  <2>7. ASSUME NEW p \in loads, LoadFails(p) PROVE SubscriptionInv'
    <3>1. \A q \in loads' : LoadOK(q)'
      BY <2>1, <2>7 DEF LoadFails, LoadOK, Expired
    <3> QED
      BY <1>2, <2>1, <2>7, <3>1 DEF LoadFails, SubscriptionInv, columns, FirstGrant, LicenceColumns, Expired
  <2> QED
    BY <2>2, <2>3, <2>4, <2>5, <2>6, <2>7 DEF LicenceStep
<1> QED
  BY <1>1, <1>2, SubscriptionAssumption DEF SubscriptionInv

\* A request that checks the licence repairs the columns before it goes on.
LEMMA RequestKeeps ==
    ASSUME SubscriptionInv, IsActive, UNCHANGED butGrant
    PROVE  SubscriptionInv'
<1>1. UNCHANGED <<provider, stripe, events, licence, loads, today, sold>>
  BY DEF butGrant, licenceVars
<1>2. CASE UNCHANGED grant
  BY <1>1, <1>2 DEF SubscriptionInv, StripeType, ByStripe, ByLicence, SoldByStripe, Licensed, EventOK,
     LoadOK, Expired, FirstGrant, LicenceColumns
<1>3. CASE provider = "licence" /\ licence # None /\ grant' = LicenceColumns(licence, FALSE)
  <2>1. ByLicence /\ licence \in sold /\ licence \in Licences
    BY <1>3 DEF SubscriptionInv, ByLicence
  <2>2. Licensed'
    BY <1>1, <1>3, <2>1 DEF Licensed, LicenceColumns
  <2>3. \A p \in loads : LoadOK(p)'
    BY <1>1, <2>1 DEF ByLicence, LoadOK, Expired
  <2> QED
    BY <1>1, <1>3, <2>1, <2>2, <2>3, LicenceColumnsTyped DEF SubscriptionInv, ByLicence
<1> QED
  BY <1>2, <1>3 DEF IsActive

LEMMA SubscriptionStands ==
    ASSUME SubscriptionInv, UNCHANGED subscriptionVars
    PROVE  SubscriptionInv'
BY DEF subscriptionVars, columns, licenceVars, SubscriptionInv, StripeType, ByStripe, ByLicence, SoldByStripe,
       Licensed, EventOK, LoadOK, Expired, FirstGrant, LicenceColumns

-----------------------------------------------------------------------------
(* JpkSubmission                                                           *)

Files == 1..MaxFiles
PartType == [file : Files, key : Nat, number : Nat]
Documents == [file : Files, key : Nat, parts : [1..Parts -> PartType]]
Codes == {0, 200, 300, 400}
Verdicts == {"submitting", "processing", "accepted", "rejected", "error"}
UploadSteps == {"sign", "init", "put", "finish", "poll", "record", "failed", "done"}
MetadataType == Documents \cup [signed : Documents]
RowType == [file : Files, metadata : MetadataType, step : UploadSteps,
            ref : Nat, put : Nat, polls : Nat, code : Codes,
            status : Verdicts]
UploadType == [declared : Documents, stored : SUBSET PartType, finished : BOOLEAN,
               code : {200, 300, 400}]

SubmissionType == /\ preparation \in Seq(Files)
                  /\ submissions \in Seq(RowType) /\ gateway \in Seq(UploadType)

\* What the gateway was told of a submission that it has a session for.
HasUpload(s) ==
    /\ submissions[s].ref \in DOMAIN gateway
    /\ gateway[submissions[s].ref].declared = Metadata(submissions[s].file, s)

\* What a request knows at each of its steps.  The upload session is its own, for
\* no other submission has its key, so nobody else ends it.
StepOK(s) ==
    /\ submissions[s].step = "sign" => submissions[s].metadata = Metadata(submissions[s].file, s)
    /\ submissions[s].step = "init" => submissions[s].metadata = Signed(Metadata(submissions[s].file, s))
    /\ submissions[s].step \in {"put", "finish", "poll", "record"} => HasUpload(s)
    /\ submissions[s].step \in {"put", "finish"} => ~gateway[submissions[s].ref].finished
    /\ submissions[s].step = "record" =>
          /\ submissions[s].code # 0
          /\ submissions[s].code # 300 => gateway[submissions[s].ref].code = submissions[s].code

\* A verdict is stored by a request that is over.
RowOK(s) ==
    submissions[s].status \in {"accepted", "rejected"} =>
        /\ submissions[s].step = "done" /\ HasUpload(s)
        /\ StatusOf(gateway[submissions[s].ref].code) = submissions[s].status

UploadOK(upload) ==
    /\ upload.code # 300 => upload.finished
    /\ upload.code = 200 => IsWhole(upload)

SubmissionInv ==
    /\ SubmissionType
    /\ \A s \in Submissions : StepOK(s) /\ RowOK(s)
    /\ \A ref \in DOMAIN gateway : UploadOK(gateway[ref])

LEMMA MetadataTyped ==
    ASSUME NEW file \in Files, NEW key \in Nat
    PROVE  /\ Metadata(file, key) \in Documents
           /\ Signed(Metadata(file, key)) \in [signed : Documents]
           /\ Metadata(file, key).key = key
           /\ \A number \in 1..Parts : Metadata(file, key).parts[number] = Part(file, key, number)
<1>1. PartsOf(file, key) \in [1..Parts -> PartType]
  BY SubmissionAssumption DEF PartsOf, Part, PartType
<1> QED
  BY <1>1 DEF Metadata, Documents, Signed, PartsOf

\* Two requests never share an upload session.
LEMMA OwnSession ==
    ASSUME SubmissionInv, NEW s \in Submissions, NEW t \in Submissions, HasUpload(s), HasUpload(t),
           submissions[s].ref = submissions[t].ref
    PROVE  s = t
<1>1. Metadata(submissions[s].file, s).key = s /\ Metadata(submissions[t].file, t).key = t
  BY DEF Metadata
<1> QED
  BY <1>1 DEF HasUpload

LEMMA SubmissionStarts == SubmissionInit => SubmissionInv
BY DEF SubmissionInit, SubmissionInv, SubmissionType, Submissions

\* A new row is the last, and the others stay.
LEMMA SubmitKeeps ==
    ASSUME SubmissionInv, Submit
    PROVE  SubmissionInv'
<1>1. PICK s, file, new :
          /\ s = Len(submissions) + 1 /\ file = preparation[1]
          /\ new = [file |-> file, metadata |-> Metadata(file, s), step |-> "sign",
                     ref |-> 0, put |-> 0, polls |-> 0, code |-> 0, status |-> "submitting"]
  OBVIOUS
<1>2. submissions' = Append(submissions, new) /\ UNCHANGED <<preparation, gateway>>
  BY <1>1 DEF Submit
<1>3. file \in Files /\ s \in Nat /\ SubmissionType
  BY <1>1 DEF Submit, SubmissionInv, SubmissionType
<1>4. new \in RowType
  BY <1>1, <1>3, MetadataTyped DEF RowType, MetadataType, UploadSteps, Verdicts, Codes
<1>5. /\ submissions' \in Seq(RowType) /\ Submissions' = Submissions \cup {s}
      /\ submissions'[s] = new /\ s \notin Submissions
      /\ \A t \in Submissions : submissions'[t] = submissions[t]
  BY <1>1, <1>2, <1>3, <1>4 DEF SubmissionType, Submissions
<1>6. StepOK(s)' /\ RowOK(s)'
  BY <1>1, <1>5 DEF StepOK, RowOK
<1>7. ASSUME NEW t \in Submissions PROVE StepOK(t)' /\ RowOK(t)'
  <2>1. StepOK(t) /\ RowOK(t) /\ submissions'[t] = submissions[t] /\ gateway' = gateway
    BY <1>2, <1>5 DEF SubmissionInv
  <2>2. HasUpload(t)' <=> HasUpload(t)
    BY <2>1 DEF HasUpload
  <2>3. StepOK(t)'
    BY <2>1, <2>2 DEF StepOK
  <2> QED
    BY <2>1, <2>2, <2>3 DEF RowOK
<1>8. \A ref \in DOMAIN gateway' : UploadOK(gateway[ref])'
  BY <1>2 DEF SubmissionInv
<1> QED
  BY <1>2, <1>3, <1>5, <1>6, <1>7, <1>8 DEF SubmissionInv, SubmissionType

\* What a request does to its own row, and to no session but its own.
LEMMA RequestStep ==
    ASSUME SubmissionInv, NEW s \in Submissions, NEW new \in RowType,
           submissions' = [submissions EXCEPT ![s] = new], UNCHANGED preparation,
           gateway' \in Seq(UploadType), DOMAIN gateway \subseteq DOMAIN gateway',
           \A ref \in DOMAIN gateway' : UploadOK(gateway'[ref]),
           \A ref \in DOMAIN gateway :
               gateway'[ref] = gateway[ref] \/ (HasUpload(s) /\ ref = submissions[s].ref),
           (StepOK(s) /\ RowOK(s))'
    PROVE  SubmissionInv'
<1>1. /\ submissions' \in Seq(RowType) /\ Submissions' = Submissions
      /\ submissions'[s] = new /\ \A t \in Submissions \ {s} : submissions'[t] = submissions[t]
  BY DEF SubmissionInv, SubmissionType, Submissions
<1>2. ASSUME NEW t \in Submissions \ {s} PROVE StepOK(t)' /\ RowOK(t)'
  <2>1. StepOK(t) /\ RowOK(t) /\ submissions'[t] = submissions[t]
    BY <1>1 DEF SubmissionInv
  <2>2. ASSUME HasUpload(t)
        PROVE  HasUpload(t)' /\ gateway'[submissions[t].ref] = gateway[submissions[t].ref]
    <3>1. gateway'[submissions[t].ref] = gateway[submissions[t].ref]
      BY <2>2, OwnSession DEF HasUpload
    <3> QED
      BY <2>1, <2>2, <3>1 DEF HasUpload
  <2>3. StepOK(t)'
    BY <2>1, <2>2 DEF StepOK
  <2> QED
    BY <2>1, <2>2, <2>3 DEF RowOK
<1> QED
  BY <1>1, <1>2 DEF SubmissionInv, SubmissionType

\* A step that leaves the gateway alone.
LEMMA PortalStep ==
    ASSUME SubmissionInv, NEW s \in Submissions, NEW new \in RowType, Go(s, new),
           UNCHANGED <<preparation, gateway>>, (StepOK(s) /\ RowOK(s))'
    PROVE  SubmissionInv'
<1>1. gateway' \in Seq(UploadType) /\ \A ref \in DOMAIN gateway' : UploadOK(gateway'[ref])
  BY DEF SubmissionInv, SubmissionType
<1> QED
  BY <1>1, RequestStep DEF Go

LEMMA RowTyped ==
    ASSUME NEW row \in RowType
    PROVE  /\ \A step \in UploadSteps : [row EXCEPT !.step = step] \in RowType
           /\ \A metadata \in MetadataType : [row EXCEPT !.metadata = metadata] \in RowType
           /\ \A ref \in Nat : [row EXCEPT !.ref = ref] \in RowType
           /\ \A put \in Nat : [row EXCEPT !.put = put] \in RowType
           /\ \A code \in Codes : [row EXCEPT !.code = code] \in RowType
           /\ \A polls \in Nat : [row EXCEPT !.polls = polls] \in RowType
           /\ \A status \in Verdicts : [row EXCEPT !.status = status] \in RowType
<1>1. \A step \in UploadSteps : [row EXCEPT !.step = step] \in RowType
  BY DEF RowType
<1>2. \A metadata \in MetadataType : [row EXCEPT !.metadata = metadata] \in RowType
  BY DEF RowType
<1>3. \A n \in Nat : [row EXCEPT !.ref = n] \in RowType /\ [row EXCEPT !.put = n] \in RowType
  BY DEF RowType
<1>4. /\ \A code \in Codes : [row EXCEPT !.code = code] \in RowType
      /\ \A polls \in Nat : [row EXCEPT !.polls = polls] \in RowType
  BY DEF RowType
<1>5. \A status \in Verdicts : [row EXCEPT !.status = status] \in RowType
  BY DEF RowType
<1> QED
  BY <1>1, <1>2, <1>3, <1>4, <1>5

LEMMA MovedTyped ==
    ASSUME SubmissionInv, NEW s \in Submissions, NEW step \in UploadSteps
    PROVE  /\ submissions \in Seq(RowType) /\ submissions[s] \in RowType /\ s \in Nat /\ StepOK(s) /\ RowOK(s)
           /\ \E new \in RowType :
                 /\ new = Moved(s, step) /\ new.step = step
                 /\ new.file = submissions[s].file /\ new.metadata = submissions[s].metadata
                 /\ new.ref = submissions[s].ref /\ new.put = submissions[s].put
                 /\ new.polls = submissions[s].polls /\ new.code = submissions[s].code
                 /\ new.status = submissions[s].status
<1>1. submissions \in Seq(RowType) /\ submissions[s] \in RowType /\ s \in Nat /\ StepOK(s) /\ RowOK(s)
  BY DEF SubmissionInv, SubmissionType, Submissions
<1>2. PICK row : row = submissions[s]
  OBVIOUS
<1>3. [row EXCEPT !.step = step] \in RowType
  BY <1>1, <1>2, RowTyped
<1>4. PICK new : new = [row EXCEPT !.step = step]
  OBVIOUS
<1>5. /\ new.step = step /\ new.file = row.file /\ new.metadata = row.metadata /\ new.ref = row.ref
      /\ new.put = row.put /\ new.polls = row.polls /\ new.code = row.code /\ new.status = row.status
  BY <1>1, <1>2, <1>4 DEF RowType
<1> QED
  BY <1>1, <1>2, <1>3, <1>4, <1>5, Zenon DEF Moved

\* A step to failed or done knows nothing, and keeps a row that has no verdict.
LEMMA Ends ==
    ASSUME SubmissionInv, NEW s \in Submissions, NEW step \in {"failed", "done"},
           Go(s, Moved(s, step)), ~At(s, "done")
    PROVE  Moved(s, step) \in RowType /\ (StepOK(s) /\ RowOK(s))'
<1>1. PICK new \in RowType : /\ new = Moved(s, step) /\ new.step = step
                             /\ new.status = submissions[s].status
  BY MovedTyped DEF UploadSteps
<1>2. submissions'[s] = new /\ RowOK(s)
  BY <1>1, MovedTyped DEF Go, Submissions, UploadSteps
<1> QED
  BY <1>1, <1>2 DEF StepOK, RowOK, At

LEMMA FailureKeeps ==
    ASSUME SubmissionInv, NEW s \in Submissions, CallFails(s) \/ SubmissionCrash(s)
    PROVE  SubmissionInv'
BY Ends, PortalStep DEF CallFails, SubmissionCrash, Failed, At

LEMMA SignKeeps ==
    ASSUME SubmissionInv, NEW s \in Submissions, SignMetadata(s)
    PROVE  SubmissionInv'
<1>1. PICK moved \in RowType :
          /\ moved = Moved(s, "init") /\ moved.step = "init" /\ moved.file = submissions[s].file
          /\ moved.metadata = submissions[s].metadata /\ moved.status = submissions[s].status
  BY MovedTyped DEF UploadSteps
<1>2. PICK new : new = [moved EXCEPT !.metadata = Signed(moved.metadata)]
  OBVIOUS
<1>3. Go(s, new) /\ UNCHANGED <<preparation, gateway>> /\ At(s, "sign")
  BY <1>1, <1>2 DEF SignMetadata
<1>4. submissions \in Seq(RowType) /\ RowOK(s) /\ StepOK(s) /\ s \in Nat
  BY MovedTyped DEF UploadSteps
<1>5. moved.file \in Files /\ moved.metadata = Metadata(moved.file, s)
  <2>1. moved.file \in Files
    BY DEF RowType
  <2> QED
    BY <2>1, <1>1, <1>3, <1>4 DEF StepOK, At
<1>6. new \in RowType
  <2>1. Signed(moved.metadata) \in MetadataType
    BY <1>4, <1>5, MetadataTyped DEF MetadataType
  <2> QED
    BY <1>2, <2>1, RowTyped
<1>7. /\ new.step = "init" /\ new.status = submissions[s].status
      /\ new.file = moved.file /\ new.metadata = Signed(Metadata(moved.file, s))
  BY <1>1, <1>2, <1>5 DEF RowType
<1>8. submissions'[s] = new
  BY <1>3, <1>4 DEF Go, Submissions
<1>9. (StepOK(s) /\ RowOK(s))'
  BY <1>3, <1>4, <1>7, <1>8 DEF StepOK, RowOK, At
<1> QED
  BY <1>3, <1>6, <1>9, PortalStep

\* The gateway opens a session for what the signed metadata declare.
LEMMA InitKeeps ==
    ASSUME SubmissionInv, NEW s \in Submissions, InitUpload(s)
    PROVE  SubmissionInv'
<1>1. PICK moved \in RowType :
          /\ moved = Moved(s, "put") /\ moved.step = "put" /\ moved.file = submissions[s].file
          /\ moved.metadata = submissions[s].metadata /\ moved.status = submissions[s].status
  BY MovedTyped DEF UploadSteps
<1>2. PICK ref, new : ref = Len(gateway) + 1 /\ new = [moved EXCEPT !.ref = ref]
  OBVIOUS
<1>3. PICK upload : upload = [declared |-> submissions[s].metadata.signed, stored |-> {},
                              finished |-> FALSE, code |-> 300]
  OBVIOUS
<1>4. /\ submissions \in Seq(RowType) /\ gateway \in Seq(UploadType) /\ RowOK(s) /\ StepOK(s) /\ s \in Nat
      /\ ref \in Nat
  BY <1>2, MovedTyped DEF UploadSteps, SubmissionInv, SubmissionType
<1>5. At(s, "init") /\ gateway' = Append(gateway, upload) /\ UNCHANGED preparation
      /\ (Go(s, new) \/ Go(s, Failed(s)))
  BY <1>1, <1>2, <1>3 DEF InitUpload, Answered
<1>6. moved.file \in Files /\ moved.metadata = Signed(Metadata(moved.file, s))
  <2>1. moved.file \in Files
    BY DEF RowType
  <2> QED
    BY <2>1, <1>1, <1>4, <1>5 DEF StepOK, At
<1>7. upload.declared = Metadata(moved.file, s) /\ upload \in UploadType
      /\ upload.code = 300 /\ ~upload.finished
  BY <1>1, <1>3, <1>4, <1>6, MetadataTyped DEF Signed, UploadType
<1>8. /\ gateway' \in Seq(UploadType) /\ DOMAIN gateway' = DOMAIN gateway \cup {ref}
      /\ gateway'[ref] = upload /\ \A r \in DOMAIN gateway : gateway'[r] = gateway[r]
  BY <1>2, <1>4, <1>5, <1>7
<1>9. \A r \in DOMAIN gateway' : UploadOK(gateway'[r])
  <2>1. UploadOK(upload)
    BY <1>7 DEF UploadOK
  <2> QED
    BY <1>8, <2>1 DEF SubmissionInv
<1>10. CASE Go(s, new)
  <2>1. new \in RowType
    BY <1>2, <1>4, RowTyped
  <2>2. new.step = "put" /\ new.status = submissions[s].status /\ new.file = moved.file /\ new.ref = ref
    BY <1>1, <1>2 DEF RowType
  <2>3. submissions'[s] = new
    BY <1>4, <1>10 DEF Go, Submissions
  <2>4. (StepOK(s) /\ RowOK(s))'
    BY <1>4, <1>5, <1>7, <1>8, <2>2, <2>3 DEF StepOK, RowOK, At, HasUpload
  <2> QED
    BY <1>5, <1>8, <1>9, <1>10, <2>1, <2>4, RequestStep DEF Go
<1>11. CASE Go(s, Failed(s))
  <2>1. Failed(s) \in RowType /\ (StepOK(s) /\ RowOK(s))'
    BY <1>5, <1>11, Ends DEF Failed, At
  <2> QED
    BY <1>5, <1>8, <1>9, <1>11, <2>1, RequestStep DEF Go
<1> QED
  BY <1>5, <1>10, <1>11

\* A part is put into the request's own session, which is not finished yet.
LEMMA PutKeeps ==
    ASSUME SubmissionInv, NEW s \in Submissions, PutPart(s)
    PROVE  SubmissionInv'
<1>1. PICK step, ref, number :
          /\ number = submissions[s].put + 1 /\ ref = submissions[s].ref
          /\ step = IF number = Parts THEN "finish" ELSE "put"
  OBVIOUS
<1>2. step \in {"put", "finish"}
  BY <1>1
<1>3. PICK moved \in RowType :
          /\ moved = Moved(s, step) /\ moved.step = step /\ moved.file = submissions[s].file
          /\ moved.ref = ref /\ moved.status = submissions[s].status
  BY <1>1, <1>2, MovedTyped DEF UploadSteps
<1>4. PICK part, upload, new :
          /\ part = Part(submissions[s].file, s, number)
          /\ upload = [gateway[ref] EXCEPT !.stored = gateway[ref].stored \cup {part}]
          /\ new = [moved EXCEPT !.put = number]
  OBVIOUS
<1>5. /\ submissions \in Seq(RowType) /\ gateway \in Seq(UploadType) /\ RowOK(s) /\ StepOK(s) /\ s \in Nat
      /\ submissions[s].file \in Files /\ number \in Nat
  <2>1. submissions[s] \in RowType
    BY MovedTyped DEF UploadSteps
  <2>2. submissions[s].file \in Files /\ submissions[s].put \in Nat
    BY <2>1 DEF RowType
  <2> QED
    BY <1>1, <2>2, MovedTyped DEF UploadSteps, SubmissionInv, SubmissionType
<1>6. At(s, "put") /\ HasUpload(s) /\ ref \in DOMAIN gateway /\ ~gateway[ref].finished
  BY <1>1, <1>5 DEF PutPart, StepOK, At, HasUpload
<1>7. gateway' = [gateway EXCEPT ![ref] = upload] /\ UNCHANGED preparation
      /\ (Go(s, new) \/ Go(s, Failed(s)))
  BY <1>1, <1>3, <1>4 DEF PutPart, Answered
<1>8. gateway[ref] \in UploadType /\ UploadOK(gateway[ref])
  BY <1>5, <1>6 DEF SubmissionInv
<1>9. upload \in UploadType /\ upload.declared = gateway[ref].declared
      /\ upload.code = 300 /\ ~upload.finished
  <2>1. part \in PartType
    BY <1>4, <1>5 DEF Part, PartType
  <2> QED
    BY <1>4, <1>6, <1>8, <2>1 DEF UploadType, UploadOK
<1>10. /\ gateway' \in Seq(UploadType) /\ DOMAIN gateway' = DOMAIN gateway /\ gateway'[ref] = upload
       /\ \A r \in DOMAIN gateway \ {ref} : gateway'[r] = gateway[r]
  BY <1>5, <1>6, <1>7, <1>9
<1>11. \A r \in DOMAIN gateway' : UploadOK(gateway'[r])
  <2>1. UploadOK(upload)
    BY <1>9 DEF UploadOK
  <2> QED
    BY <1>10, <2>1 DEF SubmissionInv
<1>12. CASE Go(s, new)
  <2>1. new \in RowType
    BY <1>4, <1>5, RowTyped
  <2>2. new.step = step /\ new.status = submissions[s].status /\ new.ref = ref
        /\ new.file = submissions[s].file
    BY <1>3, <1>4 DEF RowType
  <2>3. submissions'[s] = new
    BY <1>5, <1>12 DEF Go, Submissions
  <2>4. (StepOK(s) /\ RowOK(s))'
    BY <1>1, <1>2, <1>5, <1>6, <1>9, <1>10, <2>2, <2>3 DEF StepOK, RowOK, At, HasUpload
  <2> QED
    BY <1>1, <1>6, <1>7, <1>10, <1>11, <1>12, <2>1, <2>4, RequestStep DEF Go
<1>13. CASE Go(s, Failed(s))
  <2>1. Failed(s) \in RowType /\ (StepOK(s) /\ RowOK(s))'
    BY <1>6, <1>13, Ends DEF Failed, At
  <2> QED
    BY <1>1, <1>6, <1>7, <1>10, <1>11, <1>13, <2>1, RequestStep DEF Go
<1> QED
  BY <1>7, <1>12, <1>13

\* A session that is finished is as it was in all else.
LEMMA FinishedTyped ==
    ASSUME NEW old \in UploadType, NEW new, new = [old EXCEPT !.finished = TRUE]
    PROVE  new \in UploadType /\ new.declared = old.declared /\ new.code = old.code
<1>1. PICK P, C : P = SUBSET PartType /\ C = {200, 300, 400}
  OBVIOUS
<1>2. UploadType = [declared : Documents, stored : P, finished : BOOLEAN, code : C]
  BY <1>1 DEF UploadType
<1>3. /\ new \in [declared : Documents, stored : P, finished : BOOLEAN, code : C]
      /\ new.declared = old.declared /\ new.code = old.code
  BY <1>2
<1> QED
  BY <1>2, <1>3

\* The upload is finished: nobody else was putting parts into the session.
LEMMA FinishKeeps ==
    ASSUME SubmissionInv, NEW s \in Submissions, FinishUpload(s)
    PROVE  SubmissionInv'
<1>1. PICK ref : ref = submissions[s].ref
  OBVIOUS
<1>2. PICK new \in RowType :
          /\ new = Moved(s, "poll") /\ new.step = "poll" /\ new.file = submissions[s].file
          /\ new.ref = ref /\ new.status = submissions[s].status
  BY <1>1, MovedTyped DEF UploadSteps
<1>3. PICK upload : upload = [gateway[ref] EXCEPT !.finished = TRUE]
  OBVIOUS
<1>4. submissions \in Seq(RowType) /\ gateway \in Seq(UploadType) /\ RowOK(s) /\ StepOK(s) /\ s \in Nat
  BY MovedTyped DEF UploadSteps, SubmissionInv, SubmissionType
<1>5. At(s, "finish") /\ HasUpload(s) /\ ref \in DOMAIN gateway /\ ~gateway[ref].finished
  BY <1>1, <1>4 DEF FinishUpload, StepOK, At, HasUpload
<1>6. gateway' = [gateway EXCEPT ![ref] = upload] /\ UNCHANGED preparation
      /\ (Go(s, new) \/ Go(s, Failed(s)))
  BY <1>1, <1>2, <1>3 DEF FinishUpload, Answered
<1>7. gateway[ref] \in UploadType /\ UploadOK(gateway[ref])
  BY <1>4, <1>5 DEF SubmissionInv
<1>8. upload \in UploadType /\ upload.declared = gateway[ref].declared /\ upload.code = 300
  <2>1. PICK old \in UploadType : old = gateway[ref]
    BY <1>7
  <2>2. upload = [old EXCEPT !.finished = TRUE]
    BY <1>3, <2>1
  <2>3. old.code = 300
    BY <1>5, <1>7, <2>1 DEF UploadOK
  <2>4. upload \in UploadType /\ upload.declared = old.declared /\ upload.code = old.code
    BY <2>1, <2>2, FinishedTyped
  <2> QED
    BY <2>1, <2>3, <2>4
<1>9. /\ gateway' \in Seq(UploadType) /\ DOMAIN gateway' = DOMAIN gateway /\ gateway'[ref] = upload
      /\ \A r \in DOMAIN gateway \ {ref} : gateway'[r] = gateway[r]
  BY <1>4, <1>5, <1>6, <1>8
<1>10. \A r \in DOMAIN gateway' : UploadOK(gateway'[r])
  <2>1. UploadOK(upload)
    BY <1>8 DEF UploadOK
  <2> QED
    BY <1>9, <2>1 DEF SubmissionInv
<1>11. CASE Go(s, new)
  <2>1. submissions'[s] = new
    BY <1>4, <1>11 DEF Go, Submissions
  <2>2. (StepOK(s) /\ RowOK(s))'
    BY <1>1, <1>2, <1>4, <1>5, <1>8, <1>9, <2>1 DEF StepOK, RowOK, At, HasUpload
  <2> QED
    BY <1>1, <1>5, <1>6, <1>9, <1>10, <1>11, <2>2, RequestStep DEF Go
<1>12. CASE Go(s, Failed(s))
  <2>1. Failed(s) \in RowType /\ (StepOK(s) /\ RowOK(s))'
    BY <1>5, <1>12, Ends DEF Failed, At
  <2> QED
    BY <1>1, <1>5, <1>6, <1>9, <1>10, <1>12, <2>1, RequestStep DEF Go
<1> QED
  BY <1>6, <1>11, <1>12

\* The request keeps what the gateway answered.
LEMMA PollKeeps ==
    ASSUME SubmissionInv, NEW s \in Submissions, Poll(s)
    PROVE  SubmissionInv'
<1>1. PICK ref, code, polls : ref = submissions[s].ref /\ code = gateway[ref].code /\ polls = submissions[s].polls + 1
  OBVIOUS
<1>2. PICK step : step = IF code \in 200..299 \/ code >= 400 \/ polls = PollAttempts THEN "record" ELSE "poll"
  OBVIOUS
<1>3. PICK moved \in RowType :
          /\ moved = Moved(s, step) /\ moved.step = step /\ moved.file = submissions[s].file
          /\ moved.ref = ref /\ moved.status = submissions[s].status
  <2>1. step \in UploadSteps
    BY <1>2 DEF UploadSteps
  <2>2. PICK moved \in RowType :
            /\ moved = Moved(s, step) /\ moved.step = step /\ moved.file = submissions[s].file
            /\ moved.ref = submissions[s].ref /\ moved.status = submissions[s].status
    BY <2>1, MovedTyped
  <2> QED
    BY <1>1, <2>2
<1>4. PICK new : new = [[moved EXCEPT !.code = code] EXCEPT !.polls = polls]
  OBVIOUS
<1>5. /\ submissions \in Seq(RowType) /\ gateway \in Seq(UploadType) /\ RowOK(s) /\ StepOK(s) /\ s \in Nat
      /\ polls \in Nat
  <2>1. submissions[s] \in RowType /\ RowOK(s) /\ StepOK(s) /\ s \in Nat
    BY MovedTyped DEF UploadSteps
  <2>2. submissions[s].polls \in Nat
    BY <2>1 DEF RowType
  <2> QED
    BY <1>1, <2>1, <2>2 DEF SubmissionInv, SubmissionType
<1>6. At(s, "poll") /\ HasUpload(s) /\ ref \in DOMAIN gateway
  BY <1>1, <1>5 DEF Poll, StepOK, At, HasUpload
<1>7. code \in Codes /\ code # 0
  <2>1. gateway[ref] \in UploadType
    BY <1>5, <1>6
  <2> QED
    BY <1>1, <2>1 DEF UploadType, Codes
<1>8. new = [moved EXCEPT !.code = code, !.polls = polls]
  BY <1>4 DEF RowType
<1>9. Go(s, new) /\ UNCHANGED <<preparation, gateway>>
  BY <1>1, <1>2, <1>3, <1>8, ZenonT(60) DEF Poll
<1>10. new \in RowType
  BY <1>4, <1>5, <1>7, RowTyped
<1>11. new.step = step /\ new.file = moved.file /\ new.ref = ref /\ new.status = moved.status /\ new.code = code
  BY <1>3, <1>8 DEF RowType
<1>12. submissions'[s] = new
  BY <1>5, <1>9 DEF Go, Submissions
<1>13. HasUpload(s)'
  BY <1>1, <1>3, <1>6, <1>9, <1>11, <1>12 DEF HasUpload
<1>14. StepOK(s)'
  BY <1>1, <1>2, <1>7, <1>9, <1>11, <1>12, <1>13 DEF StepOK
<1>15. RowOK(s)'
  BY <1>3, <1>5, <1>6, <1>11, <1>12 DEF RowOK, At
<1> QED
  BY <1>9, <1>10, <1>14, <1>15, PortalStep

\* A verdict is stored only for an answer that was final.
LEMMA RecordKeeps ==
    ASSUME SubmissionInv, NEW s \in Submissions, Record(s)
    PROVE  SubmissionInv'
<1>1. At(s, "record") /\ UNCHANGED <<preparation, gateway>>
  BY DEF Record
<1>2. CASE Go(s, Failed(s))
  BY <1>1, <1>2, Ends, PortalStep DEF Failed, At
<1>3. CASE Go(s, [Moved(s, "done") EXCEPT !.status = StatusOf(submissions[s].code)])
  <2>1. PICK moved \in RowType :
            /\ moved = Moved(s, "done") /\ moved.step = "done" /\ moved.file = submissions[s].file
            /\ moved.ref = submissions[s].ref
    BY MovedTyped DEF UploadSteps
  <2>2. PICK status, new : status = StatusOf(submissions[s].code) /\ new = [moved EXCEPT !.status = status]
    OBVIOUS
  <2>3. /\ submissions \in Seq(RowType) /\ StepOK(s) /\ s \in Nat /\ submissions[s].code \in Codes
    <3>1. submissions[s] \in RowType
      BY MovedTyped DEF UploadSteps
    <3> QED
      BY <3>1, MovedTyped DEF UploadSteps, RowType
  <2>4. /\ HasUpload(s) /\ submissions[s].code # 0
        /\ submissions[s].code # 300 => gateway[submissions[s].ref].code = submissions[s].code
    BY <1>1, <2>3 DEF StepOK, At
  <2>5. status \in Verdicts /\ (status \in {"accepted", "rejected"} => submissions[s].code # 300)
    BY <2>2, <2>3, <2>4 DEF StatusOf, Codes, Verdicts
  <2>6. Go(s, new) /\ new \in RowType
    BY <1>3, <2>1, <2>2, <2>5, RowTyped
  <2>7. new.step = "done" /\ new.file = submissions[s].file /\ new.ref = submissions[s].ref /\ new.status = status
    BY <2>1, <2>2 DEF RowType
  <2>8. submissions'[s] = new
    BY <2>3, <2>6 DEF Go, Submissions
  <2>9. HasUpload(s)'
    BY <1>1, <2>4, <2>7, <2>8 DEF HasUpload
  <2>10. StepOK(s)'
    BY <2>7, <2>8 DEF StepOK
  <2>11. RowOK(s)'
    BY <1>1, <2>2, <2>4, <2>5, <2>7, <2>8, <2>9 DEF RowOK
  <2> QED
    BY <1>1, <2>6, <2>10, <2>11, PortalStep
<1> QED
  BY <1>2, <1>3 DEF Record

LEMMA RecordFailureKeeps ==
    ASSUME SubmissionInv, NEW s \in Submissions, RecordFailure(s)
    PROVE  SubmissionInv'
<1>1. At(s, "failed") /\ UNCHANGED <<preparation, gateway>>
  BY DEF RecordFailure
<1>2. CASE Go(s, Moved(s, "done"))
  BY <1>1, <1>2, Ends, PortalStep DEF At
<1>3. CASE Go(s, [Moved(s, "done") EXCEPT !.status = "error"])
  <2>1. PICK moved \in RowType : moved = Moved(s, "done") /\ moved.step = "done"
    BY MovedTyped DEF UploadSteps
  <2>2. PICK new : new = [moved EXCEPT !.status = "error"]
    OBVIOUS
  <2>3. Go(s, new) /\ new \in RowType
    BY <1>3, <2>1, <2>2, RowTyped DEF Verdicts
  <2>4. new.step = "done" /\ new.status = "error"
    BY <2>1, <2>2 DEF RowType
  <2>5. submissions'[s] = new
    BY <2>3, MovedTyped DEF Go, Submissions, UploadSteps
  <2>6. (StepOK(s) /\ RowOK(s))'
    BY <2>4, <2>5 DEF StepOK, RowOK
  <2> QED
    BY <1>1, <2>3, <2>6, PortalStep
<1> QED
  BY <1>2, <1>3 DEF RecordFailure

\* The gateway decides once, and accepts only what is whole.
LEMMA DecisionKeeps ==
    ASSUME SubmissionInv, NEW ref \in DOMAIN gateway, GatewayDecides(ref)
    PROVE  SubmissionInv'
<1>1. PICK code \in IF IsWhole(gateway[ref]) THEN {200, 400} ELSE {400} :
          gateway' = [gateway EXCEPT ![ref].code = code]
  BY DEF GatewayDecides
<1>2. PICK upload : upload = [gateway[ref] EXCEPT !.code = code]
  OBVIOUS
<1>3. /\ gateway[ref].finished /\ gateway[ref].code = 300 /\ UNCHANGED <<preparation, submissions>>
      /\ gateway' = [gateway EXCEPT ![ref] = upload] /\ gateway \in Seq(UploadType)
  BY <1>1, <1>2 DEF GatewayDecides, SubmissionInv, SubmissionType
<1>4. gateway[ref] \in UploadType
  BY <1>3
<1>5. /\ code \in {200, 400} /\ upload \in UploadType /\ upload.declared = gateway[ref].declared
      /\ upload.finished /\ upload.code = code /\ upload.stored = gateway[ref].stored
  BY SMTT(30), <1>1, <1>2, <1>3, <1>4 DEF UploadType
<1>6. UploadOK(upload)
  <2>1. CASE code = 200
    <3>1. IsWhole(gateway[ref])
      BY <1>1, <2>1
    <3> QED
      BY <1>5, <3>1 DEF UploadOK, IsWhole
  <2> QED
    BY <1>5, <2>1 DEF UploadOK
<1>7. /\ gateway' \in Seq(UploadType) /\ DOMAIN gateway' = DOMAIN gateway /\ gateway'[ref] = upload
      /\ \A r \in DOMAIN gateway \ {ref} : gateway'[r] = gateway[r]
  BY <1>3, <1>5
<1>8. \A r \in DOMAIN gateway' : UploadOK(gateway'[r])
  BY <1>6, <1>7 DEF SubmissionInv
<1>9. ASSUME NEW s \in Submissions PROVE StepOK(s)' /\ RowOK(s)'
  <2>1. StepOK(s) /\ RowOK(s) /\ submissions' = submissions
    BY <1>3 DEF SubmissionInv
  <2>2. HasUpload(s)' <=> HasUpload(s)
    BY <1>5, <1>7, <2>1 DEF HasUpload
  <2>3. StepOK(s)'
    BY <1>3, <1>5, <1>7, <2>1, <2>2 DEF StepOK, HasUpload
  <2>4. StatusOf(300) = "processing"
    BY DEF StatusOf
  <2> QED
    BY <1>3, <1>5, <1>7, <2>1, <2>2, <2>3, <2>4 DEF RowOK, HasUpload
<1> QED
  BY <1>3, <1>7, <1>8, <1>9 DEF SubmissionInv, SubmissionType, Submissions

LEMMA SubmissionStepKeeps ==
    ASSUME SubmissionInv, SubmissionStep
    PROVE  SubmissionInv'
BY FailureKeeps, SignKeeps, InitKeeps, PutKeeps, FinishKeeps, PollKeeps, RecordKeeps, RecordFailureKeeps,
   DecisionKeeps DEF SubmissionStep

LEMMA SubmissionStands ==
    ASSUME SubmissionInv, UNCHANGED <<submissions, gateway>>, preparation' \in Seq(Files)
    PROVE  SubmissionInv'
<1>1. ASSUME NEW s \in Submissions PROVE StepOK(s)' /\ RowOK(s)'
  <2>1. StepOK(s) /\ RowOK(s) /\ (HasUpload(s)' <=> HasUpload(s))
    BY DEF SubmissionInv, HasUpload
  <2> QED
    BY <2>1 DEF StepOK, RowOK
<1>2. \A ref \in DOMAIN gateway' : UploadOK(gateway'[ref])
  BY DEF SubmissionInv
<1> QED
  BY <1>1, <1>2 DEF SubmissionInv, SubmissionType, Submissions

\* An accepted upload is whole, and its session the one of the file as it was sent.
LEMMA VerdictFollows == SubmissionInv => VerdictIsTheGateways
<1> SUFFICES ASSUME SubmissionInv, NEW s \in Submissions, submissions[s].status \in {"accepted", "rejected"}
             PROVE  LET session == gateway[submissions[s].ref] IN
                    /\ session.declared = Metadata(submissions[s].file, s)
                    /\ StatusOf(session.code) = submissions[s].status
                    /\ submissions[s].status = "accepted" =>
                          session.stored = {Part(submissions[s].file, s, number) : number \in 1..Parts}
  BY DEF VerdictIsTheGateways
<1>1. PICK ref, upload : ref = submissions[s].ref /\ upload = gateway[ref]
  OBVIOUS
<1>2. /\ HasUpload(s) /\ StatusOf(upload.code) = submissions[s].status
      /\ submissions[s].file \in Files /\ s \in Nat
  <2>1. submissions[s] \in RowType
    BY MovedTyped DEF UploadSteps
  <2> QED
    BY <1>1, <2>1, MovedTyped DEF UploadSteps, RowType, RowOK
<1>3. upload.declared = Metadata(submissions[s].file, s) /\ upload \in UploadType /\ UploadOK(upload)
  BY <1>1, <1>2 DEF HasUpload, SubmissionInv, SubmissionType
<1>4. ASSUME submissions[s].status = "accepted"
      PROVE  upload.stored = {Part(submissions[s].file, s, number) : number \in 1..Parts}
  <2>1. upload.code = 200
    BY <1>2, <1>3, <1>4 DEF StatusOf, UploadType
  <2>2. upload.stored = {upload.declared.parts[number] : number \in 1..Parts}
    BY <1>3, <2>1 DEF UploadOK, IsWhole
  <2>3. \A number \in 1..Parts : upload.declared.parts[number] = Part(submissions[s].file, s, number)
    BY <1>2, <1>3, MetadataTyped
  <2> QED
    BY <2>2, <2>3
<1> QED
  BY <1>1, <1>2, <1>3, <1>4

-----------------------------------------------------------------------------
(* Credentials                                                             *)

Values == Tokens \cup {Bundle, None}
SecretType == [method : {"token", "certificate"}, value : Values]
CredentialType == [secret : SecretType, form : {"none", "legacy", "sealed"}]

\* A row the script has locked is as the script read it.
ScriptOK ==
    script = <<>> \/ \E rows :
        /\ script = <<[rows |-> rows, locked |-> DOMAIN rows]>>
        /\ DOMAIN rows \subseteq Clients
        /\ \A c \in DOMAIN rows : saved[c] # <<>> /\ rows[c] = credentials[c].secret.value

StoredOK(c) == IF saved[c] = <<>> THEN credentials[c] = NoRow
               ELSE credentials[c].secret = saved[c][Len(saved[c])]

CredentialsInv ==
    /\ credentials \in [Clients -> CredentialType]
    /\ saved \in [Clients -> Seq(SecretType)]
    /\ \A c \in Clients : StoredOK(c)
    /\ ScriptOK

LEMMA CredentialsStart == Init => CredentialsInv
<1> SUFFICES ASSUME Init PROVE CredentialsInv
  OBVIOUS
<1>1. NoRow \in CredentialType /\ \A t \in Tokens : Legacy(Secret("token", t)) \in CredentialType
  BY DEF NoRow, Row, Legacy, Secret, CredentialType, SecretType, Values
<1>2. credentials \in [Clients -> CredentialType]
  BY <1>1 DEF Init
<1>3. \A c \in Clients : credentials[c].secret \in SecretType
  BY <1>2 DEF CredentialType
<1>4. saved = [c \in Clients |-> IF credentials[c] = NoRow THEN <<>> ELSE <<credentials[c].secret>>]
      /\ script = <<>>
  BY DEF Init
<1> QED
  BY <1>2, <1>3, <1>4 DEF CredentialsInv, StoredOK, ScriptOK

\* Saving waits for a locked row, so what is saved is what is stored last.
LEMMA SaveKeeps ==
    ASSUME CredentialsInv, NEW c \in Clients, NEW secret \in SecretType, Save(c, secret)
    PROVE  CredentialsInv' /\ \A d \in Clients : \A i \in DOMAIN saved[d] :
                                 i \in DOMAIN saved'[d] /\ saved'[d][i] = saved[d][i]
<1>1. /\ credentials' = [credentials EXCEPT ![c] = Sealed(secret)]
      /\ saved' = [saved EXCEPT ![c] = Append(saved[c], secret)] /\ script' = script
      /\ \A i \in DOMAIN script : c \notin script[i].locked
  BY DEF Save
<1>2. Sealed(secret) \in CredentialType /\ Sealed(secret).secret = secret
  BY DEF Sealed, Row, CredentialType
<1>3. credentials' \in [Clients -> CredentialType] /\ saved' \in [Clients -> Seq(SecretType)]
  BY <1>1, <1>2 DEF CredentialsInv
<1>4. /\ saved'[c] = Append(saved[c], secret) /\ saved[c] \in Seq(SecretType)
      /\ \A d \in Clients \ {c} : saved'[d] = saved[d] /\ credentials'[d] = credentials[d]
      /\ credentials'[c].secret = secret
  BY <1>1, <1>2 DEF CredentialsInv
<1>5. saved'[c] # <<>> /\ saved'[c][Len(saved'[c])] = secret
      /\ \A i \in DOMAIN saved[c] : i \in DOMAIN saved'[c] /\ saved'[c][i] = saved[c][i]
  BY <1>4
<1>6. ASSUME NEW d \in Clients PROVE StoredOK(d)'
  BY <1>4, <1>5 DEF StoredOK, CredentialsInv
<1>7. ScriptOK'
  <2>1. CASE script = <<>>
    BY <1>1, <2>1 DEF ScriptOK
  <2>2. CASE script # <<>>
    <3>1. PICK rows :
              /\ script = <<[rows |-> rows, locked |-> DOMAIN rows]>>
              /\ DOMAIN rows \subseteq Clients
              /\ \A d \in DOMAIN rows : saved[d] # <<>> /\ rows[d] = credentials[d].secret.value
      BY <2>2 DEF CredentialsInv, ScriptOK
    <3>2. c \notin DOMAIN rows
      BY <1>1, <3>1
    <3>3. \A d \in DOMAIN rows : saved'[d] # <<>> /\ rows[d] = credentials'[d].secret.value
      BY <1>4, <3>1, <3>2
    <3> QED
      BY <1>1, <3>1, <3>3 DEF ScriptOK
  <2> QED
    BY <2>1, <2>2
<1> QED
  BY <1>3, <1>4, <1>5, <1>6, <1>7 DEF CredentialsInv

\* The script locks what it reads, and seals what it read.
LEMMA ScriptKeeps ==
    ASSUME CredentialsInv, ScriptReads \/ ScriptCommits \/ ScriptRollsBack
    PROVE  CredentialsInv'
<1>1. CASE ScriptRollsBack
  BY <1>1 DEF ScriptRollsBack, CredentialsInv, ScriptOK, StoredOK
<1>2. CASE ScriptReads
  <2>1. PICK legacy : legacy = {c \in Clients : credentials[c].form = "legacy"}
    OBVIOUS
  <2>2. PICK rows : rows = [c \in legacy |-> credentials[c].secret.value]
    OBVIOUS
  <2>3. script' = <<[rows |-> rows, locked |-> DOMAIN rows]>> /\ UNCHANGED <<credentials, saved>>
    BY <1>2, <2>1, <2>2 DEF ScriptReads, LockedRows
  <2>4. \A c \in DOMAIN rows : c \in Clients /\ saved[c] # <<>> /\ rows[c] = credentials[c].secret.value
    BY <2>1, <2>2 DEF CredentialsInv, StoredOK, NoRow, Row
  <2> QED
    BY <2>3, <2>4 DEF CredentialsInv, ScriptOK, StoredOK
<1>3. CASE ScriptCommits
  <2>1. PICK rows :
            /\ script = <<[rows |-> rows, locked |-> DOMAIN rows]>>
            /\ DOMAIN rows \subseteq Clients
            /\ \A c \in DOMAIN rows : saved[c] # <<>> /\ rows[c] = credentials[c].secret.value
    BY <1>3 DEF ScriptCommits, CredentialsInv, ScriptOK
  <2>2. /\ credentials' = [c \in Clients |->
              IF c \in DOMAIN rows THEN Sealed(Secret(credentials[c].secret.method, rows[c])) ELSE credentials[c]]
        /\ script' = <<>> /\ saved' = saved
    BY <1>3, <2>1 DEF ScriptCommits
  <2>3. ASSUME NEW c \in DOMAIN rows
        PROVE  /\ credentials'[c] \in CredentialType
               /\ credentials'[c].secret = credentials[c].secret
    <3>1. c \in Clients /\ credentials[c].secret \in SecretType
      BY <2>1 DEF CredentialsInv, CredentialType
    <3>2. Secret(credentials[c].secret.method, rows[c]) = credentials[c].secret
      BY <2>1, <3>1 DEF SecretType, Secret
    <3>3. credentials'[c] = Sealed(credentials[c].secret)
      BY <2>2, <3>1, <3>2
    <3> QED
      BY <3>1, <3>3 DEF Sealed, Row, CredentialType
  <2>4. credentials' \in [Clients -> CredentialType]
    BY <2>2, <2>3 DEF CredentialsInv
  <2>5. ASSUME NEW c \in Clients PROVE StoredOK(c)'
    <3>1. CASE c \in DOMAIN rows
      BY <2>1, <2>2, <2>3, <3>1 DEF StoredOK, CredentialsInv
    <3>2. CASE c \notin DOMAIN rows
      BY <2>2, <3>2 DEF StoredOK, CredentialsInv
    <3> QED
      BY <3>1, <3>2
  <2> QED
    BY <2>2, <2>4, <2>5 DEF CredentialsInv, ScriptOK
<1> QED
  BY <1>1, <1>2, <1>3

-----------------------------------------------------------------------------
(* Logins, certificates and sessions                                       *)

Kinds == {"send", "sync", "upo"}
LoginSteps == {"certificate", "fetching", "fetched", "authenticate", "poll", "redeem", "work",
               "open", "close", "terminate", "done"}
CertificateType == [usage : Usages, version : Nat]
Certificates == CertificateType \cup {None}
LoginKinds == Kinds \cup {None}
LoginClients == Clients \cup {None}
LoginUsages == Usages \cup {None}
LoginType == [kind : LoginKinds, client : LoginClients, secret : Values, step : LoginSteps,
              usage : LoginUsages, asked : Nat, cert : Certificates, session : Nat]
SessionStates == {"checking", "authenticated", "refused", "open", "ended"}
OnlineStates == {"none", "open", "closed"}
SessionType == [client : Clients, secret : Values, kind : Kinds, state : SessionStates,
                online : OnlineStates, lost : BOOLEAN]

\* KSeF had not replaced it at that time.
Suits(cert, usage, since) ==
    /\ cert.usage = usage
    /\ cert.version \in DOMAIN replaced[usage] => replaced[usage][cert.version] >= since

CacheOK(u) ==
    cache[u] # None =>
        /\ cache[u].ts \in Nat /\ cache[u].ts <= clock /\ cache[u].cert \in CertificateType
        /\ Suits(cache[u].cert, u, cache[u].ts)

WasSaved(c, secret) == \E i \in DOMAIN saved[c] : saved[c][i] = Secret("token", secret)

\* The first certificate of a login is asked for before there is a session.
HasNoSession(l) ==
    \/ logins[l].step = "authenticate"
    \/ /\ logins[l].step \in {"certificate", "fetching", "fetched"}
       /\ logins[l].usage = "KsefTokenEncryption"

\* What a request knows of the session it has opened.
SessionKnown(l) ==
    LET s == logins[l].session IN
    /\ s \in DOMAIN sessions /\ sessions[s].kind = logins[l].kind
    /\ logins[l].step = "poll" => sessions[s].state \in {"checking", "authenticated", "refused"}
    /\ logins[l].step = "redeem" => sessions[s].state = "authenticated"
    /\ logins[l].step \notin {"close", "terminate"} => sessions[s].online = "none"
    /\ logins[l].step = "terminate" => sessions[s].online # "open" \/ sessions[s].lost

CertificateKnown(l) ==
    /\ logins[l].step = "fetched" => Suits(logins[l].cert, logins[l].usage, logins[l].asked)
                                     /\ logins[l].cert \in CertificateType
    /\ logins[l].step \in {"authenticate", "open"} =>
          Suits(logins[l].cert, logins[l].usage, logins[l].asked - MaxAge + 1)

LoginOK(l) ==
    \/ logins[l] = Done
    \/ /\ logins[l].step # "done"
       /\ logins[l].kind \in Kinds /\ logins[l].client \in Clients /\ logins[l].usage \in Usages
       /\ logins[l].asked <= clock
       /\ logins[l].step = "authenticate" => logins[l].usage = "KsefTokenEncryption"
       /\ logins[l].step = "open" => logins[l].usage = "SymmetricKeyEncryption"
       /\ CertificateKnown(l)
       /\ IF HasNoSession(l)
          THEN logins[l].session = 0 /\ WasSaved(logins[l].client, logins[l].secret)
          ELSE SessionKnown(l)

SessionOK(s) ==
    /\ WasSaved(sessions[s].client, sessions[s].secret)
    /\ "open" \in {sessions[s].state, sessions[s].online} =>
          Active(s) \/ sessions[s].lost \/ sessions[s].kind = "upo"

AccessType ==
    /\ clock \in Nat /\ replaced \in [Usages -> Seq(Nat)] /\ DOMAIN cache = Usages
    /\ logins \in Seq(LoginType) /\ sessions \in Seq(SessionType)

\* No two requests share a session: a step of one leaves alone what another knows.
OwnSessions == \A l, k \in DOMAIN logins :
    logins[l].session # 0 /\ logins[l].session = logins[k].session => l = k

LoginInv ==
    /\ AccessType /\ OwnSessions
    /\ \A u \in Usages : CacheOK(u)
    /\ \A l \in DOMAIN logins : LoginOK(l)
    /\ \A s \in DOMAIN sessions : SessionOK(s)

LEMMA LoginsStart == Init => LoginInv
BY DEF Init, LoginInv, AccessType, OwnSessions, CacheOK

\* A step of one request: what it changes of a session is its own or new.
LEMMA LoginStepKeeps ==
    ASSUME LoginInv, NEW l \in DOMAIN logins, NEW new \in LoginType, Becomes(l, new),
           UNCHANGED <<saved, replaced, clock>>,
           DOMAIN cache' = Usages, \A u \in Usages : CacheOK(u)',
           sessions' \in Seq(SessionType), DOMAIN sessions \subseteq DOMAIN sessions',
           \A s \in DOMAIN sessions : sessions'[s] = sessions[s] \/ s = logins[l].session,
           \/ new.session = logins[l].session \/ new.session = 0
           \/ new.session \notin DOMAIN sessions,
           LoginOK(l)',
           \A s \in DOMAIN sessions' : s \notin DOMAIN sessions \/ s = logins[l].session => SessionOK(s)'
    PROVE  LoginInv'
<1>1. /\ logins' \in Seq(LoginType) /\ DOMAIN logins' = DOMAIN logins /\ logins'[l] = new
      /\ \A k \in DOMAIN logins \ {l} : logins'[k] = logins[k]
  BY DEF LoginInv, AccessType, Becomes
<1>2. \A k \in DOMAIN logins : logins[k].session = 0 \/ logins[k].session \in DOMAIN sessions
  BY DEF LoginInv, LoginOK, SessionKnown, Done
<1>3. OwnSessions'
  BY <1>1, <1>2 DEF LoginInv, OwnSessions
<1>4. ASSUME NEW k \in DOMAIN logins \ {l} PROVE LoginOK(k)'
  <2>1. LoginOK(k) /\ logins'[k] = logins[k]
    BY <1>1 DEF LoginInv
  <2>2. HasNoSession(k)' <=> HasNoSession(k)
    BY <2>1 DEF HasNoSession
  <2>3. CertificateKnown(k) => CertificateKnown(k)'
    BY <2>1 DEF CertificateKnown, Suits
  <2>4. SessionKnown(k) => SessionKnown(k)'
    <3>1. SUFFICES ASSUME SessionKnown(k) PROVE SessionKnown(k)'
      OBVIOUS
    <3>2. logins[k].session \in DOMAIN sessions /\ logins[k].session # 0
      BY <3>1 DEF SessionKnown, LoginInv, AccessType
    <3>3. logins[k].session # logins[l].session
      BY <3>2 DEF LoginInv, OwnSessions
    <3> QED
      BY <2>1, <3>1, <3>2, <3>3 DEF SessionKnown
  <2> QED
    BY <2>1, <2>2, <2>3, <2>4 DEF LoginOK, WasSaved
<1>5. ASSUME NEW s \in DOMAIN sessions, s # logins[l].session PROVE SessionOK(s)'
  <2>1. SessionOK(s) /\ sessions'[s] = sessions[s]
    BY <1>5 DEF LoginInv
  <2>2. Active(s) => Active(s)'
    BY <1>1, <1>5 DEF Active, Session, Is
  <2> QED
    BY <2>1, <2>2 DEF SessionOK, WasSaved
<1> QED
  BY <1>1, <1>3, <1>4, <1>5 DEF LoginInv, AccessType

LEMMA DoneTyped == Done \in LoginType
<1>1. None \in Values /\ None \in Certificates
  BY DEF Values, Certificates
<1> QED
  BY <1>1 DEF Done, LoginType, LoginKinds, LoginClients, LoginUsages, LoginSteps

\* Of a login that goes on, and of one that is done with its secret.
LEMMA Shapes ==
    ASSUME LoginInv, NEW l \in DOMAIN logins, NEW step \in LoginSteps \ {"done"}
    PROVE  /\ logins[l] \in LoginType /\ LoginOK(l)
           /\ \E new \in LoginType :
                 /\ new = To(l, step) /\ new.step = step /\ new.kind = logins[l].kind
                 /\ new.client = logins[l].client /\ new.secret = logins[l].secret
                 /\ new.usage = logins[l].usage /\ new.asked = logins[l].asked
                 /\ new.cert = logins[l].cert /\ new.session = logins[l].session
           /\ \E new \in LoginType :
                 /\ new = After(l, step) /\ new.step = step /\ new.kind = logins[l].kind
                 /\ new.client = logins[l].client /\ new.usage = logins[l].usage
                 /\ new.asked = 0 /\ new.session = logins[l].session
<1>1. PICK login : login = logins[l]
  OBVIOUS
<1>2. login \in LoginType /\ LoginOK(l)
  BY <1>1 DEF LoginInv, AccessType
<1>3. PICK moved : moved = [login EXCEPT !.step = step]
  OBVIOUS
<1>4. moved \in LoginType
  BY <1>2, <1>3 DEF LoginType
<1>5. /\ moved.step = step /\ moved.kind = login.kind /\ moved.client = login.client
      /\ moved.secret = login.secret /\ moved.usage = login.usage /\ moved.asked = login.asked
      /\ moved.cert = login.cert /\ moved.session = login.session
  BY <1>2, <1>3 DEF LoginType
<1>6. PICK after : after = [moved EXCEPT !.secret = None, !.cert = None, !.asked = 0]
  OBVIOUS
<1>7. None \in Values /\ None \in Certificates
  BY DEF Values, Certificates
<1>8. after \in LoginType
  BY <1>4, <1>6, <1>7 DEF LoginType
<1>9. /\ after.step = step /\ after.kind = login.kind /\ after.client = login.client
      /\ after.usage = login.usage /\ after.asked = 0 /\ after.session = login.session
  BY <1>4, <1>5, <1>6 DEF LoginType
<1>10. moved = To(l, step) /\ after = After(l, step)
  BY <1>1, <1>3, <1>6 DEF To, After
<1> QED
  BY <1>1, <1>2, <1>4, <1>5, <1>8, <1>9, <1>10, Zenon

\* A step that only the request notices.
LEMMA QuietStep ==
    ASSUME LoginInv, NEW l \in DOMAIN logins, NEW new \in LoginType, Becomes(l, new),
           UNCHANGED <<saved, replaced, clock, cache, sessions>>, LoginOK(l)',
           \/ new.session = logins[l].session /\ new.step # "done"
           \/ /\ new.session = 0
              /\ logins[l].session \in DOMAIN sessions =>
                    LET s == logins[l].session IN
                    "open" \in {sessions[s].state, sessions[s].online} =>
                        sessions[s].lost \/ sessions[s].kind = "upo"
    PROVE  LoginInv'
<1>1. /\ DOMAIN cache' = Usages /\ sessions' \in Seq(SessionType) /\ sessions' = sessions
      /\ logins'[l] = new /\ DOMAIN logins' = DOMAIN logins
  BY DEF LoginInv, AccessType, Becomes
<1>2. \A u \in Usages : CacheOK(u)'
  BY DEF LoginInv, CacheOK, Suits
<1>3. ASSUME NEW s \in DOMAIN sessions, s = logins[l].session PROVE SessionOK(s)'
  <2>1. SessionOK(s)
    BY DEF LoginInv
  <2>2. new.session = s /\ new.step # "done" => Active(s)'
    BY <1>1 DEF Active, Session, Is
  <2>3. WasSaved(sessions[s].client, sessions[s].secret)'
    BY <2>1 DEF SessionOK, WasSaved
  <2> QED
    BY <1>1, <1>3, <2>2, <2>3 DEF SessionOK
<1> QED
  BY <1>1, <1>2, <1>3, LoginStepKeeps

LEMMA UseCachedKeeps ==
    ASSUME LoginInv, NEW l \in DOMAIN logins, UseCached(l)
    PROVE  LoginInv'
<1>1. PICK usage, cert, step : usage = logins[l].usage /\ cert = cache[usage].cert /\ step = AfterCertificate(l)
  OBVIOUS
<1>2. step \in LoginSteps \ {"done"}
  BY <1>1 DEF AfterCertificate, LoginSteps
<1>3. PICK moved \in LoginType :
          /\ moved = To(l, step) /\ moved.step = step /\ moved.kind = logins[l].kind
          /\ moved.client = logins[l].client /\ moved.secret = logins[l].secret
          /\ moved.usage = usage /\ moved.session = logins[l].session
  BY <1>1, <1>2, Shapes
<1>4. PICK new : new = [moved EXCEPT !.cert = cert, !.asked = clock]
  OBVIOUS
<1>5. /\ logins[l].step = "certificate" /\ IsFresh(usage)
      /\ UNCHANGED <<saved, replaced, clock, cache, sessions>>
  BY <1>1 DEF UseCached, InPortal, Is
<1>6. [[To(l, step) EXCEPT !.cert = cert] EXCEPT !.asked = clock] = new
  BY <1>3, <1>4 DEF LoginType
<1>7. Becomes(l, new)
  BY <1>1, <1>6 DEF UseCached, With
<1>8. LoginOK(l) /\ usage \in Usages /\ CacheOK(usage) /\ clock \in Nat
  BY <1>1, <1>5, Shapes DEF LoginOK, Done, LoginInv, AccessType, LoginSteps
<1>9. /\ cert \in CertificateType /\ Suits(cert, usage, cache[usage].ts)
      /\ clock - cache[usage].ts < MaxAge /\ cache[usage].ts \in Nat
  BY <1>1, <1>5, <1>8 DEF IsFresh, CacheOK
<1>10. new \in LoginType
  BY <1>3, <1>4, <1>8, <1>9 DEF LoginType, Certificates
<1>11. /\ new.step = step /\ new.kind = logins[l].kind /\ new.client = logins[l].client
       /\ new.secret = logins[l].secret /\ new.usage = usage /\ new.session = logins[l].session
       /\ new.cert = cert /\ new.asked = clock
  BY <1>3, <1>4 DEF LoginType
<1>12. Suits(cert, usage, clock - MaxAge + 1)
  <2>1. replaced[usage] \in Seq(Nat)
    BY <1>8 DEF LoginInv, AccessType
  <2> QED
    BY SMTT(30), <1>8, <1>9, <2>1, AccessAssumption DEF Suits
<1>13. logins'[l] = new
  BY <1>7 DEF Becomes, LoginInv, AccessType
<1>14. LoginOK(l)'
  BY <1>1, <1>5, <1>8, <1>11, <1>12, <1>13 DEF LoginOK, AfterCertificate, HasNoSession, SessionKnown,
     CertificateKnown, WasSaved, Usages, Suits, Done
<1> QED
  BY <1>2, <1>5, <1>7, <1>10, <1>11, <1>14, QuietStep

LEMMA FetchKeeps ==
    ASSUME LoginInv, NEW l \in DOMAIN logins, Fetch(l)
    PROVE  LoginInv'
<1>1. PICK moved \in LoginType :
          /\ moved = To(l, "fetching") /\ moved.step = "fetching" /\ moved.kind = logins[l].kind
          /\ moved.client = logins[l].client /\ moved.secret = logins[l].secret
          /\ moved.usage = logins[l].usage /\ moved.session = logins[l].session
  BY Shapes DEF LoginSteps
<1>2. PICK new : new = [moved EXCEPT !.asked = clock]
  OBVIOUS
<1>3. /\ logins[l].step = "certificate" /\ UNCHANGED <<saved, replaced, clock, cache, sessions>>
      /\ Becomes(l, new)
  BY <1>1, <1>2 DEF Fetch, InPortal, Is
<1>4. LoginOK(l) /\ clock \in Nat
  BY DEF LoginInv, AccessType
<1>5. new \in LoginType
  BY <1>1, <1>2, <1>4 DEF LoginType
<1>6. /\ new.step = "fetching" /\ new.kind = logins[l].kind /\ new.client = logins[l].client
      /\ new.secret = logins[l].secret /\ new.usage = logins[l].usage
      /\ new.session = logins[l].session /\ new.asked = clock
  BY <1>1, <1>2 DEF LoginType
<1>7. logins'[l] = new
  BY <1>3 DEF Becomes, LoginInv, AccessType
<1>8. LoginOK(l)'
  BY <1>3, <1>4, <1>6, <1>7 DEF LoginOK, HasNoSession, SessionKnown, CertificateKnown, WasSaved, Done
<1> QED
  BY <1>3, <1>5, <1>6, <1>8, QuietStep

\* The certificate that is sent is not replaced yet, whenever it was asked for.
LEMMA CertificateIsSentKeeps ==
    ASSUME LoginInv, NEW l \in DOMAIN logins, CertificateIsSent(l)
    PROVE  LoginInv'
<1>1. PICK moved \in LoginType :
          /\ moved = To(l, "fetched") /\ moved.step = "fetched" /\ moved.kind = logins[l].kind
          /\ moved.client = logins[l].client /\ moved.secret = logins[l].secret
          /\ moved.usage = logins[l].usage /\ moved.session = logins[l].session
          /\ moved.asked = logins[l].asked
  BY Shapes DEF LoginSteps
<1>2. PICK cert, new : cert = Current(logins[l].usage) /\ new = [moved EXCEPT !.cert = cert]
  OBVIOUS
<1>3. /\ logins[l].step = "fetching" /\ UNCHANGED <<saved, replaced, clock, cache, sessions>>
      /\ Becomes(l, new)
  BY <1>1, <1>2 DEF CertificateIsSent, InPortal, Is
<1>4. LoginOK(l) /\ logins[l].usage \in Usages /\ replaced[logins[l].usage] \in Seq(Nat)
  BY <1>3 DEF LoginInv, AccessType, LoginOK, Done
<1>5. cert \in CertificateType /\ Suits(cert, logins[l].usage, logins[l].asked)
  BY <1>2, <1>4 DEF Current, Certificate, CertificateType, Suits
<1>6. new \in LoginType
  BY <1>1, <1>2, <1>5 DEF LoginType, Certificates
<1>7. /\ new.step = "fetched" /\ new.kind = logins[l].kind /\ new.client = logins[l].client
      /\ new.secret = logins[l].secret /\ new.usage = logins[l].usage /\ new.cert = cert
      /\ new.session = logins[l].session /\ new.asked = logins[l].asked
  BY <1>1, <1>2 DEF LoginType
<1>8. logins'[l] = new
  BY <1>3 DEF Becomes, LoginInv, AccessType
<1>9. LoginOK(l)'
  BY <1>3, <1>4, <1>5, <1>7, <1>8 DEF LoginOK, HasNoSession, SessionKnown, CertificateKnown, WasSaved, Done, Suits
<1> QED
  BY <1>3, <1>6, <1>7, <1>9, QuietStep

LEMMA KeepCertificateKeeps ==
    ASSUME LoginInv, NEW l \in DOMAIN logins, KeepCertificate(l)
    PROVE  LoginInv'
<1>1. PICK usage, cert, step, kept :
          usage = logins[l].usage /\ cert = logins[l].cert /\ step = AfterCertificate(l) /\ kept = Kept(l)
  OBVIOUS
<1>2. step \in LoginSteps \ {"done"}
  BY <1>1 DEF AfterCertificate, LoginSteps
<1>3. PICK moved \in LoginType :
          /\ moved = To(l, step) /\ moved.step = step /\ moved.kind = logins[l].kind
          /\ moved.client = logins[l].client /\ moved.secret = logins[l].secret
          /\ moved.usage = usage /\ moved.session = logins[l].session
          /\ moved.asked = logins[l].asked
  BY <1>1, <1>2, Shapes
<1>4. PICK new : new = [moved EXCEPT !.cert = cert]
  OBVIOUS
<1>5. /\ logins[l].step = "fetched" /\ cache' = [cache EXCEPT ![usage] = kept] /\ Becomes(l, new)
      /\ UNCHANGED <<saved, replaced, clock, sessions>>
  BY <1>1, <1>3, <1>4 DEF KeepCertificate, InPortal, Is, With
<1>6. /\ LoginOK(l) /\ usage \in Usages /\ clock \in Nat /\ logins[l].asked \in Nat /\ logins[l].asked <= clock
      /\ logins[l] \in LoginType /\ DOMAIN cache = Usages
  <2>1. logins[l] \in LoginType /\ LoginOK(l) /\ clock \in Nat /\ DOMAIN cache = Usages
    BY DEF LoginInv, AccessType
  <2>2. logins[l].asked \in Nat
    BY <2>1 DEF LoginType
  <2> QED
    BY <1>1, <1>5, <2>1, <2>2 DEF LoginOK, Done
<1>7. cert \in CertificateType /\ Suits(cert, usage, logins[l].asked)
  BY <1>1, <1>5, <1>6 DEF LoginOK, CertificateKnown, Done
<1>8. kept.cert = cert /\ kept.ts = logins[l].asked
  BY <1>1 DEF Kept
<1>9. DOMAIN cache' = Usages /\ \A u \in Usages : CacheOK(u)'
  BY <1>5, <1>6, <1>7, <1>8 DEF LoginInv, CacheOK, Suits
<1>10. new \in LoginType
  BY <1>3, <1>4, <1>7 DEF LoginType, Certificates
<1>11. /\ new.step = step /\ new.kind = logins[l].kind /\ new.client = logins[l].client
       /\ new.secret = logins[l].secret /\ new.usage = usage /\ new.session = logins[l].session
       /\ new.cert = cert /\ new.asked = logins[l].asked
  BY <1>3, <1>4 DEF LoginType
<1>12. Suits(cert, usage, logins[l].asked - MaxAge + 1)
  <2>1. replaced[usage] \in Seq(Nat)
    BY <1>6 DEF LoginInv, AccessType
  <2> QED
    BY SMTT(30), <1>6, <1>7, <2>1, AccessAssumption DEF Suits
<1>13. logins'[l] = new /\ DOMAIN logins' = DOMAIN logins
  BY <1>5 DEF Becomes, LoginInv, AccessType
<1>14. LoginOK(l)'
  BY <1>1, <1>5, <1>6, <1>11, <1>12, <1>13 DEF LoginOK, AfterCertificate, HasNoSession, SessionKnown,
     CertificateKnown, WasSaved, Usages, Suits, Done
<1>15. ASSUME NEW s \in DOMAIN sessions, s = logins[l].session PROVE SessionOK(s)'
  <2>1. WasSaved(sessions[s].client, sessions[s].secret)'
    BY <1>5 DEF LoginInv, SessionOK, WasSaved
  <2>2. Active(s)'
    BY <1>2, <1>11, <1>13, <1>15 DEF Active, Session, Is
  <2> QED
    BY <1>5, <2>1, <2>2 DEF SessionOK
<1>16. sessions' \in Seq(SessionType) /\ sessions' = sessions
  BY <1>5 DEF LoginInv, AccessType
<1> QED
  BY <1>5, <1>9, <1>10, <1>11, <1>14, <1>15, <1>16, LoginStepKeeps

\* Before there is a session the request just ends; afterwards it ends the session.
LEMMA CertificateFailsKeeps ==
    ASSUME LoginInv, NEW l \in DOMAIN logins, CertificateFails(l)
    PROVE  LoginInv'
<1>1. /\ logins[l].step \in {"certificate", "fetching"} /\ Becomes(l, To(l, FailsTo(l)))
      /\ UNCHANGED <<saved, replaced, clock, cache, sessions>>
  BY DEF CertificateFails, InPortal
<1>2. LoginOK(l) /\ Done \in LoginType /\ logins \in Seq(LoginType) /\ sessions \in Seq(SessionType)
  BY DoneTyped DEF LoginInv, AccessType
<1>3. CASE logins[l].usage = "KsefTokenEncryption"
  <2>1. Becomes(l, Done) /\ logins[l].session = 0
    BY <1>1, <1>2, <1>3 DEF FailsTo, To, LoginOK, HasNoSession, Done
  <2>2. LoginOK(l)'
    BY <1>2, <2>1 DEF Becomes, LoginOK
  <2>3. Done.session = 0 /\ 0 \notin DOMAIN sessions
    BY <1>2 DEF Done
  <2> QED
    BY <1>1, <1>2, <2>1, <2>2, <2>3, QuietStep
<1>4. CASE logins[l].usage # "KsefTokenEncryption"
  <2>1. PICK new \in LoginType :
            /\ new = To(l, "terminate") /\ new.step = "terminate" /\ new.kind = logins[l].kind
            /\ new.client = logins[l].client /\ new.usage = logins[l].usage
            /\ new.session = logins[l].session /\ new.asked = logins[l].asked
    BY Shapes DEF LoginSteps
  <2>2. Becomes(l, new)
    BY <1>1, <1>4, <2>1 DEF FailsTo
  <2>3. logins'[l] = new
    BY <1>2, <2>2 DEF Becomes
  <2>4. LoginOK(l)'
    BY <1>1, <1>2, <1>4, <2>1, <2>3 DEF LoginOK, HasNoSession, SessionKnown, CertificateKnown, Done
  <2> QED
    BY <1>1, <2>1, <2>2, <2>4, QuietStep
<1> QED
  BY <1>3, <1>4

\* The token is presented in a session that no other request has.
LEMMA AuthenticateKeeps ==
    ASSUME LoginInv, NEW l \in DOMAIN logins, Authenticate(l)
    PROVE  LoginInv'
<1>1. PICK n, session : /\ n = Len(sessions) + 1
                        /\ session = [client |-> logins[l].client, secret |-> logins[l].secret,
                                      kind |-> logins[l].kind, state |-> "checking", online |-> "none",
                                      lost |-> FALSE]
  OBVIOUS
<1>2. PICK moved \in LoginType :
          /\ moved = After(l, "poll") /\ moved.step = "poll" /\ moved.kind = logins[l].kind
          /\ moved.client = logins[l].client /\ moved.usage = logins[l].usage /\ moved.asked = 0
  BY Shapes DEF LoginSteps
<1>3. PICK new : new = [moved EXCEPT !.session = n]
  OBVIOUS
<1>4. /\ logins[l].step = "authenticate" /\ sessions' = Append(sessions, session)
      /\ (Becomes(l, new) \/ Becomes(l, Done)) /\ UNCHANGED <<saved, replaced, clock, cache>>
  <2>1. PICK message : message = [content |-> logins[l].secret, under |-> logins[l].cert]
    OBVIOUS
  <2>2. message.content = logins[l].secret
    BY <2>1
  <2>3. message = EncryptForSession(logins[l].secret, logins[l].cert) /\ To(l, "done") = Done
    BY <2>1 DEF EncryptForSession, Encrypted, To
  <2> QED
    BY <1>1, <1>2, <1>3, <2>2, <2>3 DEF Authenticate, InPortal, Is
<1>5. /\ LoginOK(l) /\ Done \in LoginType /\ sessions \in Seq(SessionType) /\ logins \in Seq(LoginType)
      /\ logins[l] \in LoginType /\ clock \in Nat /\ DOMAIN cache = Usages
  BY DoneTyped DEF LoginInv, AccessType
<1>6. /\ logins[l].kind \in Kinds /\ logins[l].client \in Clients /\ logins[l].usage \in Usages
      /\ logins[l].session = 0 /\ WasSaved(logins[l].client, logins[l].secret) /\ logins[l].secret \in Values
  <2>1. logins[l].secret \in Values
    BY <1>5 DEF LoginType
  <2> QED
    BY <1>4, <1>5, <2>1 DEF LoginOK, HasNoSession, Done
<1>7. session \in SessionType /\ WasSaved(session.client, session.secret)
      /\ session.state = "checking" /\ session.online = "none" /\ session.kind = logins[l].kind
  BY <1>1, <1>6 DEF SessionType, SessionStates, OnlineStates
<1>8. /\ sessions' \in Seq(SessionType) /\ DOMAIN sessions' = DOMAIN sessions \cup {n}
      /\ n \notin DOMAIN sessions /\ n \in Nat /\ n # 0 /\ 0 \notin DOMAIN sessions
      /\ sessions'[n] = session /\ \A s \in DOMAIN sessions : sessions'[s] = sessions[s]
  BY <1>1, <1>4, <1>5, <1>7
<1>9. \A s \in DOMAIN sessions' : s \notin DOMAIN sessions \/ s = logins[l].session => SessionOK(s)'
  BY <1>4, <1>6, <1>7, <1>8 DEF SessionOK, WasSaved
<1>10. \A u \in Usages : CacheOK(u)'
  BY <1>4 DEF LoginInv, CacheOK, Suits
<1>11. CASE Becomes(l, new)
  <2>1. new \in LoginType
    BY <1>2, <1>3, <1>8 DEF LoginType
  <2>2. /\ new.step = "poll" /\ new.kind = logins[l].kind /\ new.client = logins[l].client
        /\ new.usage = logins[l].usage /\ new.asked = 0 /\ new.session = n
    BY <1>2, <1>3 DEF LoginType
  <2>3. logins'[l] = new
    BY <1>5, <1>11 DEF Becomes
  <2>4. LoginOK(l)'
    BY <1>4, <1>5, <1>6, <1>7, <1>8, <2>2, <2>3 DEF LoginOK, HasNoSession, SessionKnown, CertificateKnown
  <2> QED
    BY <1>4, <1>5, <1>8, <1>9, <1>10, <1>11, <2>1, <2>2, <2>4, LoginStepKeeps
<1>12. CASE Becomes(l, Done)
  <2>1. Done.session = 0
    BY DEF Done
  <2>2. LoginOK(l)'
    BY <1>5, <1>12 DEF Becomes, LoginOK
  <2> QED
    BY <1>4, <1>5, <1>8, <1>9, <1>10, <1>12, <2>1, <2>2, LoginStepKeeps
<1> QED
  BY <1>4, <1>11, <1>12

LEMMA AuthenticateFailsKeeps ==
    ASSUME LoginInv, NEW l \in DOMAIN logins, AuthenticateFails(l)
    PROVE  LoginInv'
<1>1. /\ logins[l].step = "authenticate" /\ Becomes(l, Done)
      /\ UNCHANGED <<saved, replaced, clock, cache, sessions>>
  BY DEF AuthenticateFails, InPortal, Is, To
<1>2. LoginOK(l) /\ Done \in LoginType /\ logins \in Seq(LoginType) /\ sessions \in Seq(SessionType)
  BY DoneTyped DEF LoginInv, AccessType
<1>3. logins[l].session = 0 /\ 0 \notin DOMAIN sessions /\ Done.session = 0
  BY <1>1, <1>2 DEF LoginOK, HasNoSession, Done
<1>4. LoginOK(l)'
  BY <1>1, <1>2 DEF Becomes, LoginOK
<1> QED
  BY <1>1, <1>2, <1>3, <1>4, QuietStep

\* KSeF decides while the session is checked: only a poll waits for that.
LEMMA DecidesKeeps ==
    ASSUME LoginInv, NEW s \in DOMAIN sessions, KsefDecides(s)
    PROVE  LoginInv'
<1>1. PICK state \in {"authenticated", "refused"} :
          sessions' = [sessions EXCEPT ![s] = [sessions[s] EXCEPT !.state = state]]
  BY DEF KsefDecides, Becoming
<1>2. PICK session : session = [sessions[s] EXCEPT !.state = state]
  OBVIOUS
<1>3. /\ sessions \in Seq(SessionType) /\ sessions[s] \in SessionType /\ sessions[s].state = "checking"
      /\ UNCHANGED <<saved, replaced, clock, cache, logins>>
  BY DEF KsefDecides, InPortal, LoginInv, AccessType
<1>4. /\ session \in SessionType /\ session.state = state /\ session.client = sessions[s].client
      /\ session.secret = sessions[s].secret /\ session.kind = sessions[s].kind
      /\ session.online = sessions[s].online /\ session.lost = sessions[s].lost
  BY <1>1, <1>2, <1>3 DEF SessionType, SessionStates
<1>5. /\ sessions' \in Seq(SessionType) /\ DOMAIN sessions' = DOMAIN sessions /\ sessions'[s] = session
      /\ \A r \in DOMAIN sessions \ {s} : sessions'[r] = sessions[r]
  BY <1>1, <1>2, <1>3, <1>4
<1>6. ASSUME NEW l \in DOMAIN logins PROVE LoginOK(l)'
  <2>1. LoginOK(l)
    BY DEF LoginInv
  <2>2. SessionKnown(l) => SessionKnown(l)'
    BY <1>1, <1>3, <1>4, <1>5 DEF SessionKnown
  <2> QED
    BY <1>3, <2>1, <2>2 DEF LoginOK, HasNoSession, CertificateKnown, WasSaved, Suits
<1>7. ASSUME NEW r \in DOMAIN sessions PROVE SessionOK(r)'
  <2>1. SessionOK(r) /\ (Active(r)' <=> Active(r))
    BY <1>3 DEF LoginInv, Active, Session, Is
  <2> QED
    BY <1>1, <1>3, <1>4, <1>5, <2>1 DEF SessionOK, WasSaved
<1> QED
  BY <1>3, <1>5, <1>6, <1>7 DEF LoginInv, AccessType, OwnSessions, CacheOK, Suits

\* A request that has a session, and its session.
LEMMA HasSession ==
    ASSUME LoginInv, NEW l \in DOMAIN logins,
           \/ logins[l].step \in {"poll", "redeem", "work", "open", "close", "terminate"}
    PROVE  /\ LoginOK(l) /\ SessionKnown(l) /\ logins[l].session \in DOMAIN sessions
           /\ logins[l].session # 0 /\ sessions[logins[l].session] \in SessionType
           /\ SessionOK(logins[l].session)
           /\ sessions \in Seq(SessionType) /\ logins \in Seq(LoginType) /\ DOMAIN cache = Usages
<1>1. LoginOK(l) /\ sessions \in Seq(SessionType) /\ logins \in Seq(LoginType) /\ DOMAIN cache = Usages
  BY DEF LoginInv, AccessType
<1>2. SessionKnown(l) /\ logins[l].session \in DOMAIN sessions
  BY <1>1 DEF LoginOK, HasNoSession, SessionKnown, Done
<1> QED
  BY <1>1, <1>2 DEF LoginInv

\* A step that only the request and its session notice.
LEMMA OwnStep ==
    ASSUME LoginInv, NEW l \in DOMAIN logins, NEW new \in LoginType, Becomes(l, new),
           NEW session \in SessionType, Becoming(logins[l].session, session),
           UNCHANGED <<saved, replaced, clock, cache>>,
           logins[l].step \in {"poll", "redeem", "work", "open", "close", "terminate"},
           session.client = sessions[logins[l].session].client,
           session.secret = sessions[logins[l].session].secret,
           session.kind = sessions[logins[l].session].kind,
           \/ new.session = logins[l].session /\ new.step # "done"
           \/ /\ new.session = 0
              /\ "open" \in {session.state, session.online} => session.lost \/ session.kind = "upo",
           LoginOK(l)'
    PROVE  LoginInv'
<1>1. PICK s : s = logins[l].session
  OBVIOUS
<1>2. /\ s \in DOMAIN sessions /\ SessionOK(s)
      /\ sessions \in Seq(SessionType) /\ logins \in Seq(LoginType) /\ DOMAIN cache = Usages
  BY <1>1, HasSession
<1>3. /\ sessions' \in Seq(SessionType) /\ DOMAIN sessions' = DOMAIN sessions /\ sessions'[s] = session
      /\ \A r \in DOMAIN sessions \ {s} : sessions'[r] = sessions[r]
  BY <1>1, <1>2 DEF Becoming
<1>4. logins'[l] = new /\ DOMAIN logins' = DOMAIN logins
  BY <1>2 DEF Becomes
<1>5. \A u \in Usages : CacheOK(u)'
  BY DEF LoginInv, CacheOK, Suits
<1>6. SessionOK(s)'
  <2>1. WasSaved(sessions[s].client, sessions[s].secret)
    BY <1>2 DEF SessionOK
  <2>2. WasSaved(session.client, session.secret)'
    BY <1>1, <2>1 DEF WasSaved
  <2>3. new.session = s /\ new.step # "done" => Active(s)'
    BY <1>4 DEF Active, Session, Is
  <2> QED
    BY <1>1, <1>3, <2>2, <2>3 DEF SessionOK
<1> QED
  BY <1>1, <1>2, <1>3, <1>5, <1>6, LoginStepKeeps

\* Whatever KSeF answers, a login that gives up has opened nothing.
LEMMA PollLoginKeeps ==
    ASSUME LoginInv, NEW l \in DOMAIN logins, PollLogin(l)
    PROVE  LoginInv'
<1>1. PICK s : s = logins[l].session
  OBVIOUS
<1>2. logins[l].step = "poll" /\ UNCHANGED <<saved, replaced, clock, cache, sessions>>
  BY DEF PollLogin, InPortal, Is
<1>3. /\ LoginOK(l) /\ SessionKnown(l) /\ s \in DOMAIN sessions /\ logins \in Seq(LoginType)
      /\ sessions[s].state \in {"checking", "authenticated", "refused"} /\ sessions[s].online = "none"
  BY <1>1, <1>2, HasSession DEF SessionKnown
<1>4. CASE sessions[s].state = "authenticated"
  <2>1. PICK new \in LoginType :
            /\ new = To(l, "redeem") /\ new.step = "redeem" /\ new.kind = logins[l].kind
            /\ new.client = logins[l].client /\ new.usage = logins[l].usage
            /\ new.session = s /\ new.asked = logins[l].asked
    BY <1>1, Shapes DEF LoginSteps
  <2>2. Becomes(l, new)
    BY <1>1, <1>4, <2>1 DEF PollLogin, Session
  <2>3. logins'[l] = new
    BY <1>3, <2>2 DEF Becomes
  <2>4. LoginOK(l)'
    BY <1>1, <1>2, <1>3, <1>4, <2>1, <2>3 DEF LoginOK, HasNoSession, SessionKnown, CertificateKnown, Done
  <2> QED
    BY <1>1, <1>2, <2>1, <2>2, <2>4, QuietStep
<1>5. CASE sessions[s].state # "authenticated"
  <2>1. Becomes(l, Done) /\ Done.session = 0
    BY <1>1, <1>5 DEF PollLogin, Session, To, Done
  <2>2. LoginOK(l)'
    BY <1>3, <2>1 DEF Becomes, LoginOK
  <2> QED
    BY <1>1, <1>2, <1>3, <2>1, <2>2, DoneTyped, QuietStep
<1> QED
  BY <1>4, <1>5

LEMMA RedeemKeeps ==
    ASSUME LoginInv, NEW l \in DOMAIN logins, Redeem(l)
    PROVE  LoginInv'
<1>1. PICK s : s = logins[l].session
  OBVIOUS
<1>2. logins[l].step = "redeem" /\ UNCHANGED <<saved, replaced, clock, cache>>
  BY DEF Redeem, InPortal, Is
<1>3. /\ LoginOK(l) /\ SessionKnown(l) /\ s \in DOMAIN sessions /\ sessions[s] \in SessionType
      /\ sessions[s].online = "none" /\ sessions[s].kind = logins[l].kind /\ logins \in Seq(LoginType)
      /\ sessions \in Seq(SessionType) /\ logins[l].kind \in Kinds /\ logins[l].client \in Clients
      /\ logins[l].usage \in Usages /\ logins[l].asked <= clock
  BY <1>1, <1>2, HasSession DEF SessionKnown, LoginOK, Done
<1>4. CASE /\ Becoming(s, [sessions[s] EXCEPT !.state = "open"])
           /\ Becomes(l, IF logins[l].kind = "send"
                         THEN [To(l, "certificate") EXCEPT !.usage = "SymmetricKeyEncryption"]
                         ELSE To(l, "work"))
  <2>1. PICK session : session = [sessions[s] EXCEPT !.state = "open"]
    OBVIOUS
  <2>2. /\ session \in SessionType /\ session.client = sessions[s].client /\ session.secret = sessions[s].secret
        /\ session.kind = sessions[s].kind /\ session.online = "none"
    BY <1>3, <2>1 DEF SessionType, SessionStates
  <2>3. sessions'[s] = session /\ DOMAIN sessions' = DOMAIN sessions
    BY <1>3, <1>4, <2>1 DEF Becoming
  <2>4. \E new \in LoginType :
            /\ Becomes(l, new) /\ new.session = s /\ new.kind = logins[l].kind
            /\ new.client = logins[l].client /\ new.asked = logins[l].asked
            /\ \/ new.step = "certificate" /\ new.usage = "SymmetricKeyEncryption"
               \/ new.step = "work" /\ new.usage = logins[l].usage
    <3>1. CASE logins[l].kind = "send"
      <4>1. PICK moved \in LoginType :
                /\ moved = To(l, "certificate") /\ moved.step = "certificate" /\ moved.kind = logins[l].kind
                /\ moved.client = logins[l].client /\ moved.session = s /\ moved.asked = logins[l].asked
        BY <1>1, Shapes DEF LoginSteps
      <4>2. PICK new : new = [moved EXCEPT !.usage = "SymmetricKeyEncryption"]
        OBVIOUS
      <4>3. new \in LoginType
        BY <4>1, <4>2 DEF LoginType, LoginUsages, Usages
      <4>4. /\ new.step = "certificate" /\ new.kind = logins[l].kind /\ new.client = logins[l].client
            /\ new.session = s /\ new.asked = logins[l].asked /\ new.usage = "SymmetricKeyEncryption"
        BY <4>1, <4>2 DEF LoginType
      <4>5. Becomes(l, [To(l, "certificate") EXCEPT !.usage = "SymmetricKeyEncryption"])
        BY <1>4, <3>1, Zenon
      <4>6. Becomes(l, new)
        BY <4>1, <4>2, <4>5
      <4> QED
        BY <4>3, <4>4, <4>6
    <3>2. CASE logins[l].kind # "send"
      <4>1. Becomes(l, To(l, "work"))
        BY <1>4, <3>2, Zenon
      <4> QED
        BY <1>1, <4>1, Shapes DEF LoginSteps
    <3> QED
      BY <3>1, <3>2
  <2>5. PICK new \in LoginType :
            /\ Becomes(l, new) /\ new.session = s /\ new.kind = logins[l].kind
            /\ new.client = logins[l].client /\ new.asked = logins[l].asked
            /\ \/ new.step = "certificate" /\ new.usage = "SymmetricKeyEncryption"
               \/ new.step = "work" /\ new.usage = logins[l].usage
    BY <2>4
  <2>6. logins'[l] = new
    BY <1>3, <2>5 DEF Becomes
  <2>7. LoginOK(l)'
    BY <1>1, <1>2, <1>3, <2>2, <2>3, <2>5, <2>6 DEF LoginOK, HasNoSession, SessionKnown, CertificateKnown, Usages
  <2>8. Becoming(logins[l].session, session) /\ UNCHANGED <<saved, replaced, clock, cache>>
    BY <1>1, <1>2, <1>4, <2>1
  <2>9. /\ session.client = sessions[logins[l].session].client
        /\ session.secret = sessions[logins[l].session].secret
        /\ session.kind = sessions[logins[l].session].kind
    BY <1>1, <2>2
  <2>10. logins[l].step = "redeem" /\ new.session = logins[l].session /\ new.step # "done"
    BY <1>1, <1>2, <2>5
  <2> QED
    BY <2>2, <2>5, <2>7, <2>8, <2>9, <2>10, OwnStep
<1>5. CASE /\ Becoming(s, [sessions[s] EXCEPT !.state = "open", !.lost = TRUE])
           /\ Becomes(l, To(l, "done"))
  <2>1. PICK session : session = [sessions[s] EXCEPT !.state = "open", !.lost = TRUE]
    OBVIOUS
  <2>2. /\ session \in SessionType /\ session.client = sessions[s].client /\ session.secret = sessions[s].secret
        /\ session.kind = sessions[s].kind /\ session.lost
    BY <1>3, <2>1 DEF SessionType, SessionStates
  <2>3. Becomes(l, Done) /\ Done.session = 0
    BY <1>5 DEF To, Done
  <2>4. LoginOK(l)'
    BY <1>3, <2>3 DEF Becomes, LoginOK
  <2> QED
    BY <1>1, <1>2, <1>5, <2>1, <2>2, <2>3, <2>4, DoneTyped, OwnStep
<1> QED
  BY <1>1, <1>4, <1>5 DEF Redeem, Session

LEMMA QueryKeeps ==
    ASSUME LoginInv, NEW l \in DOMAIN logins, Query(l)
    PROVE  LoginInv'
<1>1. /\ logins[l].step = "work" /\ Becomes(l, To(l, "terminate"))
      /\ UNCHANGED <<saved, replaced, clock, cache, sessions>>
  BY DEF Query, InPortal, Is
<1>2. LoginOK(l) /\ SessionKnown(l) /\ logins \in Seq(LoginType)
  BY <1>1, HasSession
<1>3. PICK new \in LoginType :
          /\ new = To(l, "terminate") /\ new.step = "terminate" /\ new.kind = logins[l].kind
          /\ new.client = logins[l].client /\ new.usage = logins[l].usage
          /\ new.session = logins[l].session /\ new.asked = logins[l].asked
  BY Shapes DEF LoginSteps
<1>4. Becomes(l, new) /\ logins'[l] = new
  BY <1>1, <1>2, <1>3 DEF Becomes
<1>5. LoginOK(l)'
  BY <1>1, <1>2, <1>3, <1>4 DEF LoginOK, HasNoSession, SessionKnown, CertificateKnown, Done
<1> QED
  BY <1>1, <1>3, <1>4, <1>5, QuietStep

LEMMA DownloadUpoKeeps ==
    ASSUME LoginInv, NEW l \in DOMAIN logins, DownloadUpo(l)
    PROVE  LoginInv'
<1>1. /\ logins[l].step = "work" /\ logins[l].kind = "upo" /\ Becomes(l, Done)
      /\ UNCHANGED <<saved, replaced, clock, cache, sessions>>
  BY DEF DownloadUpo, InPortal, Is
<1>2. LoginOK(l) /\ SessionKnown(l) /\ logins \in Seq(LoginType)
  BY <1>1, HasSession
<1>3. LoginOK(l)' /\ Done.session = 0 /\ sessions[logins[l].session].kind = "upo"
  BY <1>1, <1>2 DEF Becomes, LoginOK, SessionKnown, Done
<1> QED
  BY <1>1, <1>3, DoneTyped, QuietStep

\* A session that could not be opened for invoices is one whose answer was lost.
LEMMA OpenOnlineSessionKeeps ==
    ASSUME LoginInv, NEW l \in DOMAIN logins, OpenOnlineSession(l)
    PROVE  LoginInv'
<1>1. PICK s : s = logins[l].session
  OBVIOUS
<1>2. logins[l].step = "open" /\ UNCHANGED <<saved, replaced, clock, cache>>
  BY DEF OpenOnlineSession, InPortal, Is
<1>3. /\ LoginOK(l) /\ SessionKnown(l) /\ s \in DOMAIN sessions /\ sessions[s] \in SessionType
      /\ sessions[s].online = "none" /\ sessions[s].kind = logins[l].kind /\ logins \in Seq(LoginType)
      /\ sessions \in Seq(SessionType) /\ s # 0
  BY <1>1, <1>2, HasSession DEF SessionKnown
<1>4. /\ logins[l].kind \in Kinds /\ logins[l].client \in Clients /\ clock \in Nat
      /\ logins[l].usage = "SymmetricKeyEncryption" /\ logins[l].usage \in Usages
  BY <1>2, <1>3 DEF LoginOK, LoginInv, AccessType, Done
<1>5. PICK opened, both : /\ opened = [sessions[s] EXCEPT !.online = "open"]
                         /\ both = [sessions[s] EXCEPT !.online = "open", !.lost = TRUE]
  OBVIOUS
<1>6. opened \in SessionType /\ opened.client = sessions[s].client
       /\ opened.secret = sessions[s].secret /\ opened.kind = sessions[s].kind
  BY <1>3, <1>5 DEF SessionType, OnlineStates
<1>7. both \in SessionType /\ both.client = sessions[s].client
       /\ both.secret = sessions[s].secret /\ both.kind = sessions[s].kind
  BY <1>3, <1>5 DEF SessionType, OnlineStates
<1>8. opened.online = "open" /\ both.online = "open" /\ both.lost
  BY <1>3, <1>5 DEF SessionType
<1>9. \A step \in {"close", "terminate"} : \E new \in LoginType :
          /\ new = After(l, step) /\ new.step = step /\ new.kind = logins[l].kind
          /\ new.client = logins[l].client /\ new.usage = logins[l].usage
          /\ new.asked = 0 /\ new.session = s
  BY <1>1, Shapes DEF LoginSteps
<1>10. FailsTo(l) = "terminate"
  BY <1>4 DEF FailsTo
<1>11. CASE Becoming(s, [sessions[s] EXCEPT !.online = "open"]) /\ Becomes(l, After(l, "close"))
  <2>1. PICK new \in LoginType :
            /\ new = After(l, "close") /\ new.step = "close" /\ new.kind = logins[l].kind
            /\ new.client = logins[l].client /\ new.usage = logins[l].usage
            /\ new.asked = 0 /\ new.session = s
    BY <1>9
  <2>2. sessions'[s] = opened /\ DOMAIN sessions' = DOMAIN sessions /\ logins'[l] = new
    BY <1>3, <1>5, <1>11, <2>1 DEF Becoming, Becomes
  <2>3. LoginOK(l)'
    BY <1>1, <1>2, <1>3, <1>4, <1>6, <1>8, <2>1, <2>2 DEF LoginOK, HasNoSession, SessionKnown, CertificateKnown
  <2> QED
    BY <1>1, <1>2, <1>5, <1>11, <1>6, <2>1, <2>3, OwnStep
<1>12. CASE /\ sessions' \in {sessions, [sessions EXCEPT ![s].online = "open", ![s].lost = TRUE]}
           /\ Becomes(l, After(l, FailsTo(l)))
  <2>1. PICK new \in LoginType :
            /\ new = After(l, "terminate") /\ new.step = "terminate" /\ new.kind = logins[l].kind
            /\ new.client = logins[l].client /\ new.usage = logins[l].usage
            /\ new.asked = 0 /\ new.session = s
    BY <1>9
  <2>2. Becomes(l, new) /\ logins'[l] = new
    BY <1>3, <1>10, <1>12, <2>1 DEF Becomes
  <2>3. CASE sessions' = sessions
    <3>1. LoginOK(l)'
      BY <1>1, <1>2, <1>3, <1>4, <2>1, <2>2, <2>3 DEF LoginOK, HasNoSession, SessionKnown, CertificateKnown
    <3> QED
      BY <1>1, <1>2, <2>1, <2>2, <2>3, <3>1, QuietStep
  <2>4. CASE sessions' # sessions
    <3>1. Becoming(s, both)
      BY <1>3, <1>5, <1>12, <2>4 DEF Becoming
    <3>2. sessions'[s] = both /\ DOMAIN sessions' = DOMAIN sessions
      BY <1>3, <3>1 DEF Becoming
    <3>3. LoginOK(l)'
      BY <1>1, <1>2, <1>3, <1>4, <1>7, <1>8, <2>1, <2>2, <3>2 DEF LoginOK, HasNoSession, SessionKnown, CertificateKnown
    <3> QED
      BY <1>1, <1>2, <1>7, <2>1, <2>2, <3>1, <3>3, OwnStep
  <2> QED
    BY <2>3, <2>4
<1> QED
  BY <1>1, <1>11, <1>12 DEF OpenOnlineSession, Session

LEMMA VerdictIsNotStoredKeeps ==
    ASSUME LoginInv, NEW l \in DOMAIN logins, VerdictIsNotStored(l)
    PROVE  LoginInv'
<1>1. PICK s : s = logins[l].session
  OBVIOUS
<1>2. /\ logins[l].step = "close" /\ UNCHANGED <<saved, replaced, clock, cache>>
      /\ Becoming(s, [sessions[s] EXCEPT !.lost = TRUE]) /\ Becomes(l, Done)
  BY <1>1 DEF VerdictIsNotStored, InPortal, Is, Session
<1>3. sessions[s] \in SessionType /\ logins \in Seq(LoginType)
  BY <1>1, <1>2, HasSession
<1>4. PICK lost : lost = [sessions[s] EXCEPT !.lost = TRUE]
  OBVIOUS
<1>5. /\ lost \in SessionType /\ lost.client = sessions[s].client
      /\ lost.secret = sessions[s].secret /\ lost.kind = sessions[s].kind
  BY <1>3, <1>4 DEF SessionType
<1>6. lost.lost
  BY <1>3, <1>4 DEF SessionType
<1>7. LoginOK(l)' /\ Done.session = 0
  BY <1>2, <1>3 DEF Becomes, LoginOK, Done
<1> QED
  BY <1>1, <1>2, <1>4, <1>7, <1>5, <1>6, DoneTyped, OwnStep

LEMMA CloseOnlineSessionKeeps ==
    ASSUME LoginInv, NEW l \in DOMAIN logins, CloseOnlineSession(l)
    PROVE  LoginInv'
<1>1. PICK s : s = logins[l].session
  OBVIOUS
<1>2. /\ logins[l].step = "close" /\ UNCHANGED <<saved, replaced, clock, cache>>
      /\ \/ Becoming(s, [sessions[s] EXCEPT !.online = "closed"])
         \/ Becoming(s, [sessions[s] EXCEPT !.lost = TRUE])
      /\ Becomes(l, To(l, "terminate"))
  BY <1>1 DEF CloseOnlineSession, InPortal, Is, Session
<1>3. /\ sessions[s] \in SessionType /\ logins \in Seq(LoginType) /\ LoginOK(l) /\ SessionKnown(l)
      /\ s \in DOMAIN sessions /\ sessions \in Seq(SessionType)
  BY <1>1, <1>2, HasSession
<1>4. PICK session \in SessionType :
          /\ Becoming(s, session) /\ (session.online # "open" \/ session.lost)
          /\ session.client = sessions[s].client
          /\ session.secret = sessions[s].secret /\ session.kind = sessions[s].kind
  <2>1. PICK closed, lost : /\ closed = [sessions[s] EXCEPT !.online = "closed"]
                          /\ lost = [sessions[s] EXCEPT !.lost = TRUE]
    OBVIOUS
  <2>2. closed \in SessionType /\ closed.client = sessions[s].client
        /\ closed.secret = sessions[s].secret /\ closed.kind = sessions[s].kind
    BY <1>3, <2>1 DEF SessionType, OnlineStates, SessionStates
  <2>3. lost \in SessionType /\ lost.client = sessions[s].client
        /\ lost.secret = sessions[s].secret /\ lost.kind = sessions[s].kind
    BY <1>3, <2>1 DEF SessionType, OnlineStates, SessionStates
  <2>4. closed.online = "closed" /\ lost.lost
    BY <1>3, <2>1 DEF SessionType
  <2> QED
    BY <1>2, <2>1, <2>2, <2>3, <2>4
<1>5. PICK new \in LoginType :
          /\ new = To(l, "terminate") /\ new.step = "terminate" /\ new.kind = logins[l].kind
          /\ new.client = logins[l].client /\ new.usage = logins[l].usage
          /\ new.session = s /\ new.asked = logins[l].asked
  BY <1>1, Shapes DEF LoginSteps
<1>6. /\ Becomes(l, new) /\ logins'[l] = new /\ sessions'[s] = session
      /\ DOMAIN sessions' = DOMAIN sessions
  BY <1>2, <1>3, <1>4, <1>5 DEF Becomes, Becoming
<1>7. LoginOK(l)'
  BY <1>1, <1>2, <1>3, <1>4, <1>5, <1>6 DEF LoginOK, HasNoSession, SessionKnown, CertificateKnown, Done
<1> QED
  BY <1>1, <1>2, <1>4, <1>5, <1>6, <1>7, OwnStep

LEMMA TerminateSessionKeeps ==
    ASSUME LoginInv, NEW l \in DOMAIN logins, TerminateSession(l)
    PROVE  LoginInv'
<1>1. PICK s : s = logins[l].session
  OBVIOUS
<1>2. /\ logins[l].step = "terminate" /\ UNCHANGED <<saved, replaced, clock, cache>>
      /\ \/ Becoming(s, [sessions[s] EXCEPT !.state = "ended"])
         \/ Becoming(s, [sessions[s] EXCEPT !.lost = TRUE])
      /\ Becomes(l, Done)
  BY <1>1 DEF TerminateSession, InPortal, Is, Session, To
<1>3. /\ sessions[s] \in SessionType /\ logins \in Seq(LoginType)
      /\ sessions[s].online # "open" \/ sessions[s].lost
  BY <1>1, <1>2, HasSession DEF SessionKnown
<1>4. PICK session \in SessionType :
          /\ Becoming(s, session)
          /\ "open" \in {session.state, session.online} => session.lost
          /\ session.client = sessions[s].client
          /\ session.secret = sessions[s].secret /\ session.kind = sessions[s].kind
  <2>1. PICK ended, lost : /\ ended = [sessions[s] EXCEPT !.state = "ended"]
                          /\ lost = [sessions[s] EXCEPT !.lost = TRUE]
    OBVIOUS
  <2>2. ended \in SessionType /\ ended.client = sessions[s].client
        /\ ended.secret = sessions[s].secret /\ ended.kind = sessions[s].kind
    BY <1>3, <2>1 DEF SessionType, OnlineStates, SessionStates
  <2>3. lost \in SessionType /\ lost.client = sessions[s].client
        /\ lost.secret = sessions[s].secret /\ lost.kind = sessions[s].kind
    BY <1>3, <2>1 DEF SessionType, OnlineStates, SessionStates
  <2>4. ended.state = "ended" /\ ended.online = sessions[s].online /\ ended.lost = sessions[s].lost /\ lost.lost
    BY <1>3, <2>1 DEF SessionType
  <2>5. CASE Becoming(s, ended)
    BY <1>3, <2>5, <2>2, <2>4
  <2>6. CASE Becoming(s, lost)
    BY <2>6, <2>3, <2>4
  <2> QED
    BY <1>2, <2>1, <2>5, <2>6
<1>5. LoginOK(l)' /\ Done.session = 0
  BY <1>2, <1>3 DEF Becomes, LoginOK, Done
<1> QED
  BY <1>1, <1>2, <1>4, <1>5, DoneTyped, OwnStep

\* The process loses what it knows, KSeF keeps what was open.
LEMMA RestartKeeps == LoginInv /\ Restart => LoginInv'
<1> SUFFICES ASSUME LoginInv, Restart PROVE LoginInv'
  OBVIOUS
<1>1. /\ logins' = [l \in DOMAIN logins |-> Done] /\ cache' = [u \in Usages |-> None]
      /\ sessions' = [s \in DOMAIN sessions |-> [sessions[s] EXCEPT !.lost = @ \/ Active(s)]]
      /\ UNCHANGED <<saved, replaced, clock>>
  BY DEF Restart, InPortal
<1>2. logins \in Seq(LoginType) /\ sessions \in Seq(SessionType) /\ Done \in LoginType
  BY DoneTyped DEF LoginInv, AccessType
<1>3. logins' \in Seq(LoginType) /\ DOMAIN logins' = DOMAIN logins /\ \A l \in DOMAIN logins : logins'[l] = Done
  BY SMTT(30), <1>1, <1>2
<1>4. ASSUME NEW s \in DOMAIN sessions
      PROVE  sessions'[s] \in SessionType /\ SessionOK(s)'
  <2>1. PICK session : session = sessions[s]
    OBVIOUS
  <2>2. session \in SessionType /\ SessionOK(s)
    BY <1>2, <2>1 DEF LoginInv
  <2>3. PICK lost : lost = (session.lost \/ Active(s))
    OBVIOUS
  <2>4. lost \in BOOLEAN /\ (session.lost => lost) /\ (Active(s) => lost)
    <3>1. session.lost \in BOOLEAN
      BY <2>2 DEF SessionType
    <3> QED
      BY <2>3, <3>1, Zenon
  <2>5. sessions'[s] = [session EXCEPT !.lost = lost]
    BY <1>1, <2>1, <2>3, Zenon
  <2>6. /\ sessions'[s] \in SessionType /\ sessions'[s].lost = lost /\ sessions'[s].client = session.client
        /\ sessions'[s].secret = session.secret /\ sessions'[s].kind = session.kind
        /\ sessions'[s].state = session.state /\ sessions'[s].online = session.online
    BY <2>2, <2>4, <2>5 DEF SessionType
  <2>7. WasSaved(session.client, session.secret)'
    BY <1>1, <2>1, <2>2 DEF SessionOK, WasSaved
  <2>8. "open" \in {session.state, session.online} => lost \/ session.kind = "upo"
    BY <2>1, <2>2, <2>4, Zenon DEF SessionOK
  <2> QED
    BY <2>6, <2>7, <2>8 DEF SessionOK
<1>5. sessions' \in Seq(SessionType) /\ DOMAIN sessions' = DOMAIN sessions
  <2>1. DOMAIN sessions' = DOMAIN sessions /\ sessions' = [s \in DOMAIN sessions |-> sessions'[s]]
    BY <1>1, Zenon
  <2> QED
    BY <1>2, <1>4, <2>1
<1>6. DOMAIN cache' = Usages /\ \A u \in Usages : CacheOK(u)'
  BY <1>1 DEF CacheOK
<1>7. OwnSessions' /\ \A l \in DOMAIN logins' : LoginOK(l)'
  BY <1>3 DEF OwnSessions, LoginOK, Done
<1> QED
  BY <1>1, <1>3, <1>4, <1>5, <1>6, <1>7 DEF LoginInv, AccessType

\* A later save takes nothing of what was saved before.
LEMMA SavedGrows ==
    ASSUME LoginInv, UNCHANGED <<replaced, cache, logins, sessions, clock>>,
           \A c \in Clients : \A i \in DOMAIN saved[c] : i \in DOMAIN saved'[c] /\ saved'[c][i] = saved[c][i]
    PROVE  LoginInv'
<1>1. ASSUME NEW c \in Clients, NEW secret, WasSaved(c, secret) PROVE WasSaved(c, secret)'
  BY <1>1 DEF WasSaved
<1>2. ASSUME NEW l \in DOMAIN logins PROVE LoginOK(l)'
  <2>1. LoginOK(l)
    BY DEF LoginInv
  <2>2. (HasNoSession(l)' <=> HasNoSession(l)) /\ (SessionKnown(l)' <=> SessionKnown(l))
    BY DEF HasNoSession, SessionKnown
  <2>3. CertificateKnown(l)' <=> CertificateKnown(l)
    BY DEF CertificateKnown, Suits
  <2>4. logins[l].client \in Clients /\ WasSaved(logins[l].client, logins[l].secret)
            => WasSaved(logins[l].client, logins[l].secret)'
    BY <1>1
  <2> QED
    BY <2>1, <2>2, <2>3, <2>4 DEF LoginOK
<1>3. ASSUME NEW s \in DOMAIN sessions PROVE SessionOK(s)'
  <2>1. SessionOK(s) /\ sessions[s] \in SessionType
    BY DEF LoginInv, AccessType
  <2>2. sessions[s].client \in Clients
    BY <2>1 DEF SessionType
  <2>3. Active(s)' <=> Active(s)
    BY DEF Active, Session, Is
  <2> QED
    BY <1>1, <2>1, <2>2, <2>3 DEF SessionOK
<1> QED
  BY <1>2, <1>3 DEF LoginInv, AccessType, OwnSessions, CacheOK, Suits

LEMMA LoginsStand == LoginInv /\ UNCHANGED accessVars => LoginInv'
BY SavedGrows DEF accessVars

\* Time passes, and KSeF replaces certificates later than all that was asked for.
LEMMA TimeKeeps ==
    ASSUME LoginInv, Tick \/ \E usage \in Usages : Rotate(usage)
    PROVE  LoginInv'
<1>1. /\ UNCHANGED <<saved, cache, logins, sessions>> /\ clock \in Nat /\ clock' \in Nat /\ clock <= clock'
      /\ replaced \in [Usages -> Seq(Nat)] /\ replaced' \in [Usages -> Seq(Nat)]
      /\ \/ replaced' = replaced
         \/ \E u \in Usages : replaced' = [replaced EXCEPT ![u] = Append(replaced[u], clock)]
  <2>1. clock \in Nat /\ replaced \in [Usages -> Seq(Nat)]
    BY DEF LoginInv, AccessType
  <2>2. CASE Tick
    BY <2>1, <2>2 DEF Tick
  <2>3. ASSUME NEW u \in Usages, Rotate(u)
        PROVE  /\ UNCHANGED <<saved, cache, logins, sessions, clock>>
               /\ replaced' = [replaced EXCEPT ![u] = Append(replaced[u], clock)]
    BY <2>3 DEF Rotate
  <2>4. CASE \E u \in Usages : Rotate(u)
    <3>1. PICK u \in Usages : Rotate(u)
      BY <2>4
    <3>2. /\ UNCHANGED <<saved, cache, logins, sessions, clock>>
          /\ replaced' = [replaced EXCEPT ![u] = Append(replaced[u], clock)]
      BY <2>3, <3>1
    <3>3. PICK times : times = Append(replaced[u], clock)
      OBVIOUS
    <3>4. times \in Seq(Nat)
      BY <2>1, <3>3
    <3>5. replaced' = [replaced EXCEPT ![u] = times]
      BY <3>2, <3>3
    <3>6. replaced' \in [Usages -> Seq(Nat)]
      BY <2>1, <3>4, <3>5
    <3> QED
      <4>1. \E v \in Usages : replaced' = [replaced EXCEPT ![v] = Append(replaced[v], clock)]
        BY <3>2, Zenon
      <4>2. clock' \in Nat /\ clock <= clock'
        BY <2>1, <3>2
      <4> QED
        BY <2>1, <3>2, <3>6, <4>1, <4>2, Zenon
  <2> QED
    BY <2>2, <2>4
<1>2. ASSUME NEW cert \in Certificates, NEW u \in Usages, NEW since \in Int, since <= clock, Suits(cert, u, since)
      PROVE  Suits(cert, u, since)'
  <2>1. cert.usage = u
    BY <1>2 DEF Suits
  <2>2. ASSUME cert.version \in DOMAIN replaced'[u] PROVE replaced'[u][cert.version] >= since
    <3>1. CASE replaced'[u] = replaced[u]
      BY <1>2, <2>2, <3>1 DEF Suits
    <3>2. CASE replaced'[u] = Append(replaced[u], clock)
      <4>1. replaced[u] \in Seq(Nat) /\ cert.version \in DOMAIN Append(replaced[u], clock)
        BY <1>1, <2>2, <3>2
      <4>2. CASE cert.version \in DOMAIN replaced[u]
        BY <1>1, <1>2, <3>2, <4>1, <4>2 DEF Suits
      <4>3. CASE cert.version \notin DOMAIN replaced[u]
        <5>1. PICK times : times = replaced[u]
          OBVIOUS
        <5>2. times \in Seq(Nat) /\ cert.version = Len(times) + 1
          BY <4>1, <4>3, <5>1
        <5>3. Append(times, clock)[cert.version] = clock
          BY <1>1, <5>2
        <5> QED
          BY <1>2, <3>2, <5>1, <5>3
      <4> QED
        BY <4>2, <4>3
    <3> QED
      BY <1>1, <3>1, <3>2
  <2> QED
    BY <2>1, <2>2 DEF Suits
<1>3. ASSUME NEW u \in Usages PROVE CacheOK(u)'
  <2>1. SUFFICES ASSUME cache[u] # None PROVE CacheOK(u)'
    BY <1>1 DEF CacheOK
  <2>2. /\ cache[u].ts \in Nat /\ cache[u].ts <= clock /\ cache[u].cert \in CertificateType
        /\ Suits(cache[u].cert, u, cache[u].ts)
    BY <2>1 DEF LoginInv, CacheOK
  <2>3. Suits(cache[u].cert, u, cache[u].ts)'
    BY <1>1, <1>2, <2>2 DEF Certificates
  <2> QED
    BY <1>1, <2>2, <2>3 DEF CacheOK
<1>4. ASSUME NEW l \in DOMAIN logins PROVE LoginOK(l)'
  <2>1. LoginOK(l) /\ logins[l] \in LoginType
    BY DEF LoginInv, AccessType
  <2>2. CASE logins[l] = Done
    BY <1>1, <2>2 DEF LoginOK
  <2>3. CASE logins[l] # Done
    <3>1. logins[l].usage \in Usages /\ logins[l].asked <= clock /\ CertificateKnown(l)
      BY <2>1, <2>3 DEF LoginOK
    <3>2. logins[l].asked \in Nat /\ logins[l].cert \in Certificates
      BY <2>1 DEF LoginType
    <3>3. CertificateKnown(l)'
      <4>1. logins[l].asked - MaxAge + 1 \in Int /\ logins[l].asked - MaxAge + 1 <= clock
        BY <1>1, <3>1, <3>2, AccessAssumption
      <4>2. logins[l].step = "fetched" => Suits(logins[l].cert, logins[l].usage, logins[l].asked)'
                                         /\ logins[l].cert \in CertificateType
        BY <1>1, <1>2, <3>1, <3>2 DEF CertificateKnown
      <4>3. logins[l].step \in {"authenticate", "open"} =>
                Suits(logins[l].cert, logins[l].usage, logins[l].asked - MaxAge + 1)'
        BY <1>1, <1>2, <3>1, <3>2, <4>1 DEF CertificateKnown
      <4> QED
        BY <1>1, <4>2, <4>3 DEF CertificateKnown
    <3>4. /\ (HasNoSession(l)' <=> HasNoSession(l)) /\ (SessionKnown(l)' <=> SessionKnown(l))
          /\ WasSaved(logins[l].client, logins[l].secret)' <=> WasSaved(logins[l].client, logins[l].secret)
      BY <1>1 DEF HasNoSession, SessionKnown, WasSaved
    <3>5. logins[l].asked <= clock'
      BY <1>1, <3>1, <3>2
    <3> QED
      BY <1>1, <2>1, <2>3, <3>3, <3>4, <3>5 DEF LoginOK
  <2> QED
    BY <2>2, <2>3
<1>5. ASSUME NEW s \in DOMAIN sessions PROVE SessionOK(s)'
  BY <1>1 DEF LoginInv, SessionOK, WasSaved, Active, Session, Is
<1> QED
  BY <1>1, <1>3, <1>4, <1>5 DEF LoginInv, AccessType, OwnSessions

\* A login starts with what the row of its client holds, as a token.
LEMMA LogInKeeps ==
    ASSUME LoginInv, CredentialsInv, NEW caller \in Callers, NEW c \in Clients, LogIn(caller, c)
    PROVE  LoginInv'
<1>1. PICK new, secret :
          /\ secret = credentials[c].secret.value
          /\ new = [kind |-> Kind(caller), client |-> c, secret |-> secret, step |-> "certificate",
                    usage |-> "KsefTokenEncryption", asked |-> clock, cert |-> None, session |-> 0]
  OBVIOUS
<1>2. /\ logins' = Append(logins, new) /\ UNCHANGED <<saved, replaced, cache, sessions, clock>>
      /\ credentials[c].form # "none" /\ credentials[c].secret.method = "token"
  BY <1>1 DEF LogIn
<1>3. credentials[c].secret \in SecretType /\ StoredOK(c) /\ saved[c] \in Seq(SecretType)
  BY DEF CredentialsInv, CredentialType
<1>4. saved[c] # <<>>
  BY <1>2, <1>3 DEF StoredOK, NoRow, Row
<1>5. Secret("token", secret) = credentials[c].secret
  BY <1>1, <1>2, <1>3 DEF SecretType, Secret
<1>6. WasSaved(c, secret)
  BY <1>3, <1>4, <1>5 DEF StoredOK, WasSaved
<1>7. Kind(caller) \in Kinds /\ "KsefTokenEncryption" \in Usages /\ None \in Certificates /\ secret \in Values
  BY <1>1, <1>3 DEF Kind, Callers, Kinds, Usages, Certificates, SecretType
<1>8. clock \in Nat /\ logins \in Seq(LoginType) /\ sessions \in Seq(SessionType) /\ 0 \notin DOMAIN sessions
  BY DEF LoginInv, AccessType
<1>9. new \in LoginType
  BY <1>1, <1>7, <1>8 DEF LoginType, LoginKinds, LoginClients, LoginSteps, LoginUsages
<1>10. PICK n : n = Len(logins) + 1
  OBVIOUS
<1>11. /\ logins' \in Seq(LoginType) /\ DOMAIN logins' = DOMAIN logins \cup {n} /\ logins'[n] = new
       /\ n \notin DOMAIN logins /\ \A l \in DOMAIN logins : logins'[l] = logins[l]
  BY <1>2, <1>8, <1>9, <1>10
<1>12. new.session = 0
  BY <1>1
<1>13. OwnSessions'
  BY <1>11, <1>12 DEF LoginInv, OwnSessions
<1>14. LoginOK(n)'
  <2>1. /\ new.kind = Kind(caller) /\ new.client = c /\ new.secret = secret /\ new.step = "certificate"
        /\ new.usage = "KsefTokenEncryption" /\ new.asked = clock
    BY <1>1
  <2>2. WasSaved(c, secret)' /\ clock' = clock /\ logins'[n] = new
    BY <1>2, <1>6, <1>11 DEF WasSaved
  <2>3. HasNoSession(n)' /\ CertificateKnown(n)'
    BY <2>1, <2>2 DEF HasNoSession, CertificateKnown
  <2>4. /\ new.step # "done" /\ new.kind \in Kinds /\ new.client \in Clients /\ new.usage \in Usages
        /\ new.asked <= clock' /\ new.step # "authenticate" /\ new.step # "open"
    BY <1>7, <1>8, <2>1, <2>2
  <2> QED
    BY <1>12, <2>1, <2>2, <2>3, <2>4 DEF LoginOK
<1>15. ASSUME NEW l \in DOMAIN logins PROVE LoginOK(l)'
  <2>1. LoginOK(l) /\ logins'[l] = logins[l]
    BY <1>11 DEF LoginInv
  <2>2. HasNoSession(l)' = HasNoSession(l)
    BY <2>1 DEF HasNoSession
  <2>3. SessionKnown(l)' = SessionKnown(l)
    BY <1>2, <2>1 DEF SessionKnown
  <2>4. CertificateKnown(l)' = CertificateKnown(l)
    BY <1>2, <2>1 DEF CertificateKnown, Suits
  <2> QED
    BY <1>2, <2>1, <2>2, <2>3, <2>4 DEF LoginOK, WasSaved
<1>16. ASSUME NEW s \in DOMAIN sessions PROVE SessionOK(s)'
  <2>1. SessionOK(s)
    BY DEF LoginInv
  <2>2. Active(s) => Active(s)'
    BY <1>11 DEF Active, Session, Is
  <2> QED
    BY <1>2, <2>1, <2>2 DEF SessionOK, WasSaved
<1> QED
  BY <1>2, <1>8, <1>11, <1>13, <1>14, <1>15, <1>16 DEF LoginInv, AccessType, CacheOK, Suits

-----------------------------------------------------------------------------
(* The three parts together                                                *)

IInv == SubscriptionInv /\ SubmissionInv /\ CredentialsInv /\ LoginInv

LEMMA Starts == Init => IInv
<1> SUFFICES ASSUME Init PROVE IInv
  OBVIOUS
<1>1. SubscriptionInv /\ SubmissionInv
  BY SubscriptionStarts, SubmissionStarts DEF Init
<1> QED
  BY <1>1, CredentialsStart, LoginsStart DEF IInv

LEMMA LoginStepStands ==
    ASSUME LoginInv, NEW l \in DOMAIN logins, LoginStep(l)
    PROVE  LoginInv'
BY UseCachedKeeps, FetchKeeps, CertificateIsSentKeeps, KeepCertificateKeeps, CertificateFailsKeeps,
   AuthenticateKeeps, AuthenticateFailsKeeps, PollLoginKeeps, RedeemKeeps, QueryKeeps, DownloadUpoKeeps,
   OpenOnlineSessionKeeps, VerdictIsNotStoredKeeps, CloseOnlineSessionKeeps, TerminateSessionKeeps
   DEF LoginStep

\* What a step of one part leaves of the others.
LEMMA CredentialsStand ==
    CredentialsInv /\ UNCHANGED <<credentials, saved, script>> => CredentialsInv'
BY DEF CredentialsInv, StoredOK, ScriptOK

LEMMA OthersStand ==
    SubscriptionInv /\ SubmissionInv /\ UNCHANGED others => SubscriptionInv' /\ SubmissionInv'
<1> SUFFICES ASSUME SubscriptionInv, SubmissionInv, UNCHANGED others
             PROVE  SubscriptionInv' /\ SubmissionInv'
  OBVIOUS
<1>1. UNCHANGED subscriptionVars /\ UNCHANGED <<preparation, submissions, gateway>>
  BY DEF others, submissionVars
<1>2. preparation' \in Seq(Files)
  BY <1>1 DEF SubmissionInv, SubmissionType
<1> QED
  BY <1>1, <1>2, SubscriptionStands, SubmissionStands

LEMMA Step == IInv /\ [Next]_vars => IInv'
<1> SUFFICES ASSUME IInv, [Next]_vars PROVE IInv'
  OBVIOUS
<1> USE DEF IInv
<1>1. ASSUME NEW c \in Clients, NEW secret \in SecretType, Save(c, secret) PROVE IInv'
  <2>1. IsActive /\ UNCHANGED butGrant /\ UNCHANGED <<preparation, submissions, gateway>>
        /\ UNCHANGED <<replaced, cache, logins, sessions, clock>>
    BY <1>1 DEF Save, submissionVars
  <2>2. preparation' \in Seq(Files)
    BY <2>1 DEF SubmissionInv, SubmissionType
  <2> QED
    BY <1>1, <2>1, <2>2, RequestKeeps, SubmissionStands, SaveKeeps, SavedGrows
<1>2. CASE ScriptReads \/ ScriptCommits \/ ScriptRollsBack
  <2>1. UNCHANGED others /\ UNCHANGED <<saved, replaced, cache, logins, sessions, clock>>
    BY <1>2 DEF ScriptReads, ScriptCommits, ScriptRollsBack
  <2>2. LoginInv'
    BY <2>1, SavedGrows
  <2> QED
    BY <1>2, <2>1, <2>2, ScriptKeeps, OthersStand
<1>3. CASE Tick \/ \E usage \in Usages : Rotate(usage)
  <2>1. UNCHANGED others /\ UNCHANGED <<credentials, saved, script>>
    BY <1>3 DEF Tick, Rotate
  <2> QED
    BY <1>3, <2>1, TimeKeeps, CredentialsStand, OthersStand
<1>4. ASSUME NEW caller \in Callers, NEW c \in Clients, LogIn(caller, c) PROVE IInv'
  <2>1. UNCHANGED others /\ UNCHANGED <<credentials, saved, script>>
    BY <1>4 DEF LogIn
  <2> QED
    BY <1>4, <2>1, LogInKeeps, CredentialsStand, OthersStand
<1>5. ASSUME NEW l \in DOMAIN logins, LoginStep(l) PROVE IInv'
  <2>1. InPortal
    BY <1>5 DEF LoginStep, UseCached, Fetch, CertificateIsSent, KeepCertificate, CertificateFails, Authenticate,
       AuthenticateFails, PollLogin, Redeem, Query, DownloadUpo, OpenOnlineSession, VerdictIsNotStored,
       CloseOnlineSession, TerminateSession
  <2>2. UNCHANGED others /\ UNCHANGED <<credentials, saved, script>>
    BY <2>1 DEF InPortal
  <2> QED
    BY <1>5, <2>2, LoginStepStands, CredentialsStand, OthersStand
<1>6. ASSUME NEW s \in DOMAIN sessions, KsefDecides(s) PROVE IInv'
  <2>1. UNCHANGED others /\ UNCHANGED <<credentials, saved, script>>
    BY <1>6 DEF KsefDecides, InPortal
  <2> QED
    BY <1>6, <2>1, DecidesKeeps, CredentialsStand, OthersStand
<1>7. CASE Restart
  <2>1. UNCHANGED others /\ UNCHANGED <<credentials, saved, script>>
    BY <1>7 DEF Restart, InPortal
  <2> QED
    BY <1>7, <2>1, RestartKeeps, CredentialsStand, OthersStand
<1>8. CASE BillingStep
  <2>1. SubscriptionNext /\ UNCHANGED accessVars /\ UNCHANGED <<credentials, saved, script>>
        /\ UNCHANGED <<preparation, submissions, gateway>>
    BY <1>8 DEF BillingStep, accessVars, submissionVars
  <2>2. preparation' \in Seq(Files)
    BY <2>1 DEF SubmissionInv, SubmissionType
  <2>3. SubscriptionInv'
    BY <2>1, StripeKeeps, EventKeeps, LicenceKeeps DEF SubscriptionNext
  <2> QED
    BY <2>1, <2>2, <2>3, SubmissionStands, CredentialsStand, LoginsStand
<1>9. CASE Prepare
  <2>1. PICK file \in Files : preparation' = <<file>>
    BY <1>9 DEF Prepare, Files
  <2>2. /\ UNCHANGED subscriptionVars /\ UNCHANGED <<submissions, gateway>>
        /\ UNCHANGED <<credentials, saved, script>> /\ UNCHANGED <<replaced, cache, logins, sessions, clock>>
    BY <1>9 DEF Prepare
  <2>3. preparation' \in Seq(Files)
    BY <2>1
  <2>4. LoginInv'
    BY <2>2, SavedGrows
  <2> QED
    BY <2>2, <2>3, <2>4, SubscriptionStands, SubmissionStands, CredentialsStand
<1>10. CASE SubmitFile
  <2>1. /\ IsActive /\ Submit /\ UNCHANGED butGrant
        /\ UNCHANGED <<credentials, saved, script>> /\ UNCHANGED <<replaced, cache, logins, sessions, clock>>
    BY <1>10 DEF SubmitFile
  <2>2. LoginInv'
    BY <2>1, SavedGrows
  <2> QED
    BY <2>1, <2>2, RequestKeeps, SubmitKeeps, CredentialsStand
<1>11. CASE GatewayStep
  <2>1. SubmissionStep /\ UNCHANGED accessVars /\ UNCHANGED subscriptionVars
        /\ UNCHANGED <<credentials, saved, script>>
    BY <1>11 DEF GatewayStep, accessVars
  <2> QED
    BY <2>1, SubmissionStepKeeps, SubscriptionStands, CredentialsStand, LoginsStand
<1>12. CASE UNCHANGED vars
  <2>1. UNCHANGED accessVars /\ UNCHANGED others /\ UNCHANGED <<credentials, saved, script>>
    BY <1>12 DEF vars, accessVars, others
  <2> QED
    BY <2>1, LoginsStand, CredentialsStand, OthersStand
<1>13. \A token \in Tokens : Secret("token", token) \in SecretType
  BY DEF Secret, SecretType, Values
<1>14. Secret("certificate", Bundle) \in SecretType
  BY DEF Secret, SecretType, Values
<1>15. ASSUME NEW c \in Clients, (\E token \in Tokens : SaveToken(c, token)) \/ SaveCertificate(c) PROVE IInv'
  BY <1>1, <1>13, <1>14, <1>15 DEF SaveToken, SaveCertificate
<1> QED
  BY <1>2, <1>3, <1>4, <1>5, <1>6, <1>7, <1>8, <1>9, <1>10, <1>11, <1>12, <1>15 DEF Next

LEMMA Invariance == Spec => []IInv
BY Starts, Step, PTL DEF Spec

-----------------------------------------------------------------------------
(* The properties                                                          *)

\* What the firm's columns grant was sold to it: by Stripe as long as the last
\* event it has not handled allows, or by a licence that was loaded.
THEOREM GrantsWereSold == Spec => []GrantWasSold
<1>1. IInv => GrantWasSold
  BY SubscriptionAssumption DEF IInv, SubscriptionInv, ByStripe, ByLicence, GrantWasSold
<1> QED
  BY <1>1, Invariance, PTL

\* A file is accepted or rejected in the portal only if the gateway said so of
\* the upload of that very file.
THEOREM VerdictsAreTheGateways == Spec => []VerdictIsTheGateways
<1>1. IInv => VerdictIsTheGateways
  BY VerdictFollows DEF IInv
<1> QED
  BY <1>1, Invariance, PTL

\* The credential of a client is the one last saved for it, through every run of
\* the script, and no login presents anything else than a token saved for it.
THEOREM StoredIsLastSaved == Spec => []LastSavedIsStored
<1>1. IInv => LastSavedIsStored
  BY DEF IInv, CredentialsInv, StoredOK, LoginInv, SessionOK, WasSaved, LastSavedIsStored
<1> QED
  BY <1>1, Invariance, PTL

\* Nothing is encrypted under a certificate of another use, or one replaced more
\* than an hour before it was asked for.
THEOREM KeysAlwaysFit == Spec => []KeysFitTheirUse
<1>1. ASSUME IInv, NEW l \in DOMAIN logins, logins[l].step \in {"authenticate", "open"}
      PROVE  /\ logins[l].cert.usage = logins[l].usage
             /\ logins[l].cert.version \in DOMAIN replaced[logins[l].cert.usage] =>
                   replaced[logins[l].cert.usage][logins[l].cert.version] > logins[l].asked - MaxAge
  <2>1. LoginOK(l) /\ logins[l] \in LoginType /\ replaced \in [Usages -> Seq(Nat)]
    BY <1>1 DEF IInv, LoginInv, AccessType
  <2>2. logins[l].usage \in Usages /\ CertificateKnown(l)
    BY <1>1, <2>1 DEF LoginOK, Done
  <2>3. Suits(logins[l].cert, logins[l].usage, logins[l].asked - MaxAge + 1) /\ logins[l].asked \in Nat
    <3>1. logins[l].asked \in Nat
      BY <2>1 DEF LoginType
    <3> QED
      BY <1>1, <2>2, <3>1 DEF CertificateKnown
  <2> QED
    BY <2>1, <2>2, <2>3, AccessAssumption DEF Suits
<1>2. IInv => KeysFitTheirUse
  BY <1>1 DEF KeysFitTheirUse
<1> QED
  BY <1>2, Invariance, PTL

\* No session of KSeF outlives its request but where the process died, an answer
\* was lost, a verdict could not be stored, or a UPO was fetched.
THEOREM SessionsEnd == Spec => []SessionsAreEnded
<1>1. IInv => SessionsAreEnded
  BY DEF IInv, LoginInv, SessionOK, SessionsAreEnded
<1> QED
  BY <1>1, Invariance, PTL
=============================================================================
