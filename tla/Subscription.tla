---------------------------- MODULE Subscription -----------------------------
(***************************************************************************)
(* What a firm may use: the subscription columns of firms, and the two     *)
(* that decide them, according to the access policy of the installation.   *)
(*   stripe   Stripe's webhook writes them (api/billing/webhook/route.ts). *)
(*            Every checkout makes a new subscription.  An event carries   *)
(*            the state its subscription had when it was sent; Stripe      *)
(*            sends it at least once, in any order, and again after an     *)
(*            answer of 500.                                               *)
(*   licence  a signed file is installed (api/settings/licence), and every *)
(*            check of it (lib/licence.ts) repairs the columns from what   *)
(*            it read, in a statement of its own.                          *)
(***************************************************************************)
EXTENDS Naturals

CONSTANTS Subs, Plans, Cap, Trial, FirstPlan, None,
          Providers,         \* the access policies considered
          Licences,          \* the signed licences of the firm
          MaxUpdates, MaxDay

\* verifyLicence() refuses a cap above that of the plan.
ASSUME SubscriptionAssumption ==
    /\ {Trial, FirstPlan} \subseteq Plans /\ Cap \in [Plans -> Nat]
    /\ Providers \subseteq {"stripe", "licence"}
    /\ Licences \subseteq [plan : Plans, cap : Nat, issued : Nat, expires : Nat]
    /\ \A l \in Licences : l.cap <= Cap[l.plan]
    /\ None \notin Subs \cup Licences

VARIABLES provider, \* the access policy, which never changes
          grant,    \* the firm's subscription_tier, _status, max_clients, stripe_subscription_id, trial_expires_at
          stripe,   \* the state of each subscription, at Stripe
          events,   \* events Stripe may still deliver
          licence,  \* firm_licences.signed_blob
          loads,    \* uploads and checks of a licence that have read but not written
          today,
          sold,     \* history: the states of each subscription, the licences installed
          updates   \* bound: changes at Stripe, licences uploaded, days
columns == <<provider, grant>>
licenceVars == <<licence, loads, today>>
subscriptionVars == <<columns, stripe, events, licenceVars, sold, updates>>

Statuses == {"active", "past_due", "paused", "canceled"}
State(plan, status) == [plan |-> plan, status |-> status]
NotBought == State(Trial, "none")
Event(type, s, state) == [type |-> type, sub |-> s, state |-> state]

\* A local installation makes its first firm an active one.
Grant(plan, status, cap, sub, until) ==
    [tier |-> plan, status |-> status, cap |-> cap, sub |-> sub, until |-> until]
FirstGrant == IF provider = "licence" THEN Grant(FirstPlan, "active", Cap[FirstPlan], None, None)
              ELSE Grant(Trial, "trial", Cap[Trial], None, None)

SubscriptionInit ==
    /\ provider \in Providers /\ grant = FirstGrant
    /\ licence = None /\ loads = {} /\ today = 0
    /\ stripe = [s \in Subs |-> NotBought]
    /\ events = {} /\ sold = {} /\ updates = 0

-----------------------------------------------------------------------------
(* Stripe                                                                  *)

MayChange == updates < MaxUpdates /\ updates' = updates + 1

\* POST /api/billing starts a checkout; its metadata names firm and plan.
Checkout(s, plan) ==
    /\ stripe[s] = NotBought /\ MayChange
    /\ stripe' = [stripe EXCEPT ![s] = State(plan, "active")]
    /\ events' = events \cup {Event("checkout", s, stripe'[s])}
    /\ sold' = sold \cup {<<s, stripe'[s]>>}
    /\ UNCHANGED <<columns, licenceVars>>

\* The plan is changed, a charge fails or succeeds, the subscription is paused.
Change(s, state) ==
    /\ stripe[s].status \notin {"none", "deleted"} /\ state # stripe[s]
    /\ MayChange
    /\ stripe' = [stripe EXCEPT ![s] = state]
    /\ events' = events \cup {Event("updated", s, state)}
    /\ sold' = sold \cup {<<s, state>>}
    /\ UNCHANGED <<columns, licenceVars>>

End(s) ==
    /\ stripe[s].status \notin {"none", "deleted"} /\ MayChange
    /\ stripe' = [stripe EXCEPT ![s].status = "deleted"]
    /\ events' = events \cup {Event("deleted", s, stripe[s])}
    /\ sold' = sold \cup {<<s, stripe'[s]>>}
    /\ UNCHANGED <<columns, licenceVars>>

StripeStep == provider = "stripe" /\ \E s \in Subs :
    \/ \E plan \in Plans : Checkout(s, plan)
    \/ \E plan \in Plans, status \in Statuses : Change(s, State(plan, status))
    \/ End(s)

-----------------------------------------------------------------------------
(* The webhook: one UPDATE per event                                       *)

\* A purchase takes the end of the trial away; an update leaves it as it was.
Columns(e) == Grant(e.state.plan, e.state.status, Cap[e.state.plan], e.sub,
                    IF e.type = "checkout" THEN None ELSE grant.until)

\* Mutant: the firm is found by the customer, not by the subscription.
UpdatedFirmByCustomer(e) == e.type = "updated" /\ grant.sub # None

UpdatedFirm(e) == e.type = "updated" /\ grant.sub = e.sub

\* An update of a subscription no firm stores is answered with 500; the end of
\* one is acknowledged without effect.
Handled(e) ==
    /\ \/ /\ e.type = "checkout" /\ grant' = Columns(e)
       \/ /\ UpdatedFirm(e) /\ grant' = [Columns(e) EXCEPT !.sub = grant.sub]
       \/ /\ e.type = "deleted"
          /\ grant' = IF grant.sub = e.sub
                      THEN [grant EXCEPT !.status = "canceled", !.sub = None] ELSE grant
    /\ \/ events' = events \ {e}
       \/ events' = events
    /\ UNCHANGED <<provider, stripe, licenceVars, sold, updates>>

-----------------------------------------------------------------------------
(* Licences                                                                *)

Load(type, l, expired) == [type |-> type, licence |-> l, expired |-> expired]
Expired(l) == today >= l.expires
LicenceColumns(l, expired) ==
    Grant(l.plan, IF expired THEN "canceled" ELSE "active", l.cap, None, l.expires)

\* POST: the signature, the dates and the firm named by the file are verified,
\* then one transaction stores the file and writes the columns.
UploadLicence(l) ==
    /\ provider = "licence" /\ MayChange
    /\ \A p \in loads : p.type # "upload"
    /\ l.issued <= today /\ ~Expired(l)
    /\ loads' = loads \cup {Load("upload", l, FALSE)}
    /\ UNCHANGED <<columns, stripe, events, licence, today, sold>>

InstallLicence(p) ==
    /\ p.type = "upload" /\ loads' = loads \ {p}
    /\ licence' = p.licence /\ grant' = LicenceColumns(p.licence, FALSE)
    /\ sold' = sold \cup {p.licence}
    /\ UNCHANGED <<provider, stripe, events, today, updates>>

\* loadFirmLicence(), for a page, a route, the worker's tick or the timer of the
\* portal: it reads the stored file and decides whether it has expired.
ReadLicence ==
    /\ provider = "licence" /\ licence # None
    /\ \A p \in loads : p.type # "check"
    /\ loads' = loads \cup {Load("check", licence, Expired(licence))}
    /\ UNCHANGED <<columns, stripe, events, licence, today, sold, updates>>

\* The UPDATE: whatever the columns hold now is replaced by what was read.
RepairColumns(p) ==
    /\ p.type = "check" /\ loads' = loads \ {p}
    /\ grant' = LicenceColumns(p.licence, p.expired)
    /\ UNCHANGED <<provider, stripe, events, licence, today, sold, updates>>

\* A statement fails; the transaction of an upload is rolled back.
LoadFails(p) ==
    /\ loads' = loads \ {p}
    /\ UNCHANGED <<columns, stripe, events, licence, today, sold, updates>>

NextDay ==
    /\ provider = "licence" /\ today < MaxDay /\ today' = today + 1 /\ MayChange
    /\ UNCHANGED <<columns, stripe, events, licence, loads, sold>>

LicenceStep ==
    \/ \E l \in Licences : UploadLicence(l)
    \/ ReadLicence \/ NextDay
    \/ \E p \in loads : InstallLicence(p) \/ RepairColumns(p) \/ LoadFails(p)

-----------------------------------------------------------------------------
(* What routes ask                                                         *)

\* evaluateEntitlements(): past_due keeps access, a trial ends by its date.
MayUse(status) == status \in {"active", "past_due", "trial"}

\* requireActiveSubscription(): with licences, the check repairs the columns
\* before it answers.
IsActive ==
    \/ provider = "stripe" /\ MayUse(grant.status) /\ UNCHANGED grant
    \/ /\ provider = "licence" /\ licence # None /\ ~Expired(licence)
       /\ grant' = LicenceColumns(licence, FALSE)

SubscriptionNext == StripeStep \/ (\E e \in events : Handled(e)) \/ LicenceStep

-----------------------------------------------------------------------------
(* Properties                                                              *)

SubscriptionTypeOK ==
    /\ provider \in Providers
    /\ grant.tier \in Plans /\ grant.status \in Statuses \cup {"trial"}
    /\ grant.cap \in Nat /\ grant.sub \in Subs \cup {None}
    /\ \A s \in Subs : stripe[s].plan \in Plans
    /\ licence \in Licences \cup {None} /\ today \in Nat

SoldByStripe ==
    /\ grant.cap = Cap[grant.tier]
    /\ IF grant.sub # None
       THEN <<grant.sub, State(grant.tier, grant.status)>> \in sold
       ELSE \/ grant.tier = Trial /\ grant.status = "trial"
            \/ /\ grant.status = "canceled"
               /\ \E s \in Subs : stripe[s].status = "deleted"
                                  /\ \E status \in Statuses : <<s, State(grant.tier, status)>> \in sold

Licensed ==
    \/ licence = None /\ grant = FirstGrant
    \/ \E l \in sold, expired \in BOOLEAN :
          grant = LicenceColumns(l, expired) /\ (expired => Expired(l))

\* What a firm may use was sold to it, as a whole.  By Stripe: plan and status
\* are those one subscription had at one time - the stored one, while there is
\* one - and the client limit is that plan's, whatever events are repeated, late
\* or of an earlier subscription (webhook/route.ts:69-77, 98-109); without a
\* stored subscription the firm is on its trial, or one of its subscriptions
\* ended.  By licence: plan, limit and end are those of one installed licence,
\* and only an expired one closes the account, however its checks and the
\* installation of another interleave (licence.ts:66-73).
GrantWasSold == IF provider = "licence" THEN Licensed ELSE SoldByStripe
=============================================================================
