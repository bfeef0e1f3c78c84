------------------------------ MODULE KsefAccess ------------------------------
(***************************************************************************)
(* How the portal reaches KSeF, and the Ministry's gateway, for a firm:    *)
(* the credentials of its clients (api/settings/ksef, credential-crypto),  *)
(* the script that seals old ones (scripts/migrate-ksef-credentials.mjs),  *)
(* the cached certificates, the login and the end of the session           *)
(* (lib/ksef-client.ts) in the four callers that log in, with the sidecar, *)
(* which keeps no state.  Subscription says what the firm may do;          *)
(* JpkSubmission is sending a JPK file.  What an invoice goes through is   *)
(* module IssuedInvoices, and what a query returns InvoiceRetrieval.       *)
(***************************************************************************)
EXTENDS Subscription, JpkSubmission

CONSTANTS Clients, Tokens, Bundle,    \* a PKCS#12 file with its password
          MaxAge,                     \* how long a certificate is kept: an hour
          MaxClock, MaxFiles, MaxLogins, Limit

ASSUME AccessAssumption == MaxAge \in Nat \ {0} /\ Bundle \notin Tokens

VARIABLES credentials,    \* clients.auth_method and ksef_token_encrypted
          saved,          \* history: what was saved for each client, in order
          script,         \* the rows the script has read and locked
          replaced,       \* of each usage, when KSeF replaced its certificates
          cache,          \* certCache of the process
          logins,         \* the requests that log in, of one process
          sessions,       \* KSeF's authentication sessions
          clock,
          asked           \* bound: requests made, and certificates replaced
accessVars == <<credentials, saved, script, replaced, cache, logins, sessions, clock, asked>>
vars == <<accessVars, subscriptionVars, submissionVars>>
others == <<subscriptionVars, submissionVars>>
butGrant == <<provider, stripe, events, licenceVars, sold, updates>>

Usages == {"KsefTokenEncryption", "SymmetricKeyEncryption"}
Callers == {"send", "sync", "upo", "test"}
Secret(method, value) == [method |-> method, value |-> value]

\* form: legacy is plain or base64, as the format named to the script says;
\* decryptSecret() tells them apart.  Sealed is bound to its client.
Row(secret, form) == [secret |-> secret, form |-> form]
NoRow == Row(Secret("token", None), "none")
Legacy(secret) == Row(secret, "legacy")
Sealed(secret) == Row(secret, "sealed")

Init ==
    /\ SubscriptionInit /\ SubmissionInit
    /\ credentials \in [Clients -> {NoRow} \cup {Legacy(Secret("token", t)) : t \in Tokens}]
    /\ saved = [c \in Clients |-> IF credentials[c] = NoRow THEN <<>> ELSE <<credentials[c].secret>>]
    /\ script = <<>>
    /\ replaced = [u \in Usages |-> <<>>] /\ cache = [u \in Usages |-> None]
    /\ logins = <<>> /\ sessions = <<>> /\ clock = 0 /\ asked = 0

Ask == asked + updates < Limit /\ asked' = asked + 1

-----------------------------------------------------------------------------
(* Credentials                                                             *)

\* One UPDATE, which waits for a row that the script has locked.
Save(c, secret) ==
    /\ IsActive /\ Ask
    /\ \A i \in DOMAIN script : c \notin script[i].locked
    /\ credentials' = [credentials EXCEPT ![c] = Sealed(secret)]
    /\ saved' = [saved EXCEPT ![c] = Append(@, secret)]
    /\ UNCHANGED <<script, replaced, cache, logins, sessions, clock, butGrant, submissionVars>>

SaveToken(c, token) == Save(c, Secret("token", token))
SaveCertificate(c) == Save(c, Secret("certificate", Bundle))

\* Mutant: a SELECT without FOR UPDATE.
LockedByNobody(rows) == {}

LockedRows(rows) == DOMAIN rows

ScriptReads ==
    LET legacy == {c \in Clients : credentials[c].form = "legacy"}
        rows   == [c \in legacy |-> credentials[c].secret.value]
    IN /\ script = <<>> /\ Ask
       /\ script' = <<[rows |-> rows, locked |-> LockedRows(rows)]>>
       /\ UNCHANGED <<credentials, saved, replaced, cache, logins, sessions, clock, others>>

\* It writes the column of the credential only, then commits.
ScriptCommits ==
    /\ script # <<>>
    /\ credentials' = [c \in Clients |->
          IF c \in DOMAIN script[1].rows
          THEN Sealed(Secret(credentials[c].secret.method, script[1].rows[c]))
          ELSE credentials[c]]
    /\ script' = <<>>
    /\ UNCHANGED <<saved, replaced, cache, logins, sessions, clock, asked, others>>

ScriptRollsBack ==
    /\ script # <<>> /\ script' = <<>>
    /\ UNCHANGED <<credentials, saved, replaced, cache, logins, sessions, clock, asked, others>>

-----------------------------------------------------------------------------
(* Certificates                                                            *)

Certificate(usage, version) == [usage |-> usage, version |-> version]
Current(usage) == Certificate(usage, Len(replaced[usage]) + 1)

\* KSeF replaces a certificate.
Rotate(usage) ==
    /\ Ask
    /\ replaced' = [replaced EXCEPT ![usage] = Append(@, clock)]
    /\ UNCHANGED <<credentials, saved, script, cache, logins, sessions, clock, others>>

Tick ==
    /\ clock < MaxClock /\ clock' = clock + 1
    /\ UNCHANGED <<credentials, saved, script, replaced, cache, logins, sessions, asked, others>>

Is(l, step) == logins[l].step = step
Becomes(l, changed) == logins' = [logins EXCEPT ![l] = changed]
\* Nothing of a request is left when it is answered.
Done == [kind |-> None, client |-> None, secret |-> None, step |-> "done", usage |-> None,
         asked |-> 0, cert |-> None, session |-> 0]
To(l, step) == IF step = "done" THEN Done ELSE [logins[l] EXCEPT !.step = step]
\* What was encrypted has been sent: neither it nor the certificate is used again.
After(l, step) == [To(l, step) EXCEPT !.secret = None, !.cert = None, !.asked = 0]

Session(l) == logins[l].session
InPortal == UNCHANGED <<credentials, saved, script, replaced, clock, asked, others>>

\* The first certificate encrypts the token, the second the key of the invoices.
AfterCertificate(l) == IF logins[l].usage = "KsefTokenEncryption" THEN "authenticate" ELSE "open"
With(l, cert) == [To(l, AfterCertificate(l)) EXCEPT !.cert = cert]

IsFresh(usage) == cache[usage] # None /\ clock - cache[usage].ts < MaxAge

UseCached(l) ==
    LET usage == logins[l].usage IN
    /\ Is(l, "certificate") /\ IsFresh(usage)
    /\ Becomes(l, [With(l, cache[usage].cert) EXCEPT !.asked = clock])
    /\ UNCHANGED <<cache, sessions>> /\ InPortal

Fetch(l) ==
    /\ Is(l, "certificate") /\ ~IsFresh(logins[l].usage)
    /\ Becomes(l, [To(l, "fetching") EXCEPT !.asked = clock])
    /\ UNCHANGED <<cache, sessions>> /\ InPortal

\* KSeF answers with its certificates of now.
CertificateIsSent(l) ==
    /\ Is(l, "fetching")
    /\ Becomes(l, [To(l, "fetched") EXCEPT !.cert = Current(logins[l].usage)])
    /\ UNCHANGED <<cache, sessions>> /\ InPortal

\* Mutant: its age counts from when it is stored.
KeptFromNow(l) == [cert |-> logins[l].cert, ts |-> clock]

Kept(l) == [cert |-> logins[l].cert, ts |-> logins[l].asked]

KeepCertificate(l) ==
    /\ Is(l, "fetched")
    /\ cache' = [cache EXCEPT ![logins[l].usage] = Kept(l)]
    /\ Becomes(l, With(l, logins[l].cert))
    /\ UNCHANGED sessions /\ InPortal

\* Mutant: a session whose invoice key fails is left.
FailsWithoutEnd(l) == "done"

\* Where a failing call leads: once logged in, to the end of the session.
FailsTo(l) == IF logins[l].usage = "KsefTokenEncryption" THEN "done" ELSE "terminate"

CertificateFails(l) ==
    /\ logins[l].step \in {"certificate", "fetching"}
    /\ Becomes(l, To(l, FailsTo(l)))
    /\ UNCHANGED <<cache, sessions>> /\ InPortal

-----------------------------------------------------------------------------
(* Logging in and out                                                      *)

\* Fetching a UPO and the diagnostic ask for no subscription, and an invoice
\* issued offline may be sent without one.
Allowed(caller) == caller = "sync" => MayUse(grant.status)

\* The diagnostic queries and ends its session as the retrieval does.
Kind(caller) == IF caller = "test" THEN "sync" ELSE caller

\* The caller reads the row; a certificate is never sent as a token.
LogIn(caller, c) ==
    /\ Allowed(caller) /\ Ask /\ Len(logins) < MaxLogins
    /\ credentials[c].form # "none" /\ credentials[c].secret.method = "token"
    /\ logins' = Append(logins,
          [kind |-> Kind(caller), client |-> c, secret |-> credentials[c].secret.value, step |-> "certificate",
           usage |-> "KsefTokenEncryption", asked |-> clock, cert |-> None, session |-> 0])
    /\ UNCHANGED <<credentials, saved, script, replaced, cache, sessions, clock, others>>

Becoming(s, changed) == sessions' = [sessions EXCEPT ![s] = changed]

\* The sidecar encrypts for the certificate it is given: the token with the time
\* of KSeF's challenge, or a new AES key for the invoices of a session.
Encrypted(content, cert) == [content |-> content, under |-> cert]
EncryptForSession(token, cert) == Encrypted(token, cert)
GenerateSessionKey(session, cert) == Encrypted(session, cert)

\* KSeF holds a private key for each use.
ReadableBy(message, usage) == message.under.usage = usage

\* KSeF opens a session to check the token.  The answer may be lost.
Authenticate(l) ==
    LET message == EncryptForSession(logins[l].secret, logins[l].cert) IN
    /\ Is(l, "authenticate") /\ ReadableBy(message, "KsefTokenEncryption")
    /\ sessions' = Append(sessions, [client |-> logins[l].client, secret |-> message.content, kind |-> logins[l].kind,
                                     state |-> "checking", online |-> "none", lost |-> FALSE])
    /\ \/ Becomes(l, [After(l, "poll") EXCEPT !.session = Len(sessions) + 1])
       \/ Becomes(l, To(l, "done"))
    /\ UNCHANGED cache /\ InPortal

AuthenticateFails(l) ==
    /\ Is(l, "authenticate") /\ Becomes(l, To(l, "done"))
    /\ UNCHANGED <<cache, sessions>> /\ InPortal

\* KSeF decides.
KsefDecides(s) ==
    /\ sessions[s].state = "checking"
    /\ \E state \in {"authenticated", "refused"} : Becoming(s, [sessions[s] EXCEPT !.state = state])
    /\ UNCHANGED <<cache, logins>> /\ InPortal

\* Ten polls; without a final answer the login gives up.
PollLogin(l) ==
    /\ Is(l, "poll")
    /\ Becomes(l, To(l, IF sessions[Session(l)].state = "authenticated" THEN "redeem" ELSE "done"))
    /\ UNCHANGED <<cache, sessions>> /\ InPortal

\* The access token is given once.
Redeem(l) ==
    LET s == Session(l) IN
    /\ Is(l, "redeem")
    /\ \/ /\ Becoming(s, [sessions[s] EXCEPT !.state = "open"])
          /\ Becomes(l, IF logins[l].kind = "send"
                        THEN [To(l, "certificate") EXCEPT !.usage = "SymmetricKeyEncryption"]
                        ELSE To(l, "work"))
       \/ /\ Becoming(s, [sessions[s] EXCEPT !.state = "open", !.lost = TRUE])
          /\ Becomes(l, To(l, "done"))
    /\ UNCHANGED cache /\ InPortal

\* The queries of the retrieval or of the diagnostic, whatever comes of them.
Query(l) ==
    /\ Is(l, "work") /\ logins[l].kind = "sync"
    /\ Becomes(l, To(l, "terminate"))
    /\ UNCHANGED <<cache, sessions>> /\ InPortal

\* One download, after which the request is answered.
DownloadUpo(l) ==
    /\ Is(l, "work") /\ logins[l].kind = "upo"
    /\ Becomes(l, Done)
    /\ UNCHANGED <<cache, sessions>> /\ InPortal

\* The sidecar makes a key for the invoices and KSeF opens an online session.
OpenOnlineSession(l) ==
    LET s == Session(l) IN
    /\ Is(l, "open")
    /\ \/ /\ ReadableBy(GenerateSessionKey(s, logins[l].cert), "SymmetricKeyEncryption")
          /\ Becoming(s, [sessions[s] EXCEPT !.online = "open"]) /\ Becomes(l, After(l, "close"))
       \/ /\ sessions' \in {sessions, [sessions EXCEPT ![s].online = "open", ![s].lost = TRUE]}
          /\ Becomes(l, After(l, FailsTo(l)))
    /\ UNCHANGED cache /\ InPortal

\* Storing a verdict of KSeF on an invoice fails: nothing catches it.
VerdictIsNotStored(l) ==
    /\ Is(l, "close")
    /\ Becoming(Session(l), [sessions[Session(l)] EXCEPT !.lost = TRUE])
    /\ Becomes(l, Done)
    /\ UNCHANGED cache /\ InPortal

\* Closed, after the invoices, whether or not any could be sent.
CloseOnlineSession(l) ==
    LET s == Session(l) IN
    /\ Is(l, "close")
    /\ \/ Becoming(s, [sessions[s] EXCEPT !.online = "closed"])
       \/ Becoming(s, [sessions[s] EXCEPT !.lost = TRUE])
    /\ Becomes(l, To(l, "terminate"))
    /\ UNCHANGED cache /\ InPortal

\* A failure is not reported.
TerminateSession(l) ==
    LET s == Session(l) IN
    /\ Is(l, "terminate")
    /\ \/ Becoming(s, [sessions[s] EXCEPT !.state = "ended"])
       \/ Becoming(s, [sessions[s] EXCEPT !.lost = TRUE])
    /\ Becomes(l, To(l, "done"))
    /\ UNCHANGED cache /\ InPortal

Active(s) == \E l \in DOMAIN logins : Session(l) = s /\ ~Is(l, "done")

\* The process ends, with its cache and its requests.
Restart ==
    /\ \E l \in DOMAIN logins : ~Is(l, "done")
    /\ logins' = [l \in DOMAIN logins |-> Done]
    /\ sessions' = [s \in DOMAIN sessions |-> [sessions[s] EXCEPT !.lost = @ \/ Active(s)]]
    /\ cache' = [u \in Usages |-> None]
    /\ InPortal

LoginStep(l) ==
    \/ UseCached(l) \/ Fetch(l) \/ CertificateIsSent(l) \/ KeepCertificate(l) \/ CertificateFails(l)
    \/ Authenticate(l) \/ AuthenticateFails(l) \/ PollLogin(l) \/ Redeem(l) \/ Query(l) \/ DownloadUpo(l)
    \/ OpenOnlineSession(l) \/ VerdictIsNotStored(l)
    \/ CloseOnlineSession(l) \/ TerminateSession(l)

-----------------------------------------------------------------------------
(* The firm's subscription, and its JPK files                              *)

BillingStep ==
    /\ SubscriptionNext /\ asked + updates' <= Limit
    /\ UNCHANGED <<accessVars, submissionVars>>

\* A file is generated anew: module VatReturns.
Prepare ==
    /\ Ask
    /\ \E file \in 1..MaxFiles : preparation' = <<file>> /\ preparation' # preparation
    /\ UNCHANGED <<credentials, saved, script, replaced, cache, logins, sessions, clock,
                   submissions, gateway, subscriptionVars>>

SubmitFile ==
    /\ IsActive /\ Ask /\ Submit
    /\ UNCHANGED <<credentials, saved, script, replaced, cache, logins, sessions, clock, butGrant>>

GatewayStep == SubmissionStep /\ UNCHANGED <<accessVars, subscriptionVars>>

Next ==
    \/ \E c \in Clients : (\E token \in Tokens : SaveToken(c, token)) \/ SaveCertificate(c)
    \/ ScriptReads \/ ScriptCommits \/ ScriptRollsBack
    \/ \E usage \in Usages : Rotate(usage)
    \/ \E caller \in Callers, c \in Clients : LogIn(caller, c)
    \/ \E l \in DOMAIN logins : LoginStep(l)
    \/ \E s \in DOMAIN sessions : KsefDecides(s)
    \/ Tick \/ Restart \/ BillingStep \/ Prepare \/ SubmitFile \/ GatewayStep

Spec == Init /\ [][Next]_vars

-----------------------------------------------------------------------------
(* Properties                                                              *)

\* The credential of a client is the one last saved for it, whatever the script
\* does meanwhile (migrate-ksef-credentials.mjs:29, settings/ksef/route.ts:118);
\* and every login presents, for the client it names, what was saved for that
\* client as a token, never a certificate bundle (ksef/send/route.ts:184).
LastSavedIsStored ==
    /\ \A c \in Clients :
          IF saved[c] = <<>> THEN credentials[c] = NoRow
          ELSE credentials[c].secret = saved[c][Len(saved[c])]
    /\ \A s \in DOMAIN sessions :
          \E i \in DOMAIN saved[sessions[s].client] :
              saved[sessions[s].client][i] = Secret("token", sessions[s].secret)

\* What is encrypted for KSeF is so under a certificate of the use it is for,
\* which KSeF had not replaced an hour before it was asked for, however slow an
\* answer was that another request kept (ksef-client.ts:45-50, 55-70).
KeysFitTheirUse ==
    \A l \in DOMAIN logins : logins[l].step \in {"authenticate", "open"} =>
        LET cert == logins[l].cert IN
        /\ cert.usage = logins[l].usage
        /\ cert.version \in DOMAIN replaced[cert.usage] =>
              replaced[cert.usage][cert.version] > logins[l].asked - MaxAge

\* No access to a client's KSeF account outlives the request it was opened for,
\* nor the online session of its invoices, on any way out of it, unless the
\* process died, KSeF's answer was lost or its verdict could not be stored.  A
\* request for a UPO is known to leave its session (ksef/send/route.ts:219,
\* 269-270; upo/route.ts:52).
SessionsAreEnded ==
    \A s \in DOMAIN sessions :
        "open" \in {sessions[s].state, sessions[s].online} =>
            Active(s) \/ sessions[s].lost \/ sessions[s].kind = "upo"
=============================================================================
