------------------------------ MODULE OidcLogin ------------------------------
(***************************************************************************)
(* Logging in to the OIDC provider by presenting a credential.  A login is *)
(* an interaction of the oidc-provider library: its page gets an access    *)
(* token whose key, the session, leads back to the login data, both in     *)
(* Redis; the page asks for a presentation request, Verified ID calls back *)
(* and the page posts the request's id to complete the login.  The account *)
(* from which tokens are made is a blob, one for each subject and client,  *)
(* so that logins with the same credential share it.                       *)
(*                                                                         *)
(* Redis and the blob are read and written by single calls: handlers read  *)
(* the login data, do other things and write back the copy they have.  The *)
(* logins of the model are at one client.  A call that its first check     *)
(* refuses changes nothing and is no action.                               *)
(***************************************************************************)
EXTENDS Naturals

CONSTANTS
  Workers,        \* handler executions that can be in flight together
  Logins,         \* uids of interactions
  Tokens,         \* access tokens of pages (bounds the page loads)
  Requests,       \* ids of presentation requests (bounds how many are made)
  MaxDeliveries,  \* times the "verified" callback of a request is delivered
  Credentials,    \* that are presented, each a subject at the client
  EntraCredentials, \* those of the identity of the Entra user of a second factor
  EntraSub,       \* that user's subject, in the tokens of Entra
  Scenarios,      \* which logins there are, and which events meet them
  None

\* "plain"; "matched" and "unmatched": a second factor for Entra (EAM), whose user
\* the instance knows, or not; "absent": there is no such login.
AllKinds == {"plain", "matched", "unmatched", "absent"}

\* What can disturb a login, apart from other logins and reloaded pages.
AllEvents == {"fail", "again", "abort", "expire", "logout"}

\* The ids under which accounts are stored.
Accounts == Credentials \cup {EntraSub}

ASSUME LoginConstants ==
  /\ Scenarios \subseteq [kind: [Logins -> AllKinds], calls: SUBSET AllEvents]
  /\ MaxDeliveries \in Nat \ {0}
  /\ EntraCredentials \subseteq Credentials /\ EntraSub \notin Credentials
  /\ None \notin Logins \cup Tokens \cup Requests \cup Accounts
                 \cup (Requests \X (1..MaxDeliveries))

VARIABLES
  kind, calls,    \* of each login, and the events there are: a member of Scenarios
  modern,         \* the instance setting useModernOidcUi
  interaction,    \* of the library: "none", "open" or "done"
  data,           \* loginInteractionCache
  session,        \* sessionInteractionCache: the login of a token's key
  page,           \* the login whose page a token was acquired for
  request,        \* each presentation request, its token, the integration it was made for
                  \* and the credential presented
  presentations,  \* committed rows of the presentation table
  presented,      \* presentationCache: presentation of each request
  result,         \* the library's result of each login
  account,        \* the presentation each account blob is made from
  told,           \* the presentation the tokens of each login tell of
  busy            \* what each worker does, and what it has read

store == <<data, session>>
oidc  == <<interaction, result, account, told>>
world == <<kind, calls, modern, page, request>>
tables == <<presentations, presented>>
vars  == <<store, oidc, world, tables, busy>>

\* The nth delivery of a request's callback makes this presentation.
Presentations == Requests \X (1..MaxDeliveries)

\* integrations.entraEam of login data: absent, with the id of an identity or without.
Integrations == {"none", "matched", "unmatched"}

NoData == [state |-> "none", session |-> None, request |-> None, presentation |-> None,
           eam |-> "none"]
PreStart(e) == [NoData EXCEPT !.state = "pre-start", !.eam = e]

\* LoginInteractionDataPostStart, or what there is before the start.
LoginData ==
  [state: {"started", "in-progress", "complete"}, session: Tokens,
   request: Requests \cup {None}, presentation: Presentations \cup {None},
   eam: Integrations]
    \cup {NoData} \cup {PreStart(e) : e \in Integrations}

NoResult == [outcome |-> "none", presentation |-> None, account |-> None]
Denied == [NoResult EXCEPT !.outcome = "denied"]
LoggedIn(p, a) == [outcome |-> "login", presentation |-> p, account |-> a]

Idle == [op |-> "idle", login |-> None, token |-> None, request |-> None, copy |-> NoData,
         inserted |-> None]

At(w, step) == busy[w].op = step
Goto(w, step) == busy' = [busy EXCEPT ![w].op = step]
Finish(w) == busy' = [busy EXCEPT ![w] = Idle]

setLoginInteractionData(i, d) == data' = [data EXCEPT ![i] = d] /\ UNCHANGED session

-----------------------------------------------------------------------------
(* The authorization request: the library makes the interaction, then the
   hooks put what the request says of the login where its page will look. *)

Authorize(i) ==
  /\ interaction[i] = "none" /\ kind[i] # "absent"
  /\ interaction' = [interaction EXCEPT ![i] = "open"]
  /\ \E d \in IF kind[i] = "plain"
               THEN {NoData, PreStart("none")}     \* without or with a claims parameter
               ELSE {PreStart(kind[i])} :
       setLoginInteractionData(i, d)
  /\ UNCHANGED <<result, account, told, world, tables, busy>>

-----------------------------------------------------------------------------
(* GET interaction/:uid *)

\* The legacy page is for a login that has not started.
PageAllowed(d) == modern \/ d.state \in {"none", "pre-start"}

PageRead(w) ==
  /\ busy[w] = Idle
  /\ \E i \in Logins, t \in Tokens :
       /\ interaction[i] = "open" /\ PageAllowed(data[i])
       /\ page[t] = None
       /\ page' = [page EXCEPT ![t] = i]
       /\ busy' = [busy EXCEPT ![w] = [Idle EXCEPT !.op = "page", !.login = i, !.token = t,
                                                   !.copy = data[i]]]
  /\ UNCHANGED <<store, oidc, kind, calls, modern, request, tables>>

\* extractRequestedCredentials throws for a second factor without an identity, so that
\* no login that has started is one.
CredentialsExtracted(d) == d.eam # "unmatched"

PageSession(w) ==
  /\ At(w, "page")
  /\ session' = [session EXCEPT ![busy[w].token] = busy[w].login]
  /\ IF CredentialsExtracted(busy[w].copy) THEN Goto(w, "pageSet") ELSE Finish(w)
  /\ UNCHANGED <<data, oidc, world, tables>>

\* Variant: the key of the session is not kept with the data.
StartedUnlinked(d, t) == [d EXCEPT !.state = "started"]

Started(d, t) == [d EXCEPT !.state = "started", !.session = t]

PageSet(w) ==
  /\ At(w, "pageSet")
  /\ setLoginInteractionData(busy[w].login, Started(busy[w].copy, busy[w].token))
  /\ Finish(w)
  /\ UNCHANGED <<oidc, world, tables>>

-----------------------------------------------------------------------------
(* CreatePresentationRequestForAuthn, called by the page with its token. *)

MayRequest(d) == d.state = "started"

AuthnRead(w) ==
  /\ busy[w] = Idle
  /\ \E t \in Tokens :
       /\ session[t] # None
       /\ MayRequest(data[session[t]])
       /\ busy' = [busy EXCEPT ![w] = [Idle EXCEPT !.op = "authn", !.login = session[t],
                                                   !.token = t, !.copy = data[session[t]]]]
  /\ UNCHANGED <<store, oidc, world, tables>>

\* For a second factor the request carries a constraint on the identity.
AuthnCall(w) ==
  /\ At(w, "authn")
  /\ \E r \in Requests :
       /\ request[r].state = "none"
       /\ request' = [request EXCEPT ![r].state = "open", ![r].token = busy[w].token,
                                     ![r].eam = busy[w].copy.eam]
       /\ busy' = [busy EXCEPT ![w].op = "authnSet", ![w].request = r]
  /\ UNCHANGED <<store, oidc, kind, calls, modern, page, tables>>

AuthnSet(w) ==
  /\ At(w, "authnSet")
  /\ setLoginInteractionData(busy[w].login,
       [busy[w].copy EXCEPT !.state = "in-progress", !.request = busy[w].request])
  /\ Finish(w)
  /\ UNCHANGED <<oidc, world, tables>>

-----------------------------------------------------------------------------
(* The wallet, and the callback that it has presented. *)

\* Verified ID is not relied upon for the constraint: completeLogin checks again.
WalletPresents(r) ==
  /\ request[r].state = "open"
  /\ \E c \in Credentials :
       request' = [request EXCEPT ![r].state = "presented", ![r].by = c]
  /\ UNCHANGED <<store, oidc, kind, calls, modern, page, tables, busy>>

validateLoginSessionForPresentation(d, r) == d.state = "in-progress" /\ d.request = r

VerifiedRead(w) ==
  /\ busy[w] = Idle
  /\ \E r \in Requests :
       /\ request[r].state = "presented" /\ request[r].deliveries < MaxDeliveries
       /\ request[r].deliveries > 0 => "again" \in calls
       /\ LET i == session[request[r].token] IN
            /\ i # None
            /\ validateLoginSessionForPresentation(data[i], r)
            /\ busy' = [busy EXCEPT ![w] =
                 [Idle EXCEPT !.op = "verified", !.login = i, !.request = r, !.copy = data[i],
                              !.inserted = <<r, request[r].deliveries + 1>>]]
       /\ request' = [request EXCEPT ![r].deliveries = @ + 1]
  /\ UNCHANGED <<store, oidc, kind, calls, modern, page, tables>>

\* Inside the transaction, as is the next step.
VerifiedCache(w) ==
  /\ At(w, "verified")
  /\ presented' = [presented EXCEPT ![busy[w].request] = busy[w].inserted]
  /\ Goto(w, "verifiedSet")
  /\ UNCHANGED <<presentations, store, oidc, world>>

VerifiedSet(w) ==
  /\ At(w, "verifiedSet")
  /\ setLoginInteractionData(busy[w].login,
       [busy[w].copy EXCEPT !.state = "complete", !.presentation = busy[w].inserted])
  /\ Goto(w, "verifiedCommit")
  /\ UNCHANGED <<oidc, world, tables>>

VerifiedCommit(w) ==
  /\ At(w, "verifiedCommit")
  /\ presentations' = presentations \cup {busy[w].inserted}
  /\ Finish(w)
  /\ UNCHANGED <<presented, store, oidc, world>>

\* An error, or the end of the instance, rolls back the row and nothing else.
Fail(w) ==
  /\ busy[w] # Idle /\ "fail" \in calls
  /\ Finish(w)
  /\ UNCHANGED <<store, oidc, world, tables>>

-----------------------------------------------------------------------------
(* POST interaction/:uid/login: the page has heard of the presentation. *)

\* Variant: the id of the request is not compared.
LoginAnyRequest(i, r) == data[i].state = "complete"

LoginAllowed(i, r) == data[i].state = "complete" /\ data[i].request = r

LoginRead(w) ==
  /\ busy[w] = Idle
  /\ \E i \in Logins, r \in Requests :
       /\ interaction[i] = "open" /\ LoginAllowed(i, r)
       /\ busy' = [busy EXCEPT ![w] = [Idle EXCEPT !.op = "login", !.login = i, !.request = r,
                                                   !.copy = data[i]]]
  /\ UNCHANGED <<store, oidc, world, tables>>

LoginDelete(w) ==
  /\ At(w, "login")
  /\ data' = [data EXCEPT ![busy[w].login] = NoData]
  /\ session' = [t \in Tokens |-> IF t = busy[w].copy.session THEN None ELSE session[t]]
  /\ Goto(w, "loginFind")
  /\ UNCHANGED <<oidc, world, tables>>

\* Variant: a presentation that is not found is not an error.
FoundAnyway(p) == TRUE

\* findOneOrFail
Found(p) == p \in presentations

\* getEamAccountId, or else getSubjectIdentifier
accountId(d, p) == IF d.eam # "none" THEN EntraSub ELSE request[p[1]].by

\* Variant: the credential's identity is not compared.
AnyIdentity(d, c) == TRUE

\* getEamAccountId throws unless the credential is of the identity in the login data.
IdentityCompared(d, c) == d.eam # "none" => d.eam = "matched" /\ c \in EntraCredentials

LoginUpload(w) ==
  /\ At(w, "loginFind")
  /\ Found(busy[w].copy.presentation)
  /\ presented[busy[w].request] # None
  /\ IdentityCompared(busy[w].copy, request[busy[w].request].by)
  /\ account' = [account EXCEPT ![accountId(busy[w].copy, presented[busy[w].request])] =
                                 presented[busy[w].request]]
  /\ busy' = [busy EXCEPT ![w].op = "loginFinish",
                          ![w].copy.presentation = presented[busy[w].request]]
  /\ UNCHANGED <<interaction, result, told, store, world, tables>>

LoginFinish(w) ==
  /\ At(w, "loginFinish")
  /\ interaction[busy[w].login] = "open"
  /\ result' = [result EXCEPT ![busy[w].login] =
                   LoggedIn(busy[w].copy.presentation,
                            accountId(busy[w].copy, busy[w].copy.presentation))]
  /\ Finish(w)
  /\ UNCHANGED <<interaction, account, told, store, world, tables>>

Abort(i) ==
  /\ interaction[i] = "open" /\ result[i] = NoResult /\ "abort" \in calls
  /\ result' = [result EXCEPT ![i] = Denied]
  /\ UNCHANGED <<interaction, account, told, store, world, tables, busy>>

-----------------------------------------------------------------------------
(* The library goes on with the result; findAccount reads the account when the
   tokens are made.  Without one they have the subject only. *)

Resume(i) ==
  /\ interaction[i] = "open" /\ result[i] # NoResult
  /\ interaction' = [interaction EXCEPT ![i] = "done"]
  /\ UNCHANGED <<result, account, told, store, world, tables, busy>>

MakeTokens(i) ==
  /\ interaction[i] = "done" /\ result[i].outcome = "login" /\ told[i] = None
  /\ told' = [told EXCEPT ![i] = account[result[i].account]]
  /\ UNCHANGED <<interaction, result, account, store, world, tables, busy>>

\* deleteAccountOnLogout
Logout(i) ==
  /\ told[i] # None /\ "logout" \in calls
  /\ account' = [account EXCEPT ![result[i].account] = None]
  /\ UNCHANGED <<interaction, result, told, store, world, tables, busy>>

\* At the end of its time, or evicted before.
EntryExpires ==
  /\ "expire" \in calls
  /\ \/ \E i \in Logins : data[i] # NoData /\ setLoginInteractionData(i, NoData)
     \/ \E t \in Tokens : session[t] # None
                          /\ session' = [session EXCEPT ![t] = None] /\ UNCHANGED data
  /\ UNCHANGED <<oidc, world, tables, busy>>

-----------------------------------------------------------------------------
Init ==
  /\ \E s \in Scenarios : kind = s.kind /\ calls = s.calls
  /\ modern \in BOOLEAN
  /\ interaction = [i \in Logins |-> "none"]
  /\ data = [i \in Logins |-> NoData]
  /\ session = [t \in Tokens |-> None]
  /\ page = [t \in Tokens |-> None]
  /\ request = [r \in Requests |-> [state |-> "none", token |-> None, eam |-> "none",
                                by |-> None, deliveries |-> 0]]
  /\ presentations = {}
  /\ presented = [r \in Requests |-> None]
  /\ result = [i \in Logins |-> NoResult]
  /\ account = [a \in Accounts |-> None]
  /\ told = [i \in Logins |-> None]
  /\ busy = [w \in Workers |-> Idle]

Step(w) ==
  \/ PageRead(w) \/ PageSession(w) \/ PageSet(w)
  \/ AuthnRead(w) \/ AuthnCall(w) \/ AuthnSet(w)
  \/ VerifiedRead(w) \/ VerifiedCache(w) \/ VerifiedSet(w) \/ VerifiedCommit(w)
  \/ LoginRead(w) \/ LoginDelete(w) \/ LoginUpload(w) \/ LoginFinish(w)
  \/ Fail(w)

Next ==
  \/ \E w \in Workers : Step(w)
  \/ \E r \in Requests : WalletPresents(r)
  \/ \E i \in Logins : Authorize(i) \/ Abort(i) \/ Resume(i) \/ MakeTokens(i) \/ Logout(i)
  \/ EntryExpires

Spec == Init /\ [][Next]_vars

-----------------------------------------------------------------------------
(* Properties. *)

Steps ==
  {"idle", "page", "pageSet", "authn", "authnSet", "verified", "verifiedSet",
   "verifiedCommit", "login", "loginFind", "loginFinish"}

\* The types of the variables.
TypeOK ==
  /\ kind \in [Logins -> AllKinds] /\ calls \subseteq AllEvents /\ modern \in BOOLEAN
  /\ interaction \in [Logins -> {"none", "open", "done"}]
  /\ data \in [Logins -> LoginData]
  /\ session \in [Tokens -> Logins \cup {None}]
  /\ page \in [Tokens -> Logins \cup {None}]
  /\ request \in [Requests -> [state: {"none", "open", "presented"},
                               token: Tokens \cup {None}, eam: Integrations,
                               by: Credentials \cup {None}, deliveries: 0..MaxDeliveries]]
  /\ presentations \subseteq Presentations
  /\ presented \in [Requests -> Presentations \cup {None}]
  /\ result \in [Logins -> [outcome: {"none", "denied", "login"},
                            presentation: Presentations \cup {None},
                            account: Accounts \cup {None}]]
  /\ account \in [Accounts -> Presentations \cup {None}]
  /\ told \in [Logins -> Presentations \cup {None}]
  /\ busy \in [Workers -> [op: Steps, login: Logins \cup {None}, token: Tokens \cup {None},
                           request: Requests \cup {None}, copy: LoginData,
                           inserted: Presentations \cup {None}]]

\* The login in whose page the request of presentation p was made.
LoginOf(p) == page[request[p[1]].token]

\* A login succeeds only on a presentation whose request was made in a page of its own,
\* whatever pages were reloaded, requests repeated, callbacks rolled back and data lost.
LoginOnOwnPresentation ==
  \A i \in Logins : result[i].outcome = "login" =>
    LoginOf(result[i].presentation) = i

\* A login succeeds only on a presentation that is recorded, unless the callback of
\* its request has come again: the event is cached, and the login data written, before
\* the transaction commits, so that a repeated callback can leave an id that is not.
LoginOnRecorded ==
  \A i \in Logins : result[i].outcome = "login" =>
    LET p == result[i].presentation
    IN request[p[1]].deliveries = 1 => p \in presentations

\* A login ends as that of the Entra user exactly when its credential was asked for
\* with the constraint on that user's identity, and only if the instance knew it:
\* though the integration is kept in the login data, which is deleted, expires and is
\* started afresh, while copies of it are written back.
LoginAsRequested ==
  \A i \in Logins : result[i].outcome = "login" =>
    LET e == request[result[i].presentation[1]].eam
    IN /\ result[i].account = EntraSub <=> e # "none"
       /\ e # "none" => e = "matched" /\ kind[i] = "matched"

\* The tokens of the Entra user tell of a credential of that user's identity, presented
\* in a page of a second factor, though logins that share the account overwrite and
\* delete it and wallets may present any credential.
TokensOfEntraUser ==
  \A i \in Logins : told[i] # None /\ result[i].account = EntraSub =>
    /\ request[told[i][1]].by \in EntraCredentials
    /\ request[told[i][1]].eam = "matched" /\ kind[LoginOf(told[i])] = "matched"

\* "Each credential presentation creates a distinct, ephemeral session": the
\* tokens of a login tell of the presentation it was completed with.
TokensOfOwnPresentation ==
  \A i \in Logins : told[i] # None => told[i] = result[i].presentation

\* "Fail the login if the identity ID is not set": once its page was opened, an
\* unmatched second factor is denied.
UnmatchedIsDenied ==
  \A i \in Logins :
    kind[i] = "unmatched" /\ (\E t \in Tokens : session[t] = i)
      => result[i].outcome = "denied"
=============================================================================
