--------------------------- MODULE OidcLogin_proofs ---------------------------
(***************************************************************************)
(* Proofs about OidcLogin, for any number of logins, pages, requests and   *)
(* handlers: its types, that a login succeeds on a presentation of its own *)
(* which is recorded unless the callback came again, that it ends as it    *)
(* was asked for, and what the tokens of an Entra user tell of.  Handlers  *)
(* write back what they have read long before, so the argument is about    *)
(* their copies: what a copy refers to belongs to the login whose page it  *)
(* came from, and was asked for as the copy says, and that never changes.  *)
(***************************************************************************)
EXTENDS OidcLogin, TLAPS

\* Request r was made, in the page of login i.
OfLogin(r, i) ==
  /\ r \in Requests /\ request[r].state # "none"
  /\ i \in Logins /\ request[r].token \in Tokens /\ page[request[r].token] = i

\* Request r was made in the page of login i, and its credential is presented.
PresentedTo(r, i) == OfLogin(r, i) /\ request[r].state = "presented"

\* Presentation p was made by a callback of request r.
Of(p, r) == p \in Presentations /\ p[1] = r /\ p[2] <= request[r].deliveries

\* Presentation p was asked for as that of the Entra user, and is.
OfEntraUser(p) ==
  /\ p \in Presentations /\ request[p[1]].by \in EntraCredentials
  /\ request[p[1]].eam = "matched"
  /\ \E i \in Logins : PresentedTo(p[1], i) /\ kind[i] = "matched"

\* Login data d can be that of login i: the integration is that of the login, if it
\* still is there; the request is of the login and was made for the integration; and
\* when the login is complete, its presentation is one of its request.
Fits(d, i) ==
  /\ d.eam \in {"none", kind[i]}
  /\ d.request # None => OfLogin(d.request, i) /\ request[d.request].eam = d.eam
  /\ d.state = "complete" => PresentedTo(d.request, i) /\ Of(d.presentation, d.request)

\* Who made a request, and who answered it, is known.
RequestMade ==
  \A r \in Requests :
    /\ request[r].state # "none" => request[r].token \in Tokens
    /\ request[r].state = "presented" => request[r].by \in Credentials

\* A key leads to the login whose page has the token.
SessionOfPage == \A t \in Tokens : session[t] # None => page[t] = session[t]

DataOfLogin == \A i \in Logins : Fits(data[i], i)

PageSteps == {"page", "pageSet", "authn", "authnSet"}
CallbackSteps == {"verified", "verifiedSet", "verifiedCommit"}
LoginSteps == {"login", "loginFind", "loginFinish"}

\* What a handler has read, or made, belongs to the login it works for.
Handling(w) ==
  LET b == busy[w]
  IN /\ b.op # "idle" => b.login \in Logins /\ Fits(b.copy, b.login)
     /\ b.op \in PageSteps => b.token \in Tokens /\ page[b.token] = b.login
     /\ b.op \in {"authn", "authnSet"} => b.copy.state = "started"
     /\ b.op = "authnSet" => OfLogin(b.request, b.login) /\ request[b.request].eam = b.copy.eam
     /\ b.op \in CallbackSteps \cup LoginSteps =>
          PresentedTo(b.request, b.login) /\ b.copy.request = b.request
     /\ b.op \in CallbackSteps => b.copy.state = "in-progress" /\ Of(b.inserted, b.request)
     /\ b.op \in LoginSteps => b.copy.state = "complete"
     /\ b.op = "loginFinish" =>
          /\ \E p \in presentations : p[1] = b.request
          /\ b.copy.eam # "none" =>
               b.copy.eam = "matched" /\ request[b.request].by \in EntraCredentials

HandlersOfLogin == \A w \in Workers : Handling(w)

\* The rows, the cache and the account blobs hold presentations that were made.
PresentationsMade == \A p \in presentations : Of(p, p[1])

PresentedOfRequest ==
  \A r \in Requests : presented[r] # None => Of(presented[r], r) /\ request[r].state = "presented"

AccountOfSubject ==
  /\ \A a \in Accounts : account[a] # None => account[a] \in Presentations
  /\ account[EntraSub] # None => OfEntraUser(account[EntraSub])

\* Of the result of one login.
ResultHolds(i) ==
  result[i].outcome = "login" =>
    LET p == result[i].presentation
    IN /\ PresentedTo(p[1], i) /\ Of(p, p[1])
       /\ \E q \in presentations : q[1] = p[1]
       /\ result[i].account \in Accounts
       /\ result[i].account = EntraSub <=> request[p[1]].eam # "none"
       /\ request[p[1]].eam # "none" => OfEntraUser(p) /\ kind[i] = "matched"

ResultOfLogin == \A i \in Logins : ResultHolds(i)

\* Of what the tokens of one login tell.
ToldHolds(i) ==
  told[i] # None =>
    /\ interaction[i] = "done" /\ result[i].outcome = "login"
    /\ result[i].account = EntraSub => OfEntraUser(told[i])

ToldOfAccount == \A i \in Logins : ToldHolds(i)

IInv ==
  /\ TypeOK
  /\ RequestMade /\ SessionOfPage /\ DataOfLogin /\ HandlersOfLogin
  /\ PresentationsMade /\ PresentedOfRequest /\ AccountOfSubject
  /\ ResultOfLogin /\ ToldOfAccount

-----------------------------------------------------------------------------
(* Types. *)

LEMMA Blank ==
  /\ NoData \in LoginData /\ \A e \in Integrations : PreStart(e) \in LoginData
  /\ NoData.state = "none" /\ NoData.request = None /\ NoData.eam = "none"
  /\ \A e : /\ PreStart(e).state = "pre-start" /\ PreStart(e).request = None
            /\ PreStart(e).eam = e
  /\ NoResult.outcome = "none" /\ Idle.op = "idle" /\ Idle.copy = NoData
  /\ Denied.outcome = "denied" /\ Denied.presentation = None /\ Denied.account = None
  BY DEF NoData, PreStart, LoginData, NoResult, Denied, Idle

\* Login data that may also be that of a login which has not started.
AnyData ==
  [state: {"none", "pre-start", "started", "in-progress", "complete"},
   session: Tokens \cup {None}, request: Requests \cup {None},
   presentation: Presentations \cup {None}, eam: Integrations]

LEMMA DataShape ==
  /\ \A d \in LoginData :
       /\ d \in AnyData
       /\ d.state \in {"started", "in-progress", "complete"} => d.session \in Tokens
  /\ \A d \in AnyData :
       d.state \in {"started", "in-progress", "complete"} /\ d.session \in Tokens => d \in LoginData
<1>3. NoData \in AnyData /\ \A e \in Integrations : PreStart(e) \in AnyData
  <2>1. NoData \in AnyData
    BY DEF NoData, AnyData, Integrations
  <2>2. ASSUME NEW e \in Integrations PROVE PreStart(e) \in AnyData
    BY <2>1, <2>2 DEF PreStart, AnyData
  <2> QED  BY <2>1, <2>2
<1>4. /\ NoData.state \notin {"started", "in-progress", "complete"}
      /\ \A e : PreStart(e).state \notin {"started", "in-progress", "complete"}
  BY Blank
<1> DEFINE Running == [state: {"started", "in-progress", "complete"}, session: Tokens,
                       request: Requests \cup {None}, presentation: Presentations \cup {None},
                       eam: Integrations]
<1>5. ASSUME NEW d \in LoginData
      PROVE  d \in Running \/ d = NoData \/ \E e \in Integrations : d = PreStart(e)
  BY DEF LoginData
<1>6. \A d \in Running : d \in AnyData /\ d.session \in Tokens
  BY DEF AnyData
<1>7. \A d \in AnyData :
        d.state \in {"started", "in-progress", "complete"} /\ d.session \in Tokens => d \in Running
  BY DEF AnyData
<1>8. \A d \in Running : d \in LoginData
  BY DEF LoginData
<1> HIDE DEF Running
<1> QED  BY <1>3, <1>4, <1>5, <1>6, <1>7, <1>8

LEMMA StartedData ==
  ASSUME NEW d \in LoginData, NEW t \in Tokens
  PROVE  /\ Started(d, t) \in LoginData
         /\ Started(d, t).state = "started" /\ Started(d, t).request = d.request
         /\ Started(d, t).eam = d.eam
<1>1. d \in AnyData
  BY DataShape
<1>2. /\ Started(d, t) \in AnyData /\ Started(d, t).state = "started"
      /\ Started(d, t).session = t /\ Started(d, t).request = d.request
      /\ Started(d, t).eam = d.eam
  BY <1>1 DEF Started, AnyData
<1> QED  BY <1>2, DataShape

\* Login data that was started, with any of its other fields replaced.
Requested(d, r) == [d EXCEPT !.state = "in-progress", !.request = r]
Completed(d, p) == [d EXCEPT !.state = "complete", !.presentation = p]
Uploaded(d, p) == [d EXCEPT !.presentation = p]

LEMMA DataRequested ==
  ASSUME NEW d \in LoginData, d.state \in {"started", "in-progress", "complete"},
         NEW r \in Requests \cup {None}
  PROVE  LET n == Requested(d, r)
         IN n \in LoginData /\ n.state = "in-progress" /\ n.request = r /\ n.eam = d.eam
<1>1. d \in AnyData /\ d.session \in Tokens
  BY DataShape
<1>2. LET n == Requested(d, r)
      IN /\ n \in AnyData /\ n.session = d.session
         /\ n.state = "in-progress" /\ n.request = r /\ n.eam = d.eam
  BY <1>1 DEF AnyData, Requested
<1> QED  BY <1>1, <1>2, DataShape

LEMMA DataPresented ==
  ASSUME NEW d \in LoginData, d.state \in {"started", "in-progress", "complete"},
         NEW p \in Presentations \cup {None}
  PROVE  /\ LET n == Completed(d, p)
            IN /\ n \in LoginData /\ n.state = "complete" /\ n.request = d.request
               /\ n.presentation = p /\ n.eam = d.eam
         /\ LET n == Uploaded(d, p)
            IN /\ n \in LoginData /\ n.state = d.state /\ n.request = d.request
               /\ n.presentation = p /\ n.eam = d.eam
<1>1. d \in AnyData /\ d.session \in Tokens
  BY DataShape
<1>2. LET n == Completed(d, p)
      IN /\ n \in AnyData /\ n.session = d.session /\ n.state = "complete"
         /\ n.request = d.request /\ n.presentation = p /\ n.eam = d.eam
  BY <1>1 DEF AnyData, Completed
<1>3. LET n == Uploaded(d, p)
      IN /\ n \in AnyData /\ n.session = d.session /\ n.state = d.state
         /\ n.request = d.request /\ n.presentation = p /\ n.eam = d.eam
  BY <1>1 DEF AnyData, Uploaded
<1> QED  BY <1>1, <1>2, <1>3, DataShape

LEMMA InitTypes == Init => TypeOK
<1> SUFFICES ASSUME Init PROVE TypeOK
  OBVIOUS
<1> USE LoginConstants DEF Init
<1>1. kind \in [Logins -> AllKinds] /\ calls \subseteq AllEvents /\ modern \in BOOLEAN
  OBVIOUS
<1>2. /\ interaction \in [Logins -> {"none", "open", "done"}]
      /\ data \in [Logins -> LoginData]
      /\ session \in [Tokens -> Logins \cup {None}]
      /\ page \in [Tokens -> Logins \cup {None}]
  BY Blank
<1>3. request \in [Requests -> [state: {"none", "open", "presented"},
                               token: Tokens \cup {None}, eam: Integrations,
                               by: Credentials \cup {None}, deliveries: 0..MaxDeliveries]]
  BY DEF Integrations
<1>4. /\ presentations \subseteq Presentations
      /\ presented \in [Requests -> Presentations \cup {None}]
      /\ account \in [Accounts -> Presentations \cup {None}]
      /\ told \in [Logins -> Presentations \cup {None}]
  OBVIOUS
<1>5. result \in [Logins -> [outcome: {"none", "denied", "login"},
                            presentation: Presentations \cup {None},
                            account: Accounts \cup {None}]]
  BY DEF NoResult
<1>6. busy \in [Workers -> [op: Steps, login: Logins \cup {None}, token: Tokens \cup {None},
                           request: Requests \cup {None}, copy: LoginData,
                           inserted: Presentations \cup {None}]]
  BY Blank DEF Idle, Steps
<1> QED  BY <1>1, <1>2, <1>3, <1>4, <1>5, <1>6, Zenon DEF TypeOK

Request == [state: {"none", "open", "presented"}, token: Tokens \cup {None},
            eam: Integrations, by: Credentials \cup {None}, deliveries: 0..MaxDeliveries]

Result == [outcome: {"none", "denied", "login"}, presentation: Presentations \cup {None},
           account: Accounts \cup {None}]

Busy == [op: Steps, login: Logins \cup {None}, token: Tokens \cup {None},
         request: Requests \cup {None}, copy: LoginData, inserted: Presentations \cup {None}]

\* A request is made, or answered.
LEMMA RequestOpened ==
  ASSUME NEW q \in Request, NEW t \in Tokens \cup {None}, NEW e \in Integrations
  PROVE  LET n == [q EXCEPT !.state = "open", !.token = t, !.eam = e]
         IN /\ n \in Request /\ n.state = "open" /\ n.token = t /\ n.eam = e
            /\ n.by = q.by /\ n.deliveries = q.deliveries
  BY DEF Request

LEMMA RequestAnswered ==
  ASSUME NEW q \in Request, NEW c \in Credentials
  PROVE  LET n == [q EXCEPT !.state = "presented", !.by = c]
         IN /\ n \in Request /\ n.state = "presented" /\ n.by = c
            /\ n.token = q.token /\ n.eam = q.eam /\ n.deliveries = q.deliveries
  BY DEF Request

\* A handler's own record keeps its type.
LEMMA BusyType ==
  ASSUME NEW b \in Busy, NEW s \in Steps
  PROVE  /\ Idle \in Busy
         /\ [b EXCEPT !.op = s] \in Busy
         /\ \A p : [b.copy EXCEPT !.presentation = p] \in LoginData =>
              [b EXCEPT !.op = s, !.copy.presentation = p] \in Busy
<1>1. Idle \in Busy /\ [b EXCEPT !.op = s] \in Busy
  BY Blank DEF Busy, Idle, Steps
<1>2. \A p : [b.copy EXCEPT !.presentation = p] \in LoginData =>
              [b EXCEPT !.op = s, !.copy.presentation = p] \in Busy
  BY DEF Busy
<1> QED  BY <1>1, <1>2

\* The records with which the handlers start.
OnPage(s, i, t, d) == [Idle EXCEPT !.op = s, !.login = i, !.token = t, !.copy = d]
OnLogin(s, i, r, d) == [Idle EXCEPT !.op = s, !.login = i, !.request = r, !.copy = d]
OnCallback(s, i, r, d, p) ==
  [Idle EXCEPT !.op = s, !.login = i, !.request = r, !.copy = d, !.inserted = p]

LEMMA HandlerPage ==
  ASSUME NEW s \in Steps, NEW i \in Logins, NEW t \in Tokens, NEW d \in LoginData
  PROVE  LET b == OnPage(s, i, t, d)
         IN b \in Busy /\ b.op = s /\ b.login = i /\ b.token = t /\ b.copy = d
<1>1. Idle \in Busy
  BY Blank DEF Busy, Idle, Steps
<1> QED  BY <1>1 DEF Busy, OnPage

LEMMA HandlerLogin ==
  ASSUME NEW s \in Steps, NEW i \in Logins, NEW r \in Requests, NEW d \in LoginData
  PROVE  LET b == OnLogin(s, i, r, d)
         IN b \in Busy /\ b.op = s /\ b.login = i /\ b.request = r /\ b.copy = d
<1>1. Idle \in Busy
  BY Blank DEF Busy, Idle, Steps
<1> QED  BY <1>1 DEF Busy, OnLogin

LEMMA HandlerCallback ==
  ASSUME NEW s \in Steps, NEW i \in Logins, NEW r \in Requests, NEW d \in LoginData,
         NEW p \in Presentations
  PROVE  LET b == OnCallback(s, i, r, d, p)
         IN /\ b \in Busy /\ b.op = s /\ b.login = i /\ b.request = r /\ b.copy = d
            /\ b.inserted = p
<1>1. Idle \in Busy
  BY Blank DEF Busy, Idle, Steps
<1> QED  BY <1>1 DEF Busy, OnCallback

LEMMA TypeStep == IInv /\ [Next]_vars => TypeOK'
<1> SUFFICES ASSUME IInv, [Next]_vars PROVE TypeOK'
  OBVIOUS
<1> USE LoginConstants DEF TypeOK
<1> USE DEF store, oidc, world, tables, setLoginInteractionData
<1>0. TypeOK  BY DEF IInv
<1>00. request \in [Requests -> Request] /\ result \in [Logins -> Result]
  BY <1>0 DEF Request, Result
<1>1. ASSUME NEW w \in Workers, Step(w) PROVE TypeOK'
  <2>0. busy \in [Workers -> Busy] /\ Handling(w) /\ busy[w] \in Busy
    BY <1>0 DEF Busy, IInv, HandlersOfLogin
  <2>00. /\ busy[w].copy \in LoginData /\ busy[w].login \in Logins \cup {None}
         /\ busy[w].token \in Tokens \cup {None} /\ busy[w].request \in Requests \cup {None}
    BY <2>0 DEF Busy
  <2>1. CASE PageRead(w)
    <3>1. PICK i \in Logins, t \in Tokens :
            /\ page' = [page EXCEPT ![t] = i]
            /\ busy' = [busy EXCEPT ![w] = [Idle EXCEPT !.op = "page", !.login = i, !.token = t,
                                                        !.copy = data[i]]]
      BY <2>1 DEF PageRead
    <3>2. OnPage("page", i, t, data[i]) \in Busy
      <4>1. "page" \in Steps /\ data[i] \in LoginData
        BY <1>0 DEF Steps
      <4> QED  BY <4>1, HandlerPage
    <3>3. busy' \in [Workers -> Busy] /\ page' \in [Tokens -> Logins \cup {None}]
      BY <1>0, <2>0, <3>1, <3>2 DEF OnPage
    <3> QED  BY <1>0, <2>1, <3>3 DEF PageRead, Busy
  <2>2. CASE PageSession(w)
    <3>1. busy' \in [Workers -> Busy]
      <4>1. "pageSet" \in Steps  BY DEF Steps
      <4>2. CASE Goto(w, "pageSet")  BY <2>0, <4>1, <4>2, BusyType DEF Goto
      <4>3. CASE Finish(w)  BY <2>0, <4>1, <4>3, BusyType DEF Finish
      <4> QED  BY <2>2, <4>2, <4>3 DEF PageSession
    <3>2. session' \in [Tokens -> Logins \cup {None}]
      BY <1>0, <2>0, <2>00, <2>2 DEF PageSession
    <3> QED  BY <1>0, <2>2, <3>1, <3>2 DEF PageSession, Busy
  <2>3. CASE PageSet(w)
    <3>1. busy' \in [Workers -> Busy]
      BY <1>0, <2>0, <2>3, BusyType DEF PageSet, Finish, Steps
    <3>2. Started(busy[w].copy, busy[w].token) \in LoginData
      BY <2>0, <2>00, <2>3, StartedData DEF PageSet, At, Handling, PageSteps
    <3>3. data' \in [Logins -> LoginData]
      BY <1>0, <2>3, <3>2 DEF PageSet
    <3> QED  BY <1>0, <2>3, <3>1, <3>3 DEF PageSet, Busy
  <2>4. CASE AuthnRead(w)
    <3>1. PICK t \in Tokens :
            /\ session[t] # None
            /\ busy' = [busy EXCEPT ![w] = [Idle EXCEPT !.op = "authn", !.login = session[t],
                                                !.token = t, !.copy = data[session[t]]]]
      BY <2>4 DEF AuthnRead
    <3>2. OnPage("authn", session[t], t, data[session[t]]) \in Busy
      <4>1. "authn" \in Steps /\ session[t] \in Logins /\ data[session[t]] \in LoginData
        BY <1>0, <3>1 DEF Steps
      <4> QED  BY <4>1, HandlerPage
    <3>3. busy' \in [Workers -> Busy]
      BY <2>0, <3>1, <3>2 DEF OnPage
    <3> QED  BY <1>0, <2>4, <3>3 DEF AuthnRead, Busy
  <2>5. CASE AuthnCall(w)
    <3>0. PICK r \in Requests :
            /\ request' = [request EXCEPT ![r].state = "open", ![r].token = busy[w].token,
                                          ![r].eam = busy[w].copy.eam]
            /\ busy' = [busy EXCEPT ![w].op = "authnSet", ![w].request = r]
      BY <2>5 DEF AuthnCall
    <3>1. busy' \in [Workers -> Busy]
      <4>1. [busy[w] EXCEPT !.op = "authnSet", !.request = r] \in Busy
        BY <2>0 DEF Busy, Steps
      <4> QED  BY <2>0, <3>0, <4>1
    <3>2. request' \in [Requests -> Request]
      <4>0. busy[w].copy.eam \in Integrations
        BY <2>00, DataShape DEF AnyData
      <4>1. [request[r] EXCEPT !.state = "open", !.token = busy[w].token,
                               !.eam = busy[w].copy.eam] \in Request
        BY <1>00, <2>00, <4>0, RequestOpened
      <4> QED  BY <1>00, <3>0, <4>1
    <3> QED  BY <1>0, <2>5, <3>1, <3>2 DEF AuthnCall, Busy, Request
  <2>6. CASE AuthnSet(w)
    <3>1. busy' \in [Workers -> Busy]
      BY <1>0, <2>0, <2>6, BusyType DEF AuthnSet, Finish, Steps
    <3>2. Requested(busy[w].copy, busy[w].request) \in LoginData
      <4>1. busy[w].copy.state = "started"
        BY <2>0, <2>6 DEF AuthnSet, At, Handling
      <4> QED  BY <2>00, <4>1, DataRequested
    <3>3. data' \in [Logins -> LoginData]
      BY <1>0, <2>6, <3>2 DEF AuthnSet, Requested
    <3> QED  BY <1>0, <2>6, <3>1, <3>3 DEF AuthnSet, Busy
  <2>7. CASE VerifiedRead(w)
    <3>1. PICK r \in Requests :
            /\ request[r].deliveries < MaxDeliveries
            /\ session[request[r].token] # None /\ request[r].state = "presented"
            /\ busy' = [busy EXCEPT ![w] =
                 [Idle EXCEPT !.op = "verified", !.login = session[request[r].token],
                              !.request = r, !.copy = data[session[request[r].token]],
                              !.inserted = <<r, request[r].deliveries + 1>>]]
            /\ request' = [request EXCEPT ![r].deliveries = @ + 1]
      BY <2>7 DEF VerifiedRead
    <3>2. request[r].token \in Tokens
      BY <3>1 DEF IInv, RequestMade
    <3>0. request[r].deliveries + 1 \in 1..MaxDeliveries
      BY <1>00, <3>1 DEF Request
    <3>3. busy' \in [Workers -> Busy]
      <4>1. /\ "verified" \in Steps /\ session[request[r].token] \in Logins
            /\ data[session[request[r].token]] \in LoginData
            /\ <<r, request[r].deliveries + 1>> \in Presentations
        BY <1>0, <3>0, <3>1, <3>2 DEF Steps, Presentations
      <4>2. OnCallback("verified", session[request[r].token], r, data[session[request[r].token]],
                       <<r, request[r].deliveries + 1>>) \in Busy
        BY <4>1, HandlerCallback
      <4> QED  BY <2>0, <3>1, <4>2 DEF OnCallback
    <3>4. request' \in [Requests -> Request]
      <4>2. [request[r] EXCEPT !.deliveries = @ + 1] \in Request
        BY <1>00, <3>0 DEF Request
      <4> QED  BY <1>00, <3>1, <4>2
    <3> QED  BY <1>0, <2>7, <3>3, <3>4 DEF VerifiedRead, Busy, Request
  <2>8. CASE VerifiedCache(w)
    <3>1. busy' \in [Workers -> Busy]
      BY <2>0, <2>8, BusyType DEF VerifiedCache, Goto, Steps
    <3>2. presented' \in [Requests -> Presentations \cup {None}]
      <4>1. busy[w].inserted \in Presentations
        BY <2>0, <2>8 DEF VerifiedCache, At, Handling, CallbackSteps, Of
      <4> QED  BY <1>0, <2>8, <4>1 DEF VerifiedCache
    <3> QED  BY <1>0, <2>8, <3>1, <3>2 DEF VerifiedCache, Busy
  <2>9. CASE VerifiedSet(w)
    <3>1. busy' \in [Workers -> Busy]
      BY <2>0, <2>9, BusyType DEF VerifiedSet, Goto, Steps
    <3>2. Completed(busy[w].copy, busy[w].inserted) \in LoginData
      <4>1. busy[w].copy.state = "in-progress" /\ busy[w].inserted \in Presentations
        BY <2>0, <2>9 DEF VerifiedSet, At, Handling, CallbackSteps, Of
      <4> QED  BY <2>00, <4>1, DataPresented
    <3> QED  BY <1>0, <2>9, <3>1, <3>2 DEF VerifiedSet, Busy, Completed
  <2>10. CASE VerifiedCommit(w)
    <3>1. busy' \in [Workers -> Busy]
      BY <2>0, <2>10, BusyType DEF VerifiedCommit, Finish, Steps
    <3>2. busy[w].inserted \in Presentations
      BY <2>0, <2>10 DEF VerifiedCommit, At, Handling, CallbackSteps, Of
    <3> QED  BY <1>0, <2>10, <3>1, <3>2 DEF VerifiedCommit, Busy
  <2>11. CASE LoginRead(w)
    <3>0. PICK i \in Logins, r \in Requests :
            busy' = [busy EXCEPT ![w] = [Idle EXCEPT !.op = "login", !.login = i, !.request = r,
                                                     !.copy = data[i]]]
      BY <2>11 DEF LoginRead
    <3>1. busy' \in [Workers -> Busy]
      <4>0. "login" \in Steps /\ data[i] \in LoginData
        BY <1>0 DEF Steps
      <4>1. OnLogin("login", i, r, data[i]) \in Busy
        BY <4>0, HandlerLogin
      <4> QED  BY <2>0, <3>0, <4>1 DEF OnLogin
    <3> QED  BY <1>0, <2>11, <3>1 DEF LoginRead, Busy
  <2>12. CASE LoginDelete(w)
    <3>1. busy' \in [Workers -> Busy]
      BY <2>0, <2>12, BusyType DEF LoginDelete, Goto, Steps
    <3> QED  BY <1>0, <2>12, <3>1, Blank DEF LoginDelete, Busy
  <2>13. CASE LoginUpload(w)
    <3>1. presented[busy[w].request] \in Presentations /\ busy[w].copy.state = "complete"
      BY <1>0, <2>0, <2>13 DEF LoginUpload, At, Handling, LoginSteps, PresentedTo, OfLogin
    <3>2. Uploaded(busy[w].copy, presented[busy[w].request]) \in LoginData
      BY <2>00, <3>1, DataPresented
    <3>3. busy' \in [Workers -> Busy]
      BY <2>0, <2>13, <3>2, BusyType DEF LoginUpload, Steps, Uploaded
    <3> QED  BY <1>0, <2>13, <3>1, <3>3 DEF LoginUpload, Busy
  <2>14. CASE LoginFinish(w)
    <3>1. busy' \in [Workers -> Busy]
      BY <2>0, <2>14, BusyType DEF LoginFinish, Finish, Steps
    <3>2. /\ busy[w].copy.presentation \in Presentations
          /\ accountId(busy[w].copy, busy[w].copy.presentation) \in Accounts
      <4>1. /\ Fits(busy[w].copy, busy[w].login) /\ busy[w].copy.state = "complete"
        BY <2>0, <2>14 DEF LoginFinish, At, Handling, LoginSteps
      <4>2. /\ PresentedTo(busy[w].copy.request, busy[w].login)
            /\ Of(busy[w].copy.presentation, busy[w].copy.request)
        BY <4>1 DEF Fits
      <4>3. request[busy[w].copy.request].by \in Credentials
        BY <4>2 DEF PresentedTo, OfLogin, IInv, RequestMade
      <4> QED  BY <4>2, <4>3 DEF Of, accountId, Accounts
    <3>3. result' \in [Logins -> Result]
      BY <1>00, <2>14, <3>2 DEF LoginFinish, LoggedIn, Result
    <3> QED  BY <1>0, <2>14, <3>1, <3>3 DEF LoginFinish, Busy, Result
  <2>15. CASE Fail(w)
    <3>1. busy' \in [Workers -> Busy]
      BY <2>0, <2>15, BusyType DEF Fail, Finish, Steps
    <3> QED  BY <1>0, <2>15, <3>1 DEF Fail, Busy
  <2> QED  BY <1>1, <2>1, <2>2, <2>3, <2>4, <2>5, <2>6, <2>7, <2>8, <2>9, <2>10, <2>11,
            <2>12, <2>13, <2>14, <2>15 DEF Step
<1>2. ASSUME NEW r \in Requests, WalletPresents(r) PROVE TypeOK'
  <2>1. PICK c \in Credentials :
          request' = [request EXCEPT ![r].state = "presented", ![r].by = c]
    BY <1>2 DEF WalletPresents
  <2>2. [request[r] EXCEPT !.state = "presented", !.by = c] \in Request
    BY <1>00, RequestAnswered
  <2>3. request' \in [Requests -> Request]
    BY <1>00, <2>1, <2>2
  <2> QED  BY <1>0, <1>2, <2>3 DEF WalletPresents, Request
<1>3. ASSUME NEW i \in Logins, Authorize(i) \/ Resume(i) PROVE TypeOK'
  <2>1. CASE Authorize(i)
    <3>1. PICK d : d \in LoginData /\ data' = [data EXCEPT ![i] = d]
      <4>1. kind[i] = "plain" \/ kind[i] \in Integrations
        BY <1>0, <2>1 DEF Authorize, AllKinds, Integrations
      <4>2. CASE kind[i] = "plain"
        <5>1. "none" \in Integrations  BY DEF Integrations
        <5> QED  BY <2>1, <4>2, <5>1, Blank DEF Authorize
      <4>3. CASE kind[i] # "plain"
        BY <2>1, <4>1, <4>3, Blank DEF Authorize
      <4> QED  BY <4>2, <4>3
    <3>2. data' \in [Logins -> LoginData]
      BY <1>0, <3>1
    <3> QED  BY <1>0, <2>1, <3>2 DEF Authorize
  <2>2. CASE Resume(i)  BY <1>0, <2>2 DEF Resume
  <2> QED  BY <1>3, <2>1, <2>2
<1>4. ASSUME NEW i \in Logins, Abort(i) PROVE TypeOK'
  <2>1. Denied \in Result
    BY DEF Denied, NoResult, Result
  <2>2. result' \in [Logins -> Result]
    BY <1>00, <1>4, <2>1 DEF Abort
  <2> QED  BY <1>0, <1>4, <2>2 DEF Abort, Result
<1>5. ASSUME NEW i \in Logins, MakeTokens(i) \/ Logout(i) PROVE TypeOK'
  <2>1. CASE MakeTokens(i)
    <3>1. result[i].account \in Accounts
      BY <2>1 DEF MakeTokens, IInv, ResultOfLogin, ResultHolds
    <3> QED  BY <1>0, <2>1, <3>1 DEF MakeTokens
  <2>2. CASE Logout(i)  BY <1>0, <2>2 DEF Logout
  <2> QED  BY <1>5, <2>1, <2>2
<1>6. CASE EntryExpires  BY <1>0, <1>6, Blank DEF EntryExpires
<1>7. CASE UNCHANGED vars  BY <1>0, <1>7 DEF vars
<1> QED  BY <1>1, <1>2, <1>3, <1>4, <1>5, <1>6, <1>7 DEF Next

-----------------------------------------------------------------------------
(* What never changes. *)

\* A request keeps its page and integration and, once presented, its credential.
LEMMA Lasting ==
  ASSUME IInv, [Next]_vars
  PROVE  /\ kind' = kind
         /\ \A t \in Tokens : page[t] # None => page'[t] = page[t]
         /\ \A r \in Requests :
              /\ request[r].state # "none" => request'[r].token = request[r].token
                                              /\ request'[r].eam = request[r].eam
                                              /\ request'[r].state # "none"
              /\ request[r].state = "presented" => request'[r].by = request[r].by
                                              /\ request'[r].state = "presented"
              /\ request[r].deliveries <= request'[r].deliveries
         /\ presentations \subseteq presentations'
<1> USE LoginConstants DEF store, oidc, world, tables, setLoginInteractionData
<1>0. /\ request \in [Requests -> Request] /\ page \in [Tokens -> Logins \cup {None}]
  BY DEF IInv, TypeOK, Request
<1>1. ASSUME NEW w \in Workers, PageRead(w)
      PROVE  UNCHANGED <<kind, request, presentations>>
             /\ \A t \in Tokens : page[t] # None => page'[t] = page[t]
  BY <1>0, <1>1 DEF PageRead
<1>2. ASSUME NEW w \in Workers, AuthnCall(w)
      PROVE  UNCHANGED <<kind, page, presentations>>
             /\ \A r \in Requests :
                  /\ request[r].state # "none" => request'[r] = request[r]
                  /\ request'[r].deliveries = request[r].deliveries
  BY <1>0, <1>2 DEF AuthnCall, Request
<1>3. ASSUME NEW w \in Workers, VerifiedRead(w)
      PROVE  UNCHANGED <<kind, page, presentations>>
             /\ \A r \in Requests :
                  /\ request'[r].state = request[r].state /\ request'[r].token = request[r].token
                  /\ request'[r].by = request[r].by /\ request'[r].eam = request[r].eam
                  /\ request[r].deliveries <= request'[r].deliveries
  <2>1. PICK r \in Requests : /\ request[r].deliveries < MaxDeliveries
                              /\ request' = [request EXCEPT ![r].deliveries = @ + 1]
    BY <1>3 DEF VerifiedRead
  <2>2. request[r].deliveries \in Nat
    BY <1>0 DEF Request
  <2> QED  BY <1>0, <1>3, <2>1, <2>2 DEF VerifiedRead, Request
<1>4. ASSUME NEW r \in Requests, WalletPresents(r)
      PROVE  UNCHANGED <<kind, page, presentations>>
             /\ \A q \in Requests :
                  /\ request[q].state \in {"none", "presented"} => request'[q] = request[q]
                  /\ request[q].state # "none" => request'[q].state # "none"
                  /\ request'[q].token = request[q].token /\ request'[q].eam = request[q].eam
                  /\ request'[q].deliveries = request[q].deliveries
  <2>1. PICK c \in Credentials : request' = [request EXCEPT ![r].state = "presented", ![r].by = c]
    BY <1>4 DEF WalletPresents
  <2>2. request[r].state = "open" /\ request[r] \in Request
    BY <1>0, <1>4 DEF WalletPresents
  <2>3. request'[r] = [request[r] EXCEPT !.state = "presented", !.by = c]
    BY <1>0, <2>1
  <2>4. \A q \in Requests : q # r => request'[q] = request[q]
    BY <1>0, <2>1
  <2>5. /\ request'[r].state = "presented" /\ request'[r].token = request[r].token
        /\ request'[r].eam = request[r].eam /\ request'[r].deliveries = request[r].deliveries
    BY <2>2, <2>3 DEF Request
  <2> QED  BY <1>4, <2>2, <2>4, <2>5 DEF WalletPresents
<1>5. ASSUME NEW w \in Workers,
             \/ PageSession(w) \/ PageSet(w) \/ AuthnRead(w) \/ AuthnSet(w)
             \/ VerifiedCache(w) \/ VerifiedSet(w) \/ VerifiedCommit(w)
             \/ LoginRead(w) \/ LoginDelete(w) \/ LoginUpload(w) \/ LoginFinish(w) \/ Fail(w)
      PROVE  UNCHANGED <<kind, page, request>> /\ presentations \subseteq presentations'
  BY <1>5 DEF PageSession, PageSet, AuthnRead, AuthnSet, VerifiedCache, VerifiedSet,
     VerifiedCommit, LoginRead, LoginDelete, LoginUpload, LoginFinish, Fail
<1>6. ASSUME NEW i \in Logins,
             Authorize(i) \/ Abort(i) \/ Resume(i) \/ MakeTokens(i) \/ Logout(i)
      PROVE  UNCHANGED <<kind, page, request, presentations>>
  BY <1>6 DEF Authorize, Abort, Resume, MakeTokens, Logout
<1>7. ASSUME EntryExpires \/ UNCHANGED vars
      PROVE  UNCHANGED <<kind, page, request, presentations>>
  BY <1>7 DEF EntryExpires, vars
<1> QED
  <2>1. request \in [Requests -> Request]
    BY <1>0
  <2>2. \A r \in Requests : /\ request[r].state \in {"none", "open", "presented"}
                             /\ request[r].deliveries <= request[r].deliveries
    BY <2>1 DEF Request
  <2>3. CASE \E w \in Workers : PageRead(w)  BY <1>1, <2>2, <2>3
  <2>4. CASE \E w \in Workers : AuthnCall(w)  BY <1>2, <2>2, <2>4
  <2>5. CASE \E w \in Workers : VerifiedRead(w)  BY <1>3, <2>2, <2>5
  <2>6. CASE \E r \in Requests : WalletPresents(r)  BY <1>4, <2>2, <2>6
  <2> QED  BY <1>5, <1>6, <1>7, <2>2, <2>3, <2>4, <2>5, <2>6 DEF Next, Step

LEMMA Kept ==
  ASSUME IInv, [Next]_vars
  PROVE  /\ \A r, i : OfLogin(r, i) => OfLogin(r, i)'
         /\ \A r, i : PresentedTo(r, i) => PresentedTo(r, i)'
         /\ \A p, r : r \in Requests /\ Of(p, r) => Of(p, r)'
         /\ \A p : OfEntraUser(p) => OfEntraUser(p)'
         /\ \A d, i : Fits(d, i) => Fits(d, i)'
<1>0. request \in [Requests -> Request] /\ request' \in [Requests -> Request]
  BY TypeStep DEF IInv, TypeOK, Request
<1>1. \A r, i : OfLogin(r, i) => OfLogin(r, i)'
  BY Lasting, LoginConstants DEF OfLogin
<1>2. \A r, i : PresentedTo(r, i) => PresentedTo(r, i)'
  BY <1>1, Lasting DEF PresentedTo, OfLogin
<1>3. ASSUME NEW p, NEW r \in Requests, Of(p, r) PROVE Of(p, r)'
  <2>1. /\ request[r].deliveries \in Nat /\ request'[r].deliveries \in Nat
        /\ request[r].deliveries <= request'[r].deliveries /\ p[2] \in Nat
    BY <1>0, <1>3, Lasting, LoginConstants DEF Request, Of, Presentations
  <2> QED  BY <1>3, <2>1 DEF Of
<1>4. ASSUME NEW p, OfEntraUser(p) PROVE OfEntraUser(p)'
  <2>1. PICK i \in Logins : PresentedTo(p[1], i) /\ kind[i] = "matched"
    BY <1>4 DEF OfEntraUser
  <2>2. /\ request'[p[1]].by = request[p[1]].by /\ request'[p[1]].eam = request[p[1]].eam
        /\ kind' = kind
    BY <2>1, Lasting DEF PresentedTo, OfLogin
  <2>3. PresentedTo(p[1], i)'
    BY <1>2, <2>1
  <2> QED  BY <1>4, <2>1, <2>2, <2>3 DEF OfEntraUser
<1>5. ASSUME NEW d, NEW i, Fits(d, i) PROVE Fits(d, i)'
  <2>1. d.request # None => OfLogin(d.request, i)' /\ request'[d.request].eam = d.eam
    BY <1>1, <1>5, Lasting DEF Fits, OfLogin
  <2>2. d.state = "complete" => PresentedTo(d.request, i)' /\ Of(d.presentation, d.request)'
    BY <1>2, <1>3, <1>5 DEF Fits, PresentedTo, OfLogin
  <2> QED  BY <1>5, <2>1, <2>2, Lasting DEF Fits
<1> QED  BY <1>1, <1>2, <1>3, <1>4, <1>5

\* A handler that does nothing keeps what it has.
LEMMA HandlingKept ==
  ASSUME IInv, [Next]_vars, NEW v \in Workers, busy'[v] = busy[v]
  PROVE  Handling(v)'
<1>1. Handling(v)
  BY DEF IInv, HandlersOfLogin
<1>2. busy[v].op \in PageSteps => page[busy[v].token] # None
  BY <1>1, LoginConstants DEF Handling, PageSteps
<1>3. busy[v].op \in CallbackSteps \cup LoginSteps =>
        busy[v].request \in Requests /\ request[busy[v].request].state = "presented"
  BY <1>1 DEF Handling, PresentedTo, OfLogin
<1>4. busy[v].op = "authnSet" =>
        busy[v].request \in Requests /\ request[busy[v].request].state # "none"
  BY <1>1 DEF Handling, OfLogin
<1>5. Fits(busy[v].copy, busy[v].login) => Fits(busy[v].copy, busy[v].login)'
  BY Kept
<1> QED  BY <1>1, <1>2, <1>3, <1>4, <1>5, Lasting, Kept
          DEF Handling, PageSteps, CallbackSteps, LoginSteps

-----------------------------------------------------------------------------
(* Requests, keys and login data. *)

LEMMA RequestMadeStep == IInv /\ [Next]_vars => RequestMade'
<1> SUFFICES ASSUME IInv, [Next]_vars PROVE RequestMade'
  OBVIOUS
<1>0. /\ request \in [Requests -> Request] /\ RequestMade
  BY DEF IInv, TypeOK, Request
<1>1. ASSUME NEW w \in Workers, AuthnCall(w) PROVE RequestMade'
  <2>1. busy[w].token \in Tokens
    BY <1>1 DEF IInv, HandlersOfLogin, Handling, AuthnCall, At, PageSteps
  <2>2. PICK r \in Requests :
          request' = [request EXCEPT ![r].state = "open", ![r].token = busy[w].token,
                                     ![r].eam = busy[w].copy.eam]
    BY <1>1 DEF AuthnCall
  <2>3. request'[r].token \in Tokens /\ request'[r].state = "open"
    BY <1>0, <2>1, <2>2 DEF Request
  <2> QED  BY <1>0, <2>2, <2>3 DEF RequestMade, Request
<1>2. ASSUME NEW r \in Requests, WalletPresents(r) PROVE RequestMade'
  <2>1. PICK c \in Credentials : request' = [request EXCEPT ![r].state = "presented", ![r].by = c]
    BY <1>2 DEF WalletPresents
  <2>2. request[r].state = "open" /\ request[r] \in Request
    BY <1>0, <1>2 DEF WalletPresents
  <2>3. request'[r].by = c /\ request'[r].token = request[r].token
    BY <1>0, <2>1, <2>2 DEF Request
  <2>4. \A q \in Requests : q # r => request'[q] = request[q]
    BY <1>0, <2>1
  <2> QED  BY <1>0, <2>2, <2>3, <2>4 DEF RequestMade
<1>3. ASSUME NEW w \in Workers, VerifiedRead(w) PROVE RequestMade'
  BY <1>0, <1>3 DEF VerifiedRead, RequestMade, Request
<1>4. CASE UNCHANGED request  BY <1>0, <1>4 DEF RequestMade
<1> QED
  <2> USE DEF store, oidc, world, tables, setLoginInteractionData
  <2>1. ASSUME NEW w \in Workers,
               \/ PageRead(w) \/ PageSession(w) \/ PageSet(w) \/ AuthnRead(w) \/ AuthnSet(w)
               \/ VerifiedCache(w) \/ VerifiedSet(w) \/ VerifiedCommit(w)
               \/ LoginRead(w) \/ LoginDelete(w) \/ LoginUpload(w) \/ LoginFinish(w) \/ Fail(w)
        PROVE  UNCHANGED request
    BY <2>1 DEF PageRead, PageSession, PageSet, AuthnRead, AuthnSet, VerifiedCache, VerifiedSet,
       VerifiedCommit, LoginRead, LoginDelete, LoginUpload, LoginFinish, Fail
  <2>2. ASSUME NEW i \in Logins,
               Authorize(i) \/ Abort(i) \/ Resume(i) \/ MakeTokens(i) \/ Logout(i)
        PROVE  UNCHANGED request
    BY <2>2 DEF Authorize, Abort, Resume, MakeTokens, Logout
  <2>3. CASE EntryExpires \/ UNCHANGED vars
    BY <1>4, <2>3 DEF EntryExpires, vars
  <2> QED  BY <1>1, <1>2, <1>3, <1>4, <2>1, <2>2, <2>3 DEF Next, Step

\* Who writes a key, and who writes login data.
LEMMA Writers ==
  ASSUME IInv, [Next]_vars
  PROVE  /\ \/ \E w \in Workers : PageSession(w)
            \/ \A t \in Tokens : session'[t] \in {session[t], None}
         /\ \/ \E w \in Workers : PageSet(w) \/ AuthnSet(w) \/ VerifiedSet(w)
            \/ \A i \in Logins : data'[i] \in {data[i], NoData, PreStart("none"), PreStart(kind[i])}
<1> USE DEF store, oidc, world, tables, setLoginInteractionData
<1> DEFINE Keys == \A t \in Tokens : session'[t] \in {session[t], None}
           Data == \A i \in Logins : data'[i] \in {data[i], NoData, PreStart("none"), PreStart(kind[i])}
<1>0. session \in [Tokens -> Logins \cup {None}] /\ data \in [Logins -> LoginData]
  BY DEF IInv, TypeOK
<1>1. ASSUME NEW w \in Workers,
             \/ PageRead(w) \/ AuthnRead(w) \/ AuthnCall(w) \/ VerifiedRead(w)
             \/ VerifiedCache(w) \/ VerifiedCommit(w)
             \/ LoginRead(w) \/ LoginUpload(w) \/ LoginFinish(w) \/ Fail(w)
      PROVE  Keys /\ Data
  BY <1>1 DEF PageRead, AuthnRead, AuthnCall, VerifiedRead, VerifiedCache, VerifiedCommit,
     LoginRead, LoginUpload, LoginFinish, Fail
<1>2. ASSUME NEW w \in Workers, PageSession(w) PROVE Data
  BY <1>2 DEF PageSession
<1>3. ASSUME NEW w \in Workers, PageSet(w) \/ AuthnSet(w) \/ VerifiedSet(w) PROVE Keys
  BY <1>3 DEF PageSet, AuthnSet, VerifiedSet
<1>4. ASSUME NEW w \in Workers, LoginDelete(w) PROVE Keys /\ Data
  BY <1>0, <1>4 DEF LoginDelete
<1>5. ASSUME NEW i \in Logins, Authorize(i) PROVE Keys /\ Data
  BY <1>0, <1>5 DEF Authorize
<1>6. ASSUME NEW i \in Logins, Abort(i) \/ Resume(i) \/ MakeTokens(i) \/ Logout(i)
      PROVE  Keys /\ Data
  BY <1>6 DEF Abort, Resume, MakeTokens, Logout
<1>7. ASSUME EntryExpires PROVE Keys /\ Data
  BY <1>0, <1>7 DEF EntryExpires
<1>8. ASSUME NEW r \in Requests, WalletPresents(r) PROVE Keys /\ Data
  BY <1>8 DEF WalletPresents
<1>9. ASSUME UNCHANGED vars PROVE Keys /\ Data
  BY <1>9 DEF vars
<1> HIDE DEF Keys, Data
<1>10. \/ \E w \in Workers : PageSession(w) /\ Data
       \/ \E w \in Workers : (PageSet(w) \/ AuthnSet(w) \/ VerifiedSet(w)) /\ Keys
       \/ Keys /\ Data
  <2> DEFINE Written ==
        \/ \E w \in Workers : PageSession(w) /\ Data
        \/ \E w \in Workers : (PageSet(w) \/ AuthnSet(w) \/ VerifiedSet(w)) /\ Keys
        \/ Keys /\ Data
  <2>1. ASSUME NEW w \in Workers, Step(w) PROVE Written
    <3>1. CASE PageSession(w)  BY <1>2, <3>1
    <3>2. CASE PageSet(w) \/ AuthnSet(w) \/ VerifiedSet(w)  BY <1>3, <3>2
    <3>3. CASE LoginDelete(w)  BY <1>4, <3>3
    <3> QED  BY <1>1, <2>1, <3>1, <3>2, <3>3 DEF Step
  <2>2. ASSUME NEW r \in Requests, WalletPresents(r) PROVE Written
    BY <1>8, <2>2
  <2>3. ASSUME NEW i \in Logins,
               Authorize(i) \/ Abort(i) \/ Resume(i) \/ MakeTokens(i) \/ Logout(i)
        PROVE  Written
    BY <1>5, <1>6, <2>3
  <2>4. ASSUME EntryExpires \/ UNCHANGED vars PROVE Written
    BY <1>7, <1>9, <2>4
  <2> HIDE DEF Written
  <2>5. Written
    <3>1. CASE \E w \in Workers : Step(w)  BY <2>1, <3>1
    <3>2. CASE \E i \in Logins :
                 Authorize(i) \/ Abort(i) \/ Resume(i) \/ MakeTokens(i) \/ Logout(i)
      BY <2>3, <3>2
    <3> QED  BY <2>2, <2>4, <3>1, <3>2 DEF Next
  <2> QED  BY <2>5 DEF Written
<1> QED  BY <1>10 DEF Keys, Data

LEMMA SessionStep == IInv /\ [Next]_vars => SessionOfPage'
<1> SUFFICES ASSUME IInv, [Next]_vars, NEW t \in Tokens, session'[t] # None
             PROVE  page'[t] = session'[t]
  BY DEF SessionOfPage
<1>0. session \in [Tokens -> Logins \cup {None}]
  BY DEF IInv, TypeOK
<1>1. CASE session'[t] = session[t]
  BY <1>1, Lasting DEF IInv, SessionOfPage
<1>2. ASSUME NEW w \in Workers, PageSession(w), session'[t] # session[t]
      PROVE  page'[t] = session'[t]
  <2>1. /\ session' = [session EXCEPT ![busy[w].token] = busy[w].login]
        /\ page[busy[w].token] = busy[w].login /\ busy[w].login \in Logins
    BY <1>2 DEF PageSession, At, IInv, HandlersOfLogin, Handling, PageSteps
  <2>2. t = busy[w].token /\ session'[t] = busy[w].login
    BY <1>0, <1>2, <2>1
  <2> QED  BY <2>1, <2>2, Lasting, LoginConstants
<1> QED  BY <1>1, <1>2, Writers

LEMMA DataStep == IInv /\ [Next]_vars => DataOfLogin'
<1> SUFFICES ASSUME IInv, [Next]_vars, NEW i \in Logins PROVE Fits(data[i], i)'
  BY DEF DataOfLogin
<1> USE DEF setLoginInteractionData
<1>0. /\ data \in [Logins -> LoginData] /\ DataOfLogin /\ kind' = kind
      /\ busy \in [Workers -> Busy] /\ HandlersOfLogin
  BY Lasting DEF IInv, TypeOK, Busy
<1>1. CASE data'[i] = data[i]
  BY <1>0, <1>1, Kept DEF DataOfLogin
<1>2. CASE data'[i] \in {NoData, PreStart("none"), PreStart(kind[i])}
  BY <1>0, <1>2, Blank DEF Fits
<1>3. ASSUME NEW w \in Workers, PageSet(w), data'[i] # data[i] PROVE Fits(data[i], i)'
  <2>1. i = busy[w].login /\ data'[i] = Started(busy[w].copy, busy[w].token)
    BY <1>0, <1>3 DEF PageSet
  <2>2. /\ Fits(busy[w].copy, i) /\ busy[w].copy \in LoginData /\ busy[w].token \in Tokens
    BY <1>0, <1>3, <2>1 DEF HandlersOfLogin, Handling, PageSet, At, Busy, PageSteps
  <2>3. /\ data'[i].request = busy[w].copy.request /\ data'[i].eam = busy[w].copy.eam
        /\ data'[i].state = "started"
    BY <2>1, <2>2, StartedData
  <2>4. \A d : d = busy[w].copy => Fits(d, i)'
    BY <2>2, Kept
  <2> QED  BY <2>3, <2>4 DEF Fits
<1>4. ASSUME NEW w \in Workers, AuthnSet(w), data'[i] # data[i] PROVE Fits(data[i], i)'
  <2>1. i = busy[w].login
        /\ data'[i] = Requested(busy[w].copy, busy[w].request)
    BY <1>0, <1>4 DEF AuthnSet, Requested
  <2>2. /\ Fits(busy[w].copy, i) /\ busy[w].copy \in LoginData /\ busy[w].copy.state = "started"
        /\ OfLogin(busy[w].request, i) /\ request[busy[w].request].eam = busy[w].copy.eam
        /\ busy[w].request \in Requests
    BY <1>0, <1>4, <2>1 DEF HandlersOfLogin, Handling, AuthnSet, At, Busy, OfLogin
  <2>3. /\ data'[i].request = busy[w].request /\ data'[i].state = "in-progress"
        /\ data'[i].eam = busy[w].copy.eam
    BY <2>1, <2>2, DataRequested
  <2>4. \A r : r = busy[w].request => OfLogin(r, i)'
    BY <2>2, Kept
  <2>5. request'[busy[w].request].eam = busy[w].copy.eam
    BY <2>2, Lasting DEF OfLogin
  <2> QED  BY <1>0, <2>2, <2>3, <2>4, <2>5 DEF Fits
<1>5. ASSUME NEW w \in Workers, VerifiedSet(w), data'[i] # data[i] PROVE Fits(data[i], i)'
  <2>1. i = busy[w].login
        /\ data'[i] = Completed(busy[w].copy, busy[w].inserted)
    BY <1>0, <1>5 DEF VerifiedSet, Completed
  <2>2. /\ Fits(busy[w].copy, i) /\ busy[w].copy \in LoginData
        /\ busy[w].copy.state = "in-progress" /\ PresentedTo(busy[w].request, i)
        /\ busy[w].copy.request = busy[w].request /\ Of(busy[w].inserted, busy[w].request)
        /\ busy[w].inserted \in Presentations /\ busy[w].request \in Requests
    BY <1>0, <1>5, <2>1 DEF HandlersOfLogin, Handling, VerifiedSet, At, Busy, CallbackSteps,
       Of, PresentedTo, OfLogin
  <2>3. /\ data'[i].request = busy[w].request /\ data'[i].presentation = busy[w].inserted
        /\ data'[i].eam = busy[w].copy.eam
    BY <2>1, <2>2, DataPresented
  <2>4. /\ \A d : d = busy[w].copy => Fits(d, i)'
        /\ \A r, p : r = busy[w].request /\ p = busy[w].inserted =>
             PresentedTo(r, i)' /\ Of(p, r)'
    BY <2>2, Kept
  <2> QED  BY <2>2, <2>3, <2>4 DEF Fits
<1>6. CASE \E w \in Workers : PageSet(w) /\ data'[i] # data[i]  BY <1>3, <1>6
<1>7. CASE \E w \in Workers : AuthnSet(w) /\ data'[i] # data[i]  BY <1>4, <1>7
<1>8. CASE \E w \in Workers : VerifiedSet(w) /\ data'[i] # data[i]  BY <1>5, <1>8
<1> QED  BY <1>1, <1>2, <1>6, <1>7, <1>8, Writers

-----------------------------------------------------------------------------
(* Handlers. *)

\* A handler's record is changed by its own steps only.
LEMMA OwnSteps ==
  ASSUME IInv, [Next]_vars, NEW v \in Workers
  PROVE  busy'[v] = busy[v] \/ Step(v)
<1> USE DEF store, oidc, world, tables, setLoginInteractionData
<1>0. busy \in [Workers -> Busy]
  BY DEF IInv, TypeOK, Busy
<1>1. ASSUME NEW w \in Workers, Step(w), w # v PROVE busy'[v] = busy[v]
  <2>1. CASE PageRead(w) \/ AuthnRead(w) \/ VerifiedRead(w) \/ LoginRead(w)
    BY <1>0, <1>1, <2>1 DEF PageRead, AuthnRead, VerifiedRead, LoginRead
  <2>2. CASE \/ PageSession(w) \/ VerifiedCache(w) \/ PageSet(w) \/ AuthnSet(w) \/ VerifiedSet(w)
             \/ VerifiedCommit(w) \/ LoginDelete(w) \/ LoginFinish(w) \/ Fail(w)
    BY <1>0, <1>1, <2>2 DEF PageSession, VerifiedCache, PageSet, AuthnSet, VerifiedSet, VerifiedCommit,
       LoginDelete, LoginFinish, Fail, Goto, Finish
  <2>3. CASE AuthnCall(w) \/ LoginUpload(w)
    BY <1>0, <1>1, <2>3 DEF AuthnCall, LoginUpload
  <2> QED  BY <1>1, <2>1, <2>2, <2>3 DEF Step
<1>2. ASSUME NEW r \in Requests, WalletPresents(r) PROVE busy' = busy
  BY <1>2 DEF WalletPresents
<1>3. ASSUME NEW i \in Logins,
             Authorize(i) \/ Abort(i) \/ Resume(i) \/ MakeTokens(i) \/ Logout(i)
      PROVE  busy' = busy
  BY <1>3 DEF Authorize, Abort, Resume, MakeTokens, Logout
<1>4. ASSUME EntryExpires \/ UNCHANGED vars PROVE busy' = busy
  BY <1>4 DEF EntryExpires, vars
<1>5. CASE \E w \in Workers : Step(w)  BY <1>1, <1>5
<1>6. CASE \E i \in Logins :
             Authorize(i) \/ Abort(i) \/ Resume(i) \/ MakeTokens(i) \/ Logout(i)
  BY <1>3, <1>6
<1> QED  BY <1>2, <1>4, <1>5, <1>6 DEF Next

\* What the login page and its access token belong to.
LEMMA PageHandling ==
  ASSUME IInv, [Next]_vars, NEW w \in Workers,
         \/ PageRead(w) \/ PageSession(w) \/ AuthnRead(w) \/ AuthnCall(w)
  PROVE  Handling(w)'
<1> USE DEF PageSteps, CallbackSteps, LoginSteps
<1>0. /\ busy \in [Workers -> Busy] /\ data \in [Logins -> LoginData] /\ DataOfLogin
      /\ session \in [Tokens -> Logins \cup {None}] /\ page \in [Tokens -> Logins \cup {None}]
      /\ request \in [Requests -> Request]
      /\ Handling(w) /\ SessionOfPage /\ kind' = kind
  BY Lasting DEF IInv, TypeOK, Busy, Request, HandlersOfLogin
<1>00. {"page", "pageSet", "authn", "authnSet"} \subseteq Steps
  BY DEF Steps
<1>1. CASE PageRead(w)
  <2>1. PICK i \in Logins, t \in Tokens :
          /\ page' = [page EXCEPT ![t] = i]
          /\ busy' = [busy EXCEPT ![w] = [Idle EXCEPT !.op = "page", !.login = i, !.token = t,
                                                      !.copy = data[i]]]
    BY <1>1 DEF PageRead
  <2>2. /\ busy'[w].op = "page" /\ busy'[w].login = i /\ busy'[w].token = t
        /\ busy'[w].copy = data[i] /\ page'[t] = i
    <3>1. /\ busy'[w] = OnPage("page", i, t, data[i])
          /\ page'[t] = i /\ "page" \in Steps /\ data[i] \in LoginData
      BY <1>0, <1>00, <2>1 DEF OnPage
    <3> QED  BY <3>1, HandlerPage
  <2>3. Fits(data[i], i)
    BY <1>0 DEF DataOfLogin
  <2>4. Fits(busy[w].copy, busy[w].login)'
    BY <2>2, <2>3, Kept
  <2> QED  BY <2>2, <2>4 DEF Handling
<1>2. CASE PageSession(w)
  <2>1. CASE Finish(w)
    BY <1>0, <2>1, Blank DEF Handling, Finish
  <2>2. CASE Goto(w, "pageSet")
    <3>1. busy'[w] = [busy[w] EXCEPT !.op = "pageSet"] /\ busy[w] \in Busy
      BY <1>0, <2>2 DEF Goto
    <3>2. /\ busy'[w].op = "pageSet" /\ busy'[w].login = busy[w].login
          /\ busy'[w].token = busy[w].token /\ busy'[w].copy = busy[w].copy
      BY <3>1 DEF Busy
    <3>3. /\ busy[w].op = "page" /\ page'[busy[w].token] = page[busy[w].token]
          /\ Fits(busy[w].copy, busy[w].login)
      BY <1>0, <1>2, Lasting, LoginConstants DEF PageSession, At, Handling
    <3>4. Fits(busy[w].copy, busy[w].login)'
      BY <3>2, <3>3, Kept
    <3> QED  BY <1>0, <3>2, <3>3, <3>4 DEF Handling
  <2> QED  BY <1>2, <2>1, <2>2 DEF PageSession
<1>3. CASE AuthnRead(w)
  <2>1. PICK t \in Tokens :
          /\ session[t] # None /\ data[session[t]].state = "started"
          /\ busy' = [busy EXCEPT ![w] = [Idle EXCEPT !.op = "authn", !.login = session[t],
                                              !.token = t, !.copy = data[session[t]]]]
    BY <1>3 DEF AuthnRead, MayRequest
  <2>2. session[t] \in Logins /\ page'[t] = session[t] /\ data[session[t]] \in LoginData
    BY <1>0, <2>1, Lasting DEF SessionOfPage
  <2>3. /\ busy'[w].op = "authn" /\ busy'[w].login = session[t] /\ busy'[w].token = t
        /\ busy'[w].copy = data[session[t]]
    <3>1. "authn" \in Steps
      BY <1>00
    <3>2. busy'[w] = OnPage("authn", session[t], t, data[session[t]])
      BY <1>0, <2>1 DEF OnPage
    <3> QED  BY <2>2, <3>1, <3>2, HandlerPage
  <2>4. Fits(data[session[t]], session[t])
    BY <1>0, <2>2 DEF DataOfLogin
  <2>5. Fits(busy[w].copy, busy[w].login)'
    BY <2>3, <2>4, Kept
  <2> QED  BY <2>1, <2>2, <2>3, <2>5 DEF Handling
<1>4. CASE AuthnCall(w)
  <2>1. PICK r \in Requests :
          /\ request' = [request EXCEPT ![r].state = "open", ![r].token = busy[w].token,
                                        ![r].eam = busy[w].copy.eam]
          /\ busy' = [busy EXCEPT ![w].op = "authnSet", ![w].request = r]
    BY <1>4 DEF AuthnCall
  <2>2. busy[w].op = "authn" /\ busy[w] \in Busy /\ request[r] \in Request
    BY <1>0, <1>4 DEF AuthnCall, At
  <2>3. /\ busy'[w].op = "authnSet" /\ busy'[w].login = busy[w].login /\ busy'[w].request = r
        /\ busy'[w].token = busy[w].token /\ busy'[w].copy = busy[w].copy
    BY <1>0, <2>1, <2>2 DEF Busy
  <2>4. /\ request'[r].state = "open" /\ request'[r].token = busy[w].token
        /\ request'[r].eam = busy[w].copy.eam
    BY <1>0, <2>1, <2>2 DEF Request
  <2>5. /\ busy[w].login \in Logins /\ busy[w].token \in Tokens
        /\ page'[busy[w].token] = busy[w].login /\ busy[w].copy.state = "started"
        /\ Fits(busy[w].copy, busy[w].login)
    BY <1>0, <2>2, Lasting, LoginConstants DEF Handling
  <2>6. Fits(busy[w].copy, busy[w].login)'
    BY <2>3, <2>5, Kept
  <2>7. OfLogin(busy[w].request, busy[w].login)'
    BY <2>3, <2>4, <2>5 DEF OfLogin
  <2> QED  BY <1>0, <2>3, <2>4, <2>5, <2>6, <2>7 DEF Handling
<1> QED  BY <1>1, <1>2, <1>3, <1>4

\* What the callbacks and the completion of a login work on.
LEMMA CallbackHandling ==
  ASSUME IInv, [Next]_vars, NEW w \in Workers,
         \/ VerifiedRead(w) \/ VerifiedCache(w) \/ VerifiedSet(w)
         \/ LoginRead(w) \/ LoginDelete(w) \/ LoginUpload(w)
  PROVE  Handling(w)'
<1> USE DEF PageSteps, CallbackSteps, LoginSteps, setLoginInteractionData, store, world, tables
<1>0. /\ busy \in [Workers -> Busy] /\ busy[w] \in Busy /\ data \in [Logins -> LoginData]
      /\ DataOfLogin /\ session \in [Tokens -> Logins \cup {None}]
      /\ request \in [Requests -> Request] /\ RequestMade /\ SessionOfPage
      /\ Handling(w) /\ kind' = kind /\ presentations \subseteq presentations'
  BY Lasting DEF IInv, TypeOK, Busy, Request, HandlersOfLogin
<1>00. {"verified", "login"} \subseteq Steps
  BY DEF Steps
<1>1. CASE VerifiedRead(w)
  <2>1. PICK r \in Requests :
          /\ request[r].state = "presented" /\ request[r].deliveries < MaxDeliveries
          /\ session[request[r].token] # None
          /\ validateLoginSessionForPresentation(data[session[request[r].token]], r)
          /\ busy' = [busy EXCEPT ![w] =
               [Idle EXCEPT !.op = "verified", !.login = session[request[r].token], !.request = r,
                            !.copy = data[session[request[r].token]],
                            !.inserted = <<r, request[r].deliveries + 1>>]]
          /\ request' = [request EXCEPT ![r].deliveries = @ + 1]
    BY <1>1 DEF VerifiedRead
  <2> DEFINE i == session[request[r].token]
             p == <<r, request[r].deliveries + 1>>
  <2>2. request[r].token \in Tokens /\ i \in Logins /\ page[request[r].token] = i
    BY <1>0, <2>1 DEF RequestMade, SessionOfPage
  <2>3. /\ PresentedTo(r, i) /\ data[i].state = "in-progress" /\ data[i].request = r
        /\ Fits(data[i], i) /\ data[i] \in LoginData
    BY <1>0, <2>1, <2>2 DEF PresentedTo, OfLogin, validateLoginSessionForPresentation, DataOfLogin
  <2>4. p \in Presentations /\ p[1] = r /\ p[2] = request'[r].deliveries
        /\ request'[r].deliveries \in Nat
    <3>1. request[r] \in Request /\ request[r].deliveries \in Nat
      BY <1>0 DEF Request
    <3>2. request[r].deliveries + 1 \in 1..MaxDeliveries
      BY <2>1, <3>1, LoginConstants
    <3>3. request'[r].deliveries = request[r].deliveries + 1
      BY <1>0, <2>1, <3>1 DEF Request
    <3> QED  BY <3>1, <3>2, <3>3 DEF Presentations
  <2>5. /\ busy'[w].op = "verified" /\ busy'[w].login = i /\ busy'[w].request = r
        /\ busy'[w].copy = data[i] /\ busy'[w].inserted = p
    <3>1. busy'[w] = OnCallback("verified", i, r, data[i], p)
      BY <1>0, <2>1 DEF OnCallback
    <3> HIDE DEF i, p
    <3> QED  BY <1>00, <2>2, <2>3, <2>4, <3>1, HandlerCallback
  <2> HIDE DEF i, p
  <2>6. PresentedTo(busy[w].request, busy[w].login)' /\ Fits(busy[w].copy, busy[w].login)'
    BY <2>3, <2>5, Kept
  <2>7. Of(busy[w].inserted, busy[w].request)'
    BY <2>4, <2>5 DEF Of
  <2> QED  BY <1>0, <2>2, <2>3, <2>5, <2>6, <2>7 DEF Handling
<1>2. ASSUME \/ VerifiedCache(w) \/ VerifiedSet(w) \/ LoginDelete(w) \/ LoginUpload(w),
             busy'[w].login = busy[w].login, busy'[w].request = busy[w].request
      PROVE  /\ busy'[w].login \in Logins /\ PresentedTo(busy[w].request, busy[w].login)'
             /\ busy[w].copy.request = busy[w].request
             /\ busy'[w].copy = busy[w].copy => Fits(busy[w].copy, busy[w].login)'
             /\ \A p : Of(p, busy[w].request) => Of(p, busy[w].request)'
  <2>1. busy[w].op \in {"verified", "verifiedSet", "login", "loginFind"}
    BY <1>2 DEF VerifiedCache, VerifiedSet, LoginDelete, LoginUpload, At
  <2>2. /\ busy[w].login \in Logins /\ PresentedTo(busy[w].request, busy[w].login)
        /\ busy[w].copy.request = busy[w].request /\ Fits(busy[w].copy, busy[w].login)
        /\ busy[w].request \in Requests
    BY <1>0, <2>1 DEF Handling, PresentedTo, OfLogin
  <2> QED  BY <1>2, <2>2, Kept
<1>3. CASE VerifiedCache(w) \/ VerifiedSet(w)
  <2>1. /\ busy[w].copy.state = "in-progress" /\ Of(busy[w].inserted, busy[w].request)
    BY <1>0, <1>3 DEF VerifiedCache, VerifiedSet, At, Handling
  <2>2. /\ busy'[w].op \in {"verifiedSet", "verifiedCommit"} /\ busy'[w].login = busy[w].login
        /\ busy'[w].request = busy[w].request /\ busy'[w].copy = busy[w].copy
        /\ busy'[w].inserted = busy[w].inserted
    BY <1>0, <1>3 DEF VerifiedCache, VerifiedSet, Goto, Busy
  <2>3. Of(busy[w].inserted, busy[w].request)'
    BY <1>2, <1>3, <2>1, <2>2
  <2> QED  BY <1>2, <1>3, <2>1, <2>2, <2>3 DEF Handling
<1>4. CASE LoginRead(w)
  <2>1. PICK i \in Logins, r \in Requests :
          /\ LoginAllowed(i, r)
          /\ busy' = [busy EXCEPT ![w] = [Idle EXCEPT !.op = "login", !.login = i, !.request = r,
                                                      !.copy = data[i]]]
    BY <1>4 DEF LoginRead
  <2>2. /\ busy'[w].op = "login" /\ busy'[w].login = i /\ busy'[w].request = r
        /\ busy'[w].copy = data[i]
    <3>1. busy'[w] = OnLogin("login", i, r, data[i]) /\ data[i] \in LoginData
      BY <1>0, <2>1 DEF OnLogin
    <3> QED  BY <1>00, <3>1, HandlerLogin
  <2>3. /\ data[i].state = "complete" /\ data[i].request = r
        /\ PresentedTo(r, i) /\ Fits(data[i], i)
    BY <1>0, <2>1 DEF LoginAllowed, DataOfLogin, Fits
  <2>4. PresentedTo(busy[w].request, busy[w].login)' /\ Fits(busy[w].copy, busy[w].login)'
    BY <2>2, <2>3, Kept
  <2> QED  BY <1>0, <2>2, <2>3, <2>4 DEF Handling
<1>5. CASE LoginDelete(w)
  <2>1. busy[w].op = "login" /\ busy[w].copy.state = "complete"
    BY <1>0, <1>5 DEF LoginDelete, At, Handling
  <2>2. /\ busy'[w].op = "loginFind" /\ busy'[w].login = busy[w].login
        /\ busy'[w].request = busy[w].request /\ busy'[w].copy = busy[w].copy
    BY <1>0, <1>5 DEF LoginDelete, Goto, Busy
  <2> QED  BY <1>2, <1>5, <2>1, <2>2 DEF Handling
<1>6. CASE LoginUpload(w)
  <2> DEFINE p == presented[busy[w].request]
  <2>1. /\ busy[w].op = "loginFind" /\ busy[w].copy.state = "complete"
        /\ busy[w].request \in Requests /\ busy[w].copy \in LoginData
        /\ Fits(busy[w].copy, busy[w].login) /\ PresentedTo(busy[w].request, busy[w].login)
        /\ busy[w].copy.request = busy[w].request
    BY <1>0, <1>6 DEF LoginUpload, At, Handling, PresentedTo, OfLogin, Busy
  <2>2. Of(p, busy[w].request) /\ p \in Presentations
    BY <1>6, <2>1 DEF LoginUpload, IInv, PresentedOfRequest, Of
  <2>3. /\ busy'[w].op = "loginFinish" /\ busy'[w].login = busy[w].login
        /\ busy'[w].request = busy[w].request /\ busy'[w].copy = Uploaded(busy[w].copy, p)
    BY <1>0, <1>6 DEF LoginUpload, Busy, Uploaded
  <2>4. /\ busy'[w].copy.state = "complete" /\ busy'[w].copy.request = busy[w].request
        /\ busy'[w].copy.presentation = p /\ busy'[w].copy.eam = busy[w].copy.eam
    BY <2>1, <2>2, <2>3, DataPresented
  <2>5. \E q \in presentations' : q[1] = busy[w].request
    <3>1. busy[w].copy.presentation \in presentations
      BY <1>6 DEF LoginUpload, Found
    <3>2. busy[w].copy.presentation[1] = busy[w].request
      BY <2>1 DEF Fits, Of
    <3> QED  BY <1>0, <3>1, <3>2
  <2>6. busy[w].copy.eam # "none" =>
          busy[w].copy.eam = "matched" /\ request'[busy[w].request].by \in EntraCredentials
    BY <1>6 DEF LoginUpload, IdentityCompared
  <2>7. Fits(busy[w].copy, busy[w].login)'
    <3>1. \A d : d = busy[w].copy => Fits(d, busy[w].login) /\ d.request = busy[w].request
      BY <2>1
    <3>2. \A d, i : d = busy[w].copy /\ i = busy[w].login => Fits(d, i)'
      BY <3>1, Kept
    <3>3. /\ PresentedTo(busy[w].request, busy[w].login)'
          /\ Of(busy[w].copy.presentation, busy[w].request)'
      BY <1>2, <1>6, <2>2, <2>3, <2>4
    <3> HIDE DEF p
    <3> QED  BY <2>1, <2>3, <2>4, <3>2, <3>3 DEF Fits
  <2> QED  BY <1>2, <1>6, <2>3, <2>4, <2>5, <2>6, <2>7 DEF Handling
<1> QED  BY <1>1, <1>3, <1>4, <1>5, <1>6

LEMMA HandlersStep == IInv /\ [Next]_vars => HandlersOfLogin'
<1> SUFFICES ASSUME IInv, [Next]_vars, NEW v \in Workers PROVE Handling(v)'
  BY DEF HandlersOfLogin
<1>0. busy \in [Workers -> Busy]
  BY DEF IInv, TypeOK, Busy
<1>1. CASE busy'[v] = busy[v]  BY <1>1, HandlingKept
<1>2. ASSUME PageSet(v) \/ AuthnSet(v) \/ VerifiedCommit(v) \/ LoginFinish(v) \/ Fail(v)
      PROVE  Handling(v)'
  <2>1. busy'[v] = Idle
    BY <1>0, <1>2 DEF PageSet, AuthnSet, VerifiedCommit, LoginFinish, Fail, Finish
  <2> QED  BY <2>1, Blank DEF Handling, PageSteps, CallbackSteps, LoginSteps
<1> QED  BY <1>1, <1>2, OwnSteps, PageHandling, CallbackHandling DEF Step

-----------------------------------------------------------------------------
(* Presentations, accounts and results. *)

\* Who writes the rows and the cache of presentations.
LEMMA TableWriters ==
  ASSUME IInv, [Next]_vars
  PROVE  UNCHANGED tables \/ \E w \in Workers : VerifiedCache(w) \/ VerifiedCommit(w)
<1> USE DEF store, oidc, world, setLoginInteractionData
<1>1. ASSUME NEW w \in Workers, Step(w), ~(VerifiedCache(w) \/ VerifiedCommit(w))
      PROVE  UNCHANGED tables
  BY <1>1 DEF Step, PageRead, PageSession, PageSet, AuthnRead, AuthnCall, AuthnSet,
     VerifiedRead, VerifiedSet, LoginRead, LoginDelete, LoginUpload, LoginFinish, Fail, tables
<1>2. ASSUME NEW i \in Logins,
             Authorize(i) \/ Abort(i) \/ Resume(i) \/ MakeTokens(i) \/ Logout(i)
      PROVE  UNCHANGED tables
  BY <1>2 DEF Authorize, Abort, Resume, MakeTokens, Logout, tables
<1>3. ASSUME NEW q \in Requests, WalletPresents(q) PROVE UNCHANGED tables
  BY <1>3 DEF WalletPresents, tables
<1>4. ASSUME EntryExpires \/ UNCHANGED vars PROVE UNCHANGED tables
  BY <1>4 DEF EntryExpires, vars, tables
<1> HIDE DEF store, oidc, world
<1>5. CASE \E w \in Workers : Step(w)  BY <1>1, <1>5
<1>6. CASE \E i \in Logins :
             Authorize(i) \/ Abort(i) \/ Resume(i) \/ MakeTokens(i) \/ Logout(i)
  BY <1>2, <1>6
<1> QED  BY <1>3, <1>4, <1>5, <1>6 DEF Next

\* A callback caches, and commits, what it has inserted.
LEMMA InsertedOf ==
  ASSUME IInv, NEW w \in Workers, VerifiedCache(w) \/ VerifiedCommit(w)
  PROVE  /\ Of(busy[w].inserted, busy[w].request) /\ busy[w].request \in Requests
         /\ request[busy[w].request].state = "presented"
  BY DEF VerifiedCache, VerifiedCommit, At, IInv, HandlersOfLogin, Handling, CallbackSteps,
     PresentedTo, OfLogin

LEMMA MadeStep == IInv /\ [Next]_vars => PresentationsMade'
<1> SUFFICES ASSUME IInv, [Next]_vars, NEW p \in presentations' PROVE Of(p, p[1])'
  BY DEF PresentationsMade
<1>0. presentations \subseteq Presentations /\ PresentationsMade
  BY DEF IInv, TypeOK
<1>1. CASE p \in presentations
  BY <1>0, <1>1, Kept DEF PresentationsMade, Presentations
<1>2. ASSUME NEW w \in Workers, VerifiedCommit(w), p = busy[w].inserted PROVE Of(p, p[1])'
  <2>1. Of(p, p[1]) /\ p[1] \in Requests
    BY <1>2, InsertedOf DEF Of
  <2> QED  BY <2>1, Kept
<1>3. CASE UNCHANGED tables  BY <1>1, <1>3 DEF tables
<1>4. CASE \E w \in Workers : VerifiedCache(w)  BY <1>1, <1>4 DEF VerifiedCache
<1>5. CASE \E w \in Workers : VerifiedCommit(w)  BY <1>1, <1>2, <1>5 DEF VerifiedCommit
<1> QED  BY <1>3, <1>4, <1>5, TableWriters

LEMMA PresentedStep == IInv /\ [Next]_vars => PresentedOfRequest'
<1> SUFFICES ASSUME IInv, [Next]_vars, NEW r \in Requests, presented'[r] # None
             PROVE  Of(presented[r], r)' /\ request'[r].state = "presented"
  BY DEF PresentedOfRequest
<1>0. presented \in [Requests -> Presentations \cup {None}] /\ PresentedOfRequest
  BY DEF IInv, TypeOK
<1>1. CASE presented'[r] = presented[r]
  BY <1>0, <1>1, Kept, Lasting DEF PresentedOfRequest
<1>2. ASSUME NEW w \in Workers, VerifiedCache(w), presented'[r] # presented[r]
      PROVE  Of(presented[r], r)' /\ request'[r].state = "presented"
  <2>1. r = busy[w].request /\ presented'[r] = busy[w].inserted
    BY <1>0, <1>2 DEF VerifiedCache
  <2> QED  BY <1>2, <2>1, InsertedOf, Kept, Lasting
<1>3. CASE UNCHANGED tables  BY <1>1, <1>3 DEF tables
<1>4. CASE \E w \in Workers : VerifiedCommit(w)  BY <1>1, <1>4 DEF VerifiedCommit
<1> QED  BY <1>1, <1>2, <1>3, <1>4, TableWriters

\* Who writes what the library and the account blobs keep.
LEMMA OidcWriters ==
  ASSUME IInv, [Next]_vars
  PROVE  \/ UNCHANGED oidc
         \/ \E w \in Workers : LoginUpload(w) \/ LoginFinish(w)
         \/ \E i \in Logins :
              Authorize(i) \/ Abort(i) \/ Resume(i) \/ MakeTokens(i) \/ Logout(i)
<1> USE DEF store, oidc, world, tables, setLoginInteractionData
<1>1. ASSUME NEW w \in Workers, Step(w), ~(LoginUpload(w) \/ LoginFinish(w))
      PROVE  UNCHANGED oidc
  BY <1>1 DEF Step, PageRead, PageSession, PageSet, AuthnRead, AuthnCall, AuthnSet,
     VerifiedRead, VerifiedCache, VerifiedSet, VerifiedCommit, LoginRead, LoginDelete, Fail
<1>2. ASSUME NEW r \in Requests, WalletPresents(r) PROVE UNCHANGED oidc
  BY <1>2 DEF WalletPresents
<1>3. ASSUME EntryExpires \/ UNCHANGED vars PROVE UNCHANGED oidc
  BY <1>3 DEF EntryExpires, vars
<1> HIDE DEF oidc
<1>4. CASE \E w \in Workers : Step(w)  BY <1>1, <1>4
<1> QED  BY <1>2, <1>3, <1>4 DEF Next

LEMMA AccountStep == IInv /\ [Next]_vars => AccountOfSubject'
<1> SUFFICES ASSUME IInv, [Next]_vars, NEW a \in Accounts, account'[a] # None
             PROVE  /\ account'[a] \in Presentations
                    /\ a = EntraSub => OfEntraUser(account[a])'
  BY DEF AccountOfSubject, Accounts
<1>0. /\ account \in [Accounts -> Presentations \cup {None}] /\ AccountOfSubject
      /\ HandlersOfLogin /\ PresentedOfRequest /\ RequestMade
  BY DEF IInv, TypeOK
<1>1. CASE account'[a] = account[a]
  BY <1>0, <1>1, Kept DEF AccountOfSubject
<1>2. ASSUME NEW w \in Workers, LoginUpload(w), account'[a] # account[a]
      PROVE  /\ account'[a] \in Presentations
             /\ a = EntraSub => OfEntraUser(account[a])'
  <2> DEFINE r == busy[w].request
             d == busy[w].copy
  <2>1. /\ PresentedTo(r, busy[w].login) /\ Fits(d, busy[w].login) /\ d.request = r
    BY <1>0, <1>2 DEF LoginUpload, At, HandlersOfLogin, Handling, LoginSteps
  <2>2. /\ presented[r] # None /\ IdentityCompared(d, request[r].by)
        /\ a = accountId(d, presented[r]) /\ account'[a] = presented[r]
    BY <1>0, <1>2 DEF LoginUpload
  <2>3. /\ Of(presented[r], r) /\ r \in Requests /\ r # None /\ request[r].by \in Credentials
        /\ busy[w].login \in Logins
    BY <1>0, <2>1, <2>2, LoginConstants DEF PresentedOfRequest, PresentedTo, OfLogin, RequestMade
  <2> HIDE DEF r, d
  <2>4. ASSUME a = EntraSub PROVE OfEntraUser(presented[r])
    <3>1. d.eam # "none"
      BY <2>2, <2>3, <2>4, LoginConstants DEF accountId, Of
    <3>2. d.eam = "matched" /\ request[r].by \in EntraCredentials
      BY <2>2, <3>1 DEF IdentityCompared
    <3>3. request[r].eam = "matched" /\ kind[busy[w].login] = "matched"
      BY <2>1, <2>3, <3>1, <3>2 DEF Fits
    <3> QED  BY <2>1, <2>3, <3>2, <3>3 DEF OfEntraUser, Of
  <2> QED  BY <2>2, <2>3, <2>4, Kept DEF Of
<1>3. ASSUME NEW i \in Logins,
             Authorize(i) \/ Abort(i) \/ Resume(i) \/ MakeTokens(i) \/ Logout(i)
      PROVE  account'[a] \in {account[a], None}
  BY <1>0, <1>3 DEF Authorize, Abort, Resume, MakeTokens, Logout
<1>4. ASSUME NEW w \in Workers, LoginFinish(w) PROVE account' = account
  BY <1>4 DEF LoginFinish
<1>5. CASE UNCHANGED oidc  BY <1>1, <1>5 DEF oidc
<1>6. CASE \E w \in Workers : LoginUpload(w) \/ LoginFinish(w)
  BY <1>1, <1>2, <1>4, <1>6
<1>7. CASE \E i \in Logins :
             Authorize(i) \/ Abort(i) \/ Resume(i) \/ MakeTokens(i) \/ Logout(i)
  BY <1>1, <1>3, <1>7
<1> QED  BY <1>5, <1>6, <1>7, OidcWriters

LEMMA ResultStep == IInv /\ [Next]_vars => ResultOfLogin'
<1> SUFFICES ASSUME IInv, [Next]_vars, NEW i \in Logins PROVE ResultHolds(i)'
  BY DEF ResultOfLogin
<1>0. /\ HandlersOfLogin /\ kind' = kind /\ ResultHolds(i) /\ RequestMade
      /\ result \in [Logins -> Result] /\ presentations \subseteq presentations'
  BY Lasting DEF IInv, TypeOK, ResultOfLogin, Result
<1>1. CASE result'[i] = result[i]
  <2>1. ASSUME result[i].outcome = "login"
        PROVE  LET p == result[i].presentation
               IN /\ PresentedTo(p[1], i)' /\ Of(p, p[1])'
                  /\ request'[p[1]].eam = request[p[1]].eam
                  /\ OfEntraUser(p) => OfEntraUser(p)'
    <3>1. LET p == result[i].presentation
          IN PresentedTo(p[1], i) /\ Of(p, p[1]) /\ p[1] \in Requests
      BY <1>0, <2>1 DEF ResultHolds, PresentedTo, OfLogin
    <3> QED  BY <1>1, <3>1, Kept, Lasting DEF PresentedTo, OfLogin
  <2> QED  BY <1>0, <1>1, <2>1 DEF ResultHolds
<1>2. ASSUME NEW w \in Workers, LoginFinish(w), result'[i] # result[i] PROVE ResultHolds(i)'
  <2> DEFINE d == busy[w].copy
             p == busy[w].copy.presentation
             r == busy[w].request
  <2>1. i = busy[w].login /\ result'[i] = LoggedIn(p, accountId(d, p))
    BY <1>0, <1>2 DEF LoginFinish
  <2>2. result'[i].presentation = p /\ result'[i].account = accountId(d, p)
    BY <2>1 DEF LoggedIn
  <2>3. /\ PresentedTo(r, i) /\ Fits(d, i) /\ d.request = r /\ d.state = "complete"
        /\ \E q \in presentations : q[1] = r
        /\ d.eam # "none" => d.eam = "matched" /\ request[r].by \in EntraCredentials
    BY <1>0, <1>2, <2>1 DEF LoginFinish, At, HandlersOfLogin, Handling, LoginSteps
  <2>4. /\ Of(p, r) /\ r \in Requests /\ request[r].by \in Credentials /\ r # None
    BY <1>0, <2>3, LoginConstants DEF Fits, PresentedTo, OfLogin, RequestMade
  <2>5. request[r].eam = d.eam
    BY <2>3, <2>4 DEF Fits
  <2>6. /\ accountId(d, p) \in Accounts
        /\ accountId(d, p) = EntraSub <=> request[r].eam # "none"
    BY <2>4, <2>5, LoginConstants DEF accountId, Accounts, Of
  <2>7. ASSUME request[r].eam # "none" PROVE OfEntraUser(p) /\ kind[i] = "matched"
    BY <2>3, <2>4, <2>5, <2>7 DEF Fits, OfEntraUser, Of
  <2> HIDE DEF d, p, r
  <2>8. LET n == result[i].presentation
        IN PresentedTo(n[1], i)' /\ Of(n, n[1])' /\ (OfEntraUser(p) => OfEntraUser(n)')
    <3>1. \A q, s : q = p /\ s = r => PresentedTo(s, i)' /\ Of(q, s)'
                    /\ (OfEntraUser(q) => OfEntraUser(q)')
      BY <2>3, <2>4, Kept
    <3>2. p[1] = r
      BY <2>4 DEF Of
    <3> QED  BY <2>2, <3>1, <3>2
  <2>9. request'[r].eam = request[r].eam
    BY <2>3, <2>4, Lasting DEF PresentedTo, OfLogin
  <2>10. (\E q \in presentations' : q[1] = r) /\ p[1] = r
    BY <1>0, <2>3, <2>4 DEF Of
  <2> QED  BY <1>0, <2>2, <2>6, <2>7, <2>8, <2>9, <2>10 DEF ResultHolds
<1>3. ASSUME NEW j \in Logins, Abort(j), result'[i] # result[i] PROVE ResultHolds(i)'
  BY <1>0, <1>3, Blank DEF Abort, ResultHolds
<1>4. ASSUME NEW j \in Logins, Authorize(j) \/ Resume(j) \/ MakeTokens(j) \/ Logout(j)
      PROVE  result' = result
  BY <1>4 DEF Authorize, Resume, MakeTokens, Logout
<1>5. ASSUME NEW w \in Workers, LoginUpload(w) PROVE result' = result
  BY <1>5 DEF LoginUpload
<1>6. CASE UNCHANGED oidc  BY <1>1, <1>6 DEF oidc
<1>7. CASE \E w \in Workers : LoginUpload(w) \/ LoginFinish(w)
  BY <1>1, <1>2, <1>5, <1>7
<1>8. CASE \E j \in Logins :
             Authorize(j) \/ Abort(j) \/ Resume(j) \/ MakeTokens(j) \/ Logout(j)
  BY <1>1, <1>3, <1>4, <1>8
<1> QED  BY <1>6, <1>7, <1>8, OidcWriters

\* Tokens are made once a login is done, and nothing changes its result then.
LEMMA ToldStep == IInv /\ [Next]_vars => ToldOfAccount'
<1> SUFFICES ASSUME IInv, [Next]_vars, NEW i \in Logins PROVE ToldHolds(i)'
  BY DEF ToldOfAccount
<1> USE DEF store, oidc, world, tables
<1>0. /\ ToldHolds(i) /\ AccountOfSubject
      /\ told \in [Logins -> Presentations \cup {None}]
      /\ interaction \in [Logins -> {"none", "open", "done"}]
      /\ result \in [Logins -> Result]
  BY DEF IInv, TypeOK, ToldOfAccount, Result
<1>1. ASSUME told[i] # None => interaction'[i] = "done" /\ result'[i] = result[i],
             told'[i] = told[i]
      PROVE  ToldHolds(i)'
  <2>1. OfEntraUser(told[i]) => OfEntraUser(told[i])'
    BY <1>1, Kept
  <2> QED  BY <1>0, <1>1, <2>1 DEF ToldHolds
<1>2. ASSUME NEW j \in Logins, MakeTokens(j) PROVE ToldHolds(i)'
  <2>1. CASE told'[i] = told[i]
    BY <1>0, <1>1, <1>2, <2>1 DEF MakeTokens, ToldHolds
  <2>2. CASE told'[i] # told[i]
    <3>1. /\ told'[i] = account[result[i].account] /\ interaction'[i] = "done"
          /\ result'[i] = result[i] /\ result[i].outcome = "login"
      BY <1>0, <1>2, <2>2 DEF MakeTokens
    <3>2. ASSUME told'[i] # None, result[i].account = EntraSub PROVE OfEntraUser(told[i])'
      <4>1. OfEntraUser(account[EntraSub]) /\ told'[i] = account[EntraSub]
        BY <1>0, <3>1, <3>2 DEF AccountOfSubject
      <4> QED  BY <4>1, Kept
    <3> QED  BY <3>1, <3>2 DEF ToldHolds
  <2> QED  BY <2>1, <2>2
<1>3. ASSUME NEW j \in Logins, Authorize(j) \/ Abort(j) \/ Resume(j) \/ Logout(j)
      PROVE  ToldHolds(i)'
  <2>1. told'[i] = told[i]
    BY <1>3 DEF Authorize, Abort, Resume, Logout
  <2>2. told[i] # None => interaction'[i] = "done" /\ result'[i] = result[i]
    BY <1>0, <1>3 DEF Authorize, Abort, Resume, Logout, ToldHolds
  <2> QED  BY <1>1, <2>1, <2>2
<1>4. ASSUME NEW w \in Workers, LoginUpload(w) \/ LoginFinish(w) PROVE ToldHolds(i)'
  <2>1. told'[i] = told[i]
    BY <1>4 DEF LoginUpload, LoginFinish
  <2>2. told[i] # None => interaction'[i] = "done" /\ result'[i] = result[i]
    BY <1>0, <1>4 DEF LoginUpload, LoginFinish, ToldHolds
  <2> QED  BY <1>1, <2>1, <2>2
<1>5. CASE UNCHANGED oidc
  BY <1>0, <1>1, <1>5 DEF ToldHolds
<1>6. CASE \E w \in Workers : LoginUpload(w) \/ LoginFinish(w)  BY <1>4, <1>6
<1>7. CASE \E j \in Logins :
             Authorize(j) \/ Abort(j) \/ Resume(j) \/ MakeTokens(j) \/ Logout(j)
  BY <1>2, <1>3, <1>7
<1> QED  BY <1>5, <1>6, <1>7, OidcWriters

-----------------------------------------------------------------------------
(* The invariant and what it gives. *)

LEMMA InitIInv == Init => IInv
<1> SUFFICES ASSUME Init PROVE IInv
  OBVIOUS
<1>1. TypeOK
  BY InitTypes
<1>2. RequestMade /\ SessionOfPage /\ PresentationsMade /\ PresentedOfRequest
  BY DEF Init, RequestMade, SessionOfPage, PresentationsMade, PresentedOfRequest
<1>3. DataOfLogin /\ ResultOfLogin /\ ToldOfAccount /\ AccountOfSubject
  BY Blank DEF Init, DataOfLogin, Fits, ResultOfLogin, ResultHolds, ToldOfAccount, ToldHolds,
     AccountOfSubject, Accounts
<1>4. HandlersOfLogin
  BY Blank DEF Init, HandlersOfLogin, Handling, PageSteps, CallbackSteps, LoginSteps
<1> QED  BY <1>1, <1>2, <1>3, <1>4 DEF IInv

LEMMA StepIInv == IInv /\ [Next]_vars => IInv'
  BY TypeStep, RequestMadeStep, SessionStep, DataStep, HandlersStep, MadeStep, PresentedStep,
     AccountStep, ResultStep, ToldStep DEF IInv

LEMMA IInvHolds == Spec => []IInv
  BY InitIInv, StepIInv, PTL DEF Spec

\* In every state the variables have their types: what a handler writes back is
\* login data, however old its copy.
THEOREM TypeCorrect == Spec => []TypeOK
<1>1. IInv => TypeOK  BY DEF IInv
<1> QED  BY <1>1, IInvHolds, PTL

\* A login succeeds only on a presentation of a request made in its own page.
THEOREM LoginOnOwn == Spec => []LoginOnOwnPresentation
<1>1. IInv => LoginOnOwnPresentation
  BY DEF IInv, ResultOfLogin, ResultHolds, PresentedTo, OfLogin, LoginOnOwnPresentation, LoginOf
<1> QED  BY <1>1, IInvHolds, PTL

\* A login succeeds only on a presentation that is in the table, if the callback of its
\* request was delivered once: however the write of the login data, the commit, roll-backs
\* and the deletes of the login follow one another.
THEOREM LoginIsRecorded == Spec => []LoginOnRecorded
<1>1. ASSUME IInv, NEW i \in Logins, result[i].outcome = "login",
             request[result[i].presentation[1]].deliveries = 1
      PROVE  result[i].presentation \in presentations
  <2> DEFINE p == result[i].presentation
  <2>1. Of(p, p[1]) /\ \E q \in presentations : q[1] = p[1]
    BY <1>1 DEF IInv, ResultOfLogin, ResultHolds
  <2>2. PICK q \in presentations : q[1] = p[1]
    BY <2>1
  <2>3. Of(q, p[1])
    BY <1>1, <2>2 DEF IInv, PresentationsMade
  <2>4. p = <<p[1], 1>> /\ q = <<p[1], 1>>
    BY <1>1, <2>1, <2>3, LoginConstants DEF Of, Presentations
  <2> QED  BY <2>2, <2>4
<1>2. IInv => LoginOnRecorded
  BY <1>1 DEF LoginOnRecorded
<1> QED  BY <1>2, IInvHolds, PTL

\* A login ends as that of the Entra user exactly when its presentation was asked for
\* as that user's: no login whose data was lost and started afresh, while copies with
\* the integration were written back, ends as the one though it was asked for the other.
THEOREM EndsAsRequested == Spec => []LoginAsRequested
<1>1. IInv => LoginAsRequested
  BY DEF IInv, ResultOfLogin, ResultHolds, OfEntraUser, LoginAsRequested
<1> QED  BY <1>1, IInvHolds, PTL

\* The tokens of the Entra user tell of a credential of that user's identity, which a
\* page of a second factor asked for: whatever logins share and overwrite the account.
THEOREM EntraTokens == Spec => []TokensOfEntraUser
<1>1. IInv => TokensOfEntraUser
  <2>1. ASSUME NEW p, OfEntraUser(p)
        PROVE  /\ request[p[1]].by \in EntraCredentials /\ request[p[1]].eam = "matched"
               /\ kind[LoginOf(p)] = "matched"
    BY <2>1 DEF OfEntraUser, PresentedTo, OfLogin, LoginOf
  <2> QED  BY <2>1 DEF IInv, ToldOfAccount, ToldHolds, TokensOfEntraUser
<1> QED  BY <1>1, IInvHolds, PTL
=============================================================================
