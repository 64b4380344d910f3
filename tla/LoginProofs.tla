----------------------------- MODULE LoginProofs -----------------------------
(***************************************************************************)
(* The safety properties of the login, proved for any number of attempts,  *)
(* ports, codes and restarts of the server.                                *)
(***************************************************************************)
EXTENDS Login, SequenceTheorems, TLAPS

Challenges == {Challenge(c) : c \in Clients}
Token == [key : Nat, type : {"confirm"},
          val : [code : Nat, challenge : Challenges]]
Code == [owner : Challenges, presented : Nat]
LocalServer ==
    [port : Ports, accepting : BOOLEAN, due : BOOLEAN, sender : BOOLEAN,
     finished : BOOLEAN, handler : Token \cup {None},
     received : Token \cup {None}]

LoginTypeOK ==
    /\ pc \in [Clients -> {"idle", "serving", "pasting", "confirming"}
                            \cup Finished]
    /\ srv \in [Clients -> LocalServer \cup {None}]
    /\ token \in [Clients -> Token \cup {None}]
    /\ request \in [Clients -> {"none", "sent", "exchange"}]
    /\ key \in Nat
    /\ codes \in Seq(Code)

(* A confirmation token t that a process up to k made: it carries one of   *)
(* the codes cs and the challenge that code was issued for.                *)
Issued(t, k, cs) ==
    /\ t \in Token
    /\ t.key <= k
    /\ t.val.code \in 1..Len(cs)
    /\ cs[t.val.code].owner = t.val.challenge

(* What an address or a page in the browser may hold.                      *)
PageOk(q, k, cs) ==
    /\ q.at \in {"login", "provider", "callback", "local", "page"}
    /\ q.at = "login" /\ QueryOk(q) /\ RedirectOk(q) =>
         q.challenge \in Challenges
    /\ q.at = "provider" => q.state.val.challenge \in Challenges
    /\ q.at = "callback" => /\ q.code \in 1..Len(cs)
                            /\ cs[q.code].owner = q.state.val.challenge
    /\ q.at \in {"local", "page"} => Issued(q.token, k, cs)

Pages == \A q \in browser : PageOk(q, key, codes)

(* The local server: its first callback has taken the sender, and then the *)
(* token is in the handler's hands or received.                            *)
ServerOk(s, k, cs) ==
    /\ s \in LocalServer
    /\ s.handler # None => Issued(s.handler, k, cs)
    /\ s.received # None => Issued(s.received, k, cs)
    /\ s.sender <=> s.handler = None /\ s.received = None

Servers ==
    \A c \in Clients :
        pc[c] \in {"serving", "no_token"} => ServerOk(srv[c], key, codes)

(* What a confirm request presents, and that it ends its attempt.          *)
Requests ==
    \A c \in Clients :
        /\ request[c] # "none" => pc[c] = "confirming"
        /\ request[c] # "none" \/ pc[c] \in {"done", "refused"} =>
             Issued(token[c], key, codes)
        /\ request[c] = "exchange" => token[c].val.challenge = Challenge(c)

LoginIInv ==
    /\ LoginTypeOK /\ Pages /\ Servers /\ Requests
    /\ SuccessIsOwn /\ NoTokenMeansNoCallback /\ RefusedForACause

----------------------------------------------------------------------------
(* Lemma: no token is the absent one.                                      *)
LEMMA NoneIsNoToken == None \notin Token /\ None \notin LocalServer
BY DEF None, Token, LocalServer

(* Lemma: challenges name their attempts.                                  *)
LEMMA ChallengeInjective ==
    ASSUME NEW c \in Clients, NEW d \in Clients, Challenge(c) = Challenge(d)
    PROVE  c = d
BY DEF Challenge

(* Lemma: what was issued stays issued, over restarts and new codes, while *)
(* the provider presents some of them.                                     *)
LEMMA IssuedStays ==
    ASSUME NEW k \in Nat, NEW k2 \in Nat, k <= k2,
           NEW cs \in Seq(Code), NEW ds \in Seq(Code), Len(cs) <= Len(ds),
           \A i \in 1..Len(cs) : ds[i].owner = cs[i].owner
    PROVE  /\ \A t : Issued(t, k, cs) => Issued(t, k2, ds)
           /\ \A q : PageOk(q, k, cs) => PageOk(q, k2, ds)
           /\ \A s : ServerOk(s, k, cs) => ServerOk(s, k2, ds)
<1>1. Len(cs) \in Nat /\ Len(ds) \in Nat
  BY LenProperties
<1>2. \A i \in 1..Len(cs) : i \in 1..Len(ds)
  BY <1>1
<1>3. ASSUME NEW t, Issued(t, k, cs) PROVE Issued(t, k2, ds)
  <2>1. t.key \in Nat
    BY <1>3 DEF Issued, Token
  <2>2. t.key <= k2
    BY <1>3, <2>1 DEF Issued
  <2> QED
    BY <1>2, <1>3, <2>2 DEF Issued
<1>4. ASSUME NEW q, PageOk(q, k, cs) PROVE PageOk(q, k2, ds)
  BY <1>2, <1>3, <1>4 DEF PageOk
<1>5. ASSUME NEW s, ServerOk(s, k, cs) PROVE ServerOk(s, k2, ds)
  BY <1>3, <1>5 DEF ServerOk
<1> QED
  BY <1>3, <1>4, <1>5

(* Lemma: the invariant holds before any attempt.                          *)
LEMMA LoginInitIInv == Init => LoginIInv
<1> SUFFICES ASSUME Init PROVE LoginIInv
  OBVIOUS
<1>1. LoginTypeOK
  BY EmptySeq DEF Init, LoginTypeOK
<1>2. Pages
  BY LoginAssumption DEF Init, Pages, PageOk, Challenges
<1>3. Servers /\ Requests
  BY DEF Init, Servers, Requests
<1>4. SuccessIsOwn /\ NoTokenMeansNoCallback /\ RefusedForACause
  BY DEF Init, SuccessIsOwn, NoTokenMeansNoCallback, RefusedForACause
<1> QED
  BY <1>1, <1>2, <1>3, <1>4 DEF LoginIInv

----------------------------------------------------------------------------
(* Lemma: a step of attempt c before it has a token.                       *)
LEMMA LocalStep ==
    ASSUME LoginIInv, NEW c \in Clients, request[c] = "none",
           NEW s \in LocalServer \cup {None},
           NEW r \in {"serving", "pasting", "no_browser"},
           pc' = [pc EXCEPT ![c] = r], srv' = [srv EXCEPT ![c] = s],
           r = "serving" => ServerOk(s, key, codes), Pages',
           UNCHANGED <<token, request, key, codes>>
    PROVE  LoginIInv'
<1> USE DEF LoginIInv
<1>1. LoginTypeOK'
  BY DEF LoginTypeOK, Finished, Failed
<1>2. \A d \in Clients : /\ pc'[d] = IF d = c THEN r ELSE pc[d]
                         /\ srv'[d] = IF d = c THEN s ELSE srv[d]
  BY DEF LoginTypeOK
<1>3. Servers' /\ Requests'
  BY <1>2 DEF Servers, Requests
<1>4. SuccessIsOwn' /\ NoTokenMeansNoCallback' /\ RefusedForACause'
  BY <1>2 DEF SuccessIsOwn, NoTokenMeansNoCallback, RefusedForACause
<1> QED
  BY <1>1, <1>3, <1>4

(* Lemma: an attempt begins: its local server is bound, or a page is asked *)
(* for, and the browser gets the login address with its own challenge.     *)
LEMMA StartStep ==
    ASSUME LoginIInv, NEW c \in Clients, StartLocalHttp(c) \/ StartToken(c)
    PROVE  LoginIInv'
<1> USE DEF LoginIInv
<1>1. /\ request[c] = "none" /\ UNCHANGED <<token, request, key, codes>>
      /\ srv[c] \in LocalServer \cup {None}
      /\ srv = [srv EXCEPT ![c] = srv[c]]
  BY DEF StartLocalHttp, StartToken, Requests, LoginTypeOK
<1>2. ASSUME NEW m, NEW uri,
             browser' = browser \cup {LoginQuery(m, uri, Challenge(c))}
      PROVE  Pages'
  <2>1. PageOk(LoginQuery(m, uri, Challenge(c)), key, codes)
    BY DEF PageOk, LoginQuery, Challenges
  <2> QED
    BY <1>1, <1>2, <2>1 DEF Pages
<1>3. ASSUME browser' = browser PROVE Pages'
  BY <1>1, <1>3 DEF Pages
<1>4. ASSUME NEW p \in Ports
      PROVE  /\ NewServer(p) \in LocalServer
             /\ ServerOk(NewServer(p), key, codes)
  BY DEF NewServer, LocalServer, ServerOk
<1>5. CASE StartLocalHttp(c)
  <2>1. PICK p \in Ports :
          \/ /\ pc' = [pc EXCEPT ![c] = "serving"]
             /\ srv' = [srv EXCEPT ![c] = NewServer(p)]
             /\ browser' = browser \cup
                  {LoginQuery("local_http", LocalUri(p), Challenge(c))}
          \/ /\ pc' = [pc EXCEPT ![c] = "no_browser"]
             /\ UNCHANGED <<srv, browser>>
    BY <1>5 DEF StartLocalHttp, FreePorts
  <2>2. CASE /\ pc' = [pc EXCEPT ![c] = "serving"]
             /\ srv' = [srv EXCEPT ![c] = NewServer(p)]
             /\ browser' = browser \cup
                  {LoginQuery("local_http", LocalUri(p), Challenge(c))}
    BY <1>1, <1>2, <1>4, <2>2, LocalStep
  <2>3. CASE /\ pc' = [pc EXCEPT ![c] = "no_browser"]
             /\ UNCHANGED <<srv, browser>>
    BY <1>1, <1>3, <2>3, LocalStep
  <2> QED
    BY <2>1, <2>2, <2>3
<1>6. CASE StartToken(c)
  <2>1. /\ pc' = [pc EXCEPT ![c] = "pasting"] /\ srv' = srv
        /\ browser' = browser \cup {LoginQuery("token", None, Challenge(c))}
    BY <1>6 DEF StartToken
  <2> QED
    BY <1>1, <1>2, <2>1, LocalStep
<1> QED
  BY <1>5, <1>6

(* Lemma: the local server serves its callback and is told to stop.        *)
LEMMA ServeStep ==
    ASSUME LoginIInv, NEW c \in Clients,
           \/ LocalCallback(c) \/ HandlerSends(c)
           \/ Deadline(c) \/ Shutdown(c)
    PROVE  LoginIInv'
<1> USE DEF LoginIInv
<1>1. /\ pc[c] = "serving" /\ request[c] = "none"
      /\ UNCHANGED <<pc, token, request, browser, key, codes>>
  BY DEF LocalCallback, HandlerSends, Deadline, Shutdown, Serving, Requests,
         LoginTypeOK
<1>2. Pages' /\ pc' = [pc EXCEPT ![c] = "serving"]
  BY <1>1 DEF Pages, LoginTypeOK
<1>3. ServerOk(srv[c], key, codes)
  BY <1>1 DEF Servers
<1>4. PICK s : srv' = [srv EXCEPT ![c] = s] /\ ServerOk(s, key, codes)
  <2>1. CASE LocalCallback(c)
    <3>1. PICK u \in browser :
            /\ u.at = "local"
            /\ srv' = [srv EXCEPT ![c] =
                         [srv[c] EXCEPT !.sender = FALSE, !.finished = TRUE,
                                        !.handler = u.token]]
      BY <2>1 DEF LocalCallback
    <3>2. Issued(u.token, key, codes) /\ u.token \in Token /\ u.token # None
      BY <3>1, NoneIsNoToken DEF Pages, PageOk, Issued
    <3>3. ServerOk([srv[c] EXCEPT !.sender = FALSE, !.finished = TRUE,
                                  !.handler = u.token], key, codes)
      BY <1>3, <3>2 DEF ServerOk, LocalServer
    <3> QED
      BY <3>1, <3>3
  <2>2. CASE HandlerSends(c)
    <3>1. /\ srv[c].handler # None
          /\ srv' = [srv EXCEPT ![c] =
                       [srv[c] EXCEPT !.handler = None,
                                      !.received = srv[c].handler]]
      BY <2>2 DEF HandlerSends
    <3>2. ServerOk([srv[c] EXCEPT !.handler = None,
                                  !.received = srv[c].handler], key, codes)
      BY <1>3, <3>1 DEF ServerOk, LocalServer
    <3> QED
      BY <3>1, <3>2
  <2>3. CASE Deadline(c)
    <3>1. srv' = [srv EXCEPT ![c] = [srv[c] EXCEPT !.due = TRUE]]
      BY <2>3 DEF Deadline
    <3>2. ServerOk([srv[c] EXCEPT !.due = TRUE], key, codes)
      BY <1>3 DEF ServerOk, LocalServer
    <3> QED
      BY <3>1, <3>2
  <2>4. CASE Shutdown(c)
    <3>1. srv' = [srv EXCEPT ![c] = [srv[c] EXCEPT !.accepting = FALSE]]
      BY <2>4 DEF Shutdown
    <3>2. ServerOk([srv[c] EXCEPT !.accepting = FALSE], key, codes)
      BY <1>3 DEF ServerOk, LocalServer
    <3> QED
      BY <3>1, <3>2
  <2> QED
    BY <2>1, <2>2, <2>3, <2>4
<1>5. s \in LocalServer
  BY <1>4 DEF ServerOk
<1> QED
  BY <1>1, <1>2, <1>4, <1>5, LocalStep

(* Lemma: a confirmation token is pasted, or comes from the local server,  *)
(* or the server ends without one.                                         *)
LEMMA TokenStep ==
    ASSUME LoginIInv, NEW c \in Clients, Paste(c) \/ ServerStops(c)
    PROVE  LoginIInv'
<1> USE DEF LoginIInv
<1>1. /\ pc[c] \in {"pasting", "serving"} /\ request[c] = "none"
      /\ UNCHANGED <<srv, browser, key, codes>>
  BY DEF Paste, ServerStops, Serving, Requests, LoginTypeOK
<1>2. PICK t : /\ token' = [token EXCEPT ![c] = t]
               /\ \/ /\ Issued(t, key, codes)
                     /\ pc' = [pc EXCEPT ![c] = "confirming"]
                     /\ request' = [request EXCEPT ![c] = "sent"]
                  \/ /\ t = None /\ srv[c].sender
                     /\ pc[c] = "serving"
                     /\ pc' = [pc EXCEPT ![c] = "no_token"]
                     /\ request' = [request EXCEPT ![c] = "none"]
  <2>1. CASE Paste(c)
    <3>1. PICK page \in browser : /\ page.at = "page"
                                  /\ token' = [token EXCEPT ![c] = page.token]
      BY <2>1 DEF Paste
    <3>2. Issued(page.token, key, codes)
      BY <3>1 DEF Pages, PageOk
    <3> QED
      BY <2>1, <3>1, <3>2 DEF Paste
  <2>2. CASE ServerStops(c)
    <3>1. ServerOk(srv[c], key, codes)
      BY <2>2 DEF ServerStops, Serving, Servers
    <3>2. CASE srv[c].received = None
      <4>1. srv[c].sender
        BY <2>2, <3>1, <3>2 DEF ServerStops, ServerOk
      <4> QED
        BY <2>2, <3>2, <4>1 DEF ServerStops, Serving
    <3>3. CASE srv[c].received # None
      <4>1. Issued(srv[c].received, key, codes)
        BY <3>1, <3>3 DEF ServerOk
      <4> QED
        BY <2>2, <3>3, <4>1 DEF ServerStops
    <3> QED
      BY <3>2, <3>3
  <2> QED
    BY <2>1, <2>2
<1>3. t \in Token \cup {None}
  BY <1>2 DEF Issued
<1>4. LoginTypeOK'
  BY <1>1, <1>2, <1>3 DEF LoginTypeOK, Finished, Failed
<1>5. \A d \in Clients \ {c} :
        pc'[d] = pc[d] /\ token'[d] = token[d] /\ request'[d] = request[d]
  BY <1>2 DEF LoginTypeOK
<1>6. /\ token'[c] = t
      /\ \/ /\ Issued(t, key, codes)
            /\ pc'[c] = "confirming" /\ request'[c] = "sent"
         \/ /\ srv[c].sender /\ pc[c] = "serving"
            /\ pc'[c] = "no_token" /\ request'[c] = "none"
  BY <1>2 DEF LoginTypeOK
<1>7. Pages' /\ Servers' /\ Requests'
  BY <1>1, <1>5, <1>6 DEF Pages, Servers, Requests
<1>8. SuccessIsOwn' /\ NoTokenMeansNoCallback' /\ RefusedForACause'
  BY <1>1, <1>5, <1>6
     DEF SuccessIsOwn, NoTokenMeansNoCallback, RefusedForACause
<1> QED
  BY <1>4, <1>7, <1>8

----------------------------------------------------------------------------
(* Lemma: the browser gains a page, and the provider perhaps a code; no    *)
(* attempt moves.                                                          *)
LEMMA GrowStep ==
    ASSUME LoginIInv, UNCHANGED <<pc, srv, token, request, key>>,
           NEW q, browser' = browser \cup {q}, PageOk(q, key, codes'),
           codes' \in Seq(Code), Len(codes) <= Len(codes'),
           \A i \in 1..Len(codes) : codes'[i] = codes[i]
    PROVE  LoginIInv'
<1> USE DEF LoginIInv
<1>1. key \in Nat /\ codes \in Seq(Code) /\ LoginTypeOK'
  BY DEF LoginTypeOK
<1>2. key <= key
  BY <1>1
<1>3. \A i \in 1..Len(codes) : codes'[i].owner = codes[i].owner
  OBVIOUS
<1>4. PICK ds : ds = codes'
  OBVIOUS
<1>5. /\ \A t : Issued(t, key, codes) => Issued(t, key, ds)
      /\ \A u : PageOk(u, key, codes) => PageOk(u, key, ds)
      /\ \A s : ServerOk(s, key, codes) => ServerOk(s, key, ds)
  BY <1>1, <1>2, <1>3, <1>4, IssuedStays
<1>6. Pages'
  BY <1>4, <1>5 DEF Pages
<1>7. Servers'
  BY <1>4, <1>5 DEF Servers
<1>8. Requests'
  BY <1>4, <1>5 DEF Requests
<1>9. SuccessIsOwn'
  <2>1. \A c \in Clients : pc[c] = "done" =>
          token[c].val.code \in 1..Len(codes)
    BY DEF Requests, Issued
  <2> QED
    BY <2>1 DEF SuccessIsOwn
<1>10. NoTokenMeansNoCallback' /\ RefusedForACause'
  BY DEF NoTokenMeansNoCallback, RefusedForACause
<1> QED
  BY <1>1, <1>6, <1>7, <1>8, <1>9, <1>10

(* Lemma: the user opens an address: the login, the callback, or the       *)
(* provider's page.                                                        *)
LEMMA BrowseStep ==
    ASSUME LoginIInv, NEW q \in browser, Browse(q)
    PROVE  LoginIInv'
<1> USE DEF LoginIInv
<1>1. key \in Nat /\ codes \in Seq(Code) /\ PageOk(q, key, codes)
  BY DEF LoginTypeOK, Pages
<1>2. Len(codes) \in Nat /\ Len(codes) <= Len(codes)
  BY <1>1, LenProperties
<1>3. CASE Login(q)
  <2>1. q.challenge \in Challenges
    BY <1>1, <1>3 DEF Login, PageOk
  <2> DEFINE u == create_oauth_code_request_url(
                    to_token("request", [method |-> q.method, uri |-> q.uri,
                                         challenge |-> q.challenge]))
  <2>2. u.at = "provider" /\ u.state.val.challenge = q.challenge
    BY DEF create_oauth_code_request_url, to_token
  <2>3. PageOk(u, key, codes)
    BY <2>1, <2>2 DEF PageOk
  <2>4. /\ browser' = browser \cup {u} /\ codes' = codes
        /\ UNCHANGED <<pc, srv, token, request, key>>
    BY <1>3 DEF Login
  <2> HIDE DEF u
  <2> QED
    BY <1>1, <1>2, <2>3, <2>4, GrowStep
<1>4. CASE Callback(q)
  <2> DEFINE t == to_token("confirm", [code |-> q.code,
                             challenge |-> q.state.val.challenge])
             u == IF q.state.val.method = "local_http"
                  THEN [at |-> "local", port |-> q.state.val.uri.port,
                        token |-> t]
                  ELSE [at |-> "page", token |-> t]
  <2>1. /\ q.code \in 1..Len(codes)
        /\ codes[q.code].owner = q.state.val.challenge
    BY <1>1, <1>4 DEF Callback, PageOk
  <2>2. codes[q.code] \in Code /\ q.code \in Nat /\ key <= key
    BY <1>1, <1>2, <2>1
  <2>3. q.state.val.challenge \in Challenges
    BY <2>1, <2>2 DEF Code
  <2>4. Issued(t, key, codes)
    BY <1>1, <2>1, <2>2, <2>3 DEF Issued, Token, to_token
  <2>5. u.at \in {"local", "page"} /\ u.token = t
    OBVIOUS
  <2>6. PageOk(u, key, codes)
    <3> HIDE DEF t, u
    <3> QED
      BY <2>4, <2>5 DEF PageOk
  <2>7. /\ browser' = browser \cup {u} /\ codes' = codes
        /\ UNCHANGED <<pc, srv, token, request, key>>
    BY <1>4 DEF Callback
  <2> HIDE DEF u
  <2> QED
    BY <1>1, <1>2, <2>6, <2>7, GrowStep
<1>5. CASE Authorize(q)
  <2> DEFINE e == [owner |-> q.state.val.challenge, presented |-> 0]
  <2>1. e \in Code
    BY <1>1, <1>5 DEF Authorize, PageOk, Code
  <2>2. PICK s : browser' = browser \cup
                   {[at |-> "callback", code |-> Len(codes) + 1, scope |-> s,
                     state |-> q.state]}
    BY <1>5 DEF Authorize
  <2> DEFINE u == [at |-> "callback", code |-> Len(codes) + 1, scope |-> s,
                   state |-> q.state]
  <2>3. codes' = Append(codes, e) /\ UNCHANGED <<pc, srv, token, request, key>>
    BY <1>5 DEF Authorize
  <2> HIDE DEF e
  <2>4. /\ codes' \in Seq(Code) /\ Len(codes') = Len(codes) + 1
        /\ \A i \in 1..Len(codes) : codes'[i] = codes[i]
        /\ codes'[Len(codes) + 1] = e
    BY <1>1, <2>1, <2>3, AppendProperties
  <2>5. Len(codes) <= Len(codes') /\ Len(codes) + 1 \in 1..Len(codes')
    BY <1>2, <2>4
  <2>6. e.owner = q.state.val.challenge
    BY DEF e
  <2>7. PageOk(u, key, codes')
    BY <2>4, <2>5, <2>6 DEF PageOk
  <2>8. browser' = browser \cup {u}
    BY <2>2
  <2> HIDE DEF u
  <2> QED
    BY <1>1, <2>3, <2>4, <2>5, <2>7, <2>8, GrowStep
<1> QED
  BY <1>3, <1>4, <1>5 DEF Browse

----------------------------------------------------------------------------
(* Lemma: the confirm request of attempt c ends without presenting a code. *)
LEMMA EndStep ==
    ASSUME LoginIInv, NEW c \in Clients, request[c] # "none",
           NEW r \in {"done", "provider", "network", "refused"},
           request' = [request EXCEPT ![c] = "none"],
           pc' = [pc EXCEPT ![c] = r],
           r = "done" => /\ codes[token[c].val.code].owner = Challenge(c)
                         /\ codes[token[c].val.code].presented = 1,
           r = "refused" =>
             \/ token[c].key < key
             \/ \E d \in Clients \ {c} :
                  token[c].val.challenge = Challenge(d),
           UNCHANGED <<srv, token, browser, key, codes>>
    PROVE  LoginIInv'
<1> USE DEF LoginIInv
<1>1. LoginTypeOK'
  BY DEF LoginTypeOK, Finished, Failed
<1>2. /\ pc'[c] = r /\ request'[c] = "none"
      /\ \A d \in Clients \ {c} :
           pc'[d] = pc[d] /\ request'[d] = request[d]
  BY DEF LoginTypeOK
<1>3. Pages' /\ Servers' /\ Requests'
  BY <1>2 DEF Pages, Servers, Requests
<1>4. SuccessIsOwn'
  BY <1>2 DEF SuccessIsOwn
<1>5. NoTokenMeansNoCallback'
  BY <1>2 DEF NoTokenMeansNoCallback
<1>6. RefusedForACause'
  BY <1>2 DEF RefusedForACause
<1> QED
  BY <1>1, <1>3, <1>4, <1>5, <1>6

(* Lemma: the confirm request of attempt c is answered, or breaks.         *)
LEMMA AnswerStep ==
    ASSUME LoginIInv, NEW c \in Clients,
           ProviderAnswers(c) \/ ConnectionFails(c)
    PROVE  LoginIInv'
<1> USE DEF LoginIInv
<1>1. CASE ProviderAnswers(c)
  <2>1. /\ request[c] = "exchange"
        /\ request' = [request EXCEPT ![c] = "none"]
        /\ UNCHANGED <<srv, token, browser, key, codes>>
    BY <1>1 DEF ProviderAnswers
  <2>2. codes[token[c].val.code].owner = Challenge(c)
    BY <2>1 DEF Requests, Issued
  <2>3. CASE codes[token[c].val.code].presented = 1
    <3>1. pc' = [pc EXCEPT ![c] = "done"]
      BY <1>1, <2>3 DEF ProviderAnswers
    <3> QED
      BY <2>1, <2>2, <2>3, <3>1, EndStep
  <2>4. CASE codes[token[c].val.code].presented # 1
    <3>1. pc' = [pc EXCEPT ![c] = "provider"]
      BY <1>1, <2>4 DEF ProviderAnswers
    <3> QED
      BY <2>1, <3>1, EndStep
  <2> QED
    BY <2>3, <2>4
<1>2. CASE ConnectionFails(c)
  <2>1. /\ request[c] # "none" /\ pc' = [pc EXCEPT ![c] = "network"]
        /\ request' = [request EXCEPT ![c] = "none"]
        /\ UNCHANGED <<srv, token, browser, key, codes>>
    BY <1>2 DEF ConnectionFails
  <2> QED
    BY <2>1, EndStep
<1> QED
  BY <1>1, <1>2

(* Lemma: the server opens the token of attempt c and presents its code,   *)
(* or refuses.  A code has one owner, so the other attempts that are done  *)
(* keep theirs as it was.                                                  *)
LEMMA ConfirmStep ==
    ASSUME LoginIInv, NEW c \in Clients, Confirm(c)
    PROVE  LoginIInv'
<1> USE DEF LoginIInv
<1>1. /\ request[c] = "sent" /\ pc[c] = "confirming"
      /\ Issued(token[c], key, codes)
      /\ UNCHANGED <<srv, token, browser, key>>
  BY DEF Confirm, Requests
<1>2. key \in Nat /\ codes \in Seq(Code) /\ Len(codes) \in Nat
  BY LenProperties DEF LoginTypeOK
<1>3. CASE ~(from_token("confirm", token[c])
              /\ Verify(c, token[c].val.challenge))
  <2>1. /\ request' = [request EXCEPT ![c] = "none"]
        /\ pc' = [pc EXCEPT ![c] = "refused"] /\ codes' = codes
    BY <1>3 DEF Confirm
  <2>2. /\ token[c].type = "confirm" /\ token[c].key \in Nat
        /\ token[c].key <= key /\ token[c].val.challenge \in Challenges
    BY <1>1 DEF Issued, Token
  <2>3. \/ token[c].key < key
        \/ \E d \in Clients \ {c} : token[c].val.challenge = Challenge(d)
    <3>1. CASE token[c].key # key
      <4>1. token[c].key < key
        BY <1>2, <2>2, <3>1
      <4> QED
        BY <4>1
    <3>2. CASE token[c].val.challenge # Challenge(c)
      BY <2>2, <3>2 DEF Challenges
    <3> QED
      BY <1>3, <2>2, <3>1, <3>2 DEF from_token, Verify
  <2> QED
    BY <1>1, <2>1, <2>3, EndStep
<1>4. CASE from_token("confirm", token[c])
              /\ Verify(c, token[c].val.challenge)
  <2> DEFINE k == token[c].val.code
             e == [codes[k] EXCEPT !.presented = @ + 1]
  <2>1. /\ request' = [request EXCEPT ![c] = "exchange"]
        /\ codes' = [codes EXCEPT ![k] = e] /\ pc' = pc
    BY <1>4 DEF Confirm
  <2>2. /\ k \in 1..Len(codes) /\ codes[k].owner = Challenge(c)
        /\ token[c].val.challenge = Challenge(c)
    BY <1>1, <1>4 DEF Issued, Verify
  <2>3. codes[k] \in Code
    BY <1>2, <2>2
  <2>4. e \in Code /\ e.owner = codes[k].owner
    BY <2>3 DEF Code
  <2> HIDE DEF k, e
  <2>5. /\ codes' \in Seq(Code) /\ Len(codes') = Len(codes)
        /\ \A i \in 1..Len(codes) :
             codes'[i] = IF i = k THEN e ELSE codes[i]
    BY <1>2, <2>1, <2>2, <2>4, ExceptSeq
  <2>6. Len(codes) <= Len(codes') /\ key <= key
    BY <1>2, <2>5
  <2>7. \A i \in 1..Len(codes) : codes'[i].owner = codes[i].owner
    BY <2>4, <2>5
  <2>8. PICK ds : ds = codes'
    OBVIOUS
  <2>9. /\ \A t : Issued(t, key, codes) => Issued(t, key, ds)
        /\ \A u : PageOk(u, key, codes) => PageOk(u, key, ds)
        /\ \A s : ServerOk(s, key, codes) => ServerOk(s, key, ds)
    BY <1>2, <2>5, <2>6, <2>7, <2>8, IssuedStays
  <2>10. /\ request'[c] = "exchange"
         /\ \A d \in Clients \ {c} : request'[d] = request[d]
    BY <2>1 DEF LoginTypeOK
  <2>11. LoginTypeOK'
    BY <1>1, <2>1, <2>5 DEF LoginTypeOK
  <2>12. Pages'
    BY <1>1, <2>8, <2>9 DEF Pages
  <2>13. Servers'
    BY <1>1, <2>1, <2>8, <2>9 DEF Servers
  <2>14. Requests'
    BY <1>1, <2>1, <2>2, <2>8, <2>9, <2>10 DEF Requests
  <2>15. SuccessIsOwn'
    <3> SUFFICES ASSUME NEW d \in Clients, pc[d] = "done"
                 PROVE  /\ codes'[token[d].val.code].owner = Challenge(d)
                        /\ codes'[token[d].val.code].presented = 1
      BY <1>1, <2>1 DEF SuccessIsOwn
    <3>1. /\ token[d].val.code \in 1..Len(codes)
          /\ codes[token[d].val.code].owner = Challenge(d)
          /\ codes[token[d].val.code].presented = 1
      BY DEF SuccessIsOwn, Requests, Issued
    <3>2. Challenge(c) # Challenge(d)
      BY <1>1, ChallengeInjective
    <3>3. token[d].val.code # k
      BY <2>2, <3>1, <3>2
    <3> QED
      BY <2>5, <3>1, <3>3
  <2>16. NoTokenMeansNoCallback' /\ RefusedForACause'
    BY <1>1, <2>1 DEF NoTokenMeansNoCallback, RefusedForACause
  <2> QED
    BY <2>11, <2>12, <2>13, <2>14, <2>15, <2>16
<1> QED
  BY <1>3, <1>4

(* Lemma: the server is replaced by a process with another key.            *)
LEMMA RestartStep == ASSUME LoginIInv, Restart PROVE LoginIInv'
<1> USE DEF LoginIInv
<1>1. key \in Nat /\ codes \in Seq(Code)
  BY DEF LoginTypeOK
<1>2. /\ key' = key + 1 /\ UNCHANGED <<srv, token, browser, codes>>
      /\ pc' = [c \in Clients |->
                  IF request[c] = "none" THEN pc[c] ELSE "network"]
      /\ request' = [c \in Clients |-> "none"]
  BY DEF Restart
<1>3. key' \in Nat /\ key <= key'
  BY <1>1, <1>2
<1>4. /\ Len(codes) <= Len(codes)
      /\ \A i \in 1..Len(codes) : codes[i].owner = codes[i].owner
  BY <1>1, LenProperties
<1>5. PICK k : k = key'
  OBVIOUS
<1>6. /\ \A t : Issued(t, key, codes) => Issued(t, k, codes)
      /\ \A u : PageOk(u, key, codes) => PageOk(u, k, codes)
      /\ \A s : ServerOk(s, key, codes) => ServerOk(s, k, codes)
  BY <1>1, <1>3, <1>4, <1>5, IssuedStays
<1>7. LoginTypeOK'
  BY <1>2, <1>3 DEF LoginTypeOK, Finished, Failed
<1>8. \A c \in Clients : /\ request'[c] = "none"
                         /\ pc'[c] = pc[c] \/ pc'[c] = "network"
  BY <1>2
<1>9. Pages' /\ Servers' /\ Requests'
  BY <1>2, <1>5, <1>6, <1>8 DEF Pages, Servers, Requests
<1>10. SuccessIsOwn' /\ NoTokenMeansNoCallback'
  BY <1>2, <1>8 DEF SuccessIsOwn, NoTokenMeansNoCallback
<1>11. RefusedForACause'
  <2>1. ASSUME NEW c \in Clients, pc'[c] = "refused"
        PROVE  token[c].key \in Nat /\
                 (token[c].key < key => token[c].key < key')
    <3>1. Issued(token[c], key, codes)
      BY <1>8, <2>1 DEF Requests
    <3>2. token[c].key \in Nat
      BY <3>1 DEF Issued, Token
    <3> QED
      BY <1>1, <1>2, <3>2
  <2> QED
    BY <1>2, <1>8, <2>1 DEF RefusedForACause
<1> QED
  BY <1>7, <1>9, <1>10, <1>11

(* Lemma: no step breaks the invariant.                                    *)
LEMMA LoginStep == LoginIInv /\ [Next]_vars => LoginIInv'
<1> SUFFICES ASSUME LoginIInv, [Next]_vars PROVE LoginIInv'
  OBVIOUS
<1>1. ASSUME NEW c \in Clients, Client(c) PROVE LoginIInv'
  BY <1>1, StartStep, ServeStep, TokenStep, ConfirmStep, AnswerStep
     DEF Client
<1>2. ASSUME NEW q \in browser, Browse(q) PROVE LoginIInv'
  BY <1>2, BrowseStep
<1>3. CASE UNCHANGED vars
  BY <1>3 DEF vars, LoginIInv, LoginTypeOK, Pages, Servers, Requests,
         SuccessIsOwn, NoTokenMeansNoCallback, RefusedForACause
<1> QED
  BY <1>1, <1>2, <1>3, RestartStep DEF Next

----------------------------------------------------------------------------
(* The invariant holds in every behaviour of the login.                    *)
THEOREM LoginInvariant == Spec => []LoginIInv
BY LoginInitIInv, LoginStep, PTL DEF Spec

(* However many attempts, tabs, ports and restarts there are, an attempt   *)
(* that succeeds had a code exchanged that was issued for its own request  *)
(* and presented once.                                                     *)
THEOREM SuccessIsOwnThm == Spec => []SuccessIsOwn
<1>1. LoginIInv => SuccessIsOwn
  BY DEF LoginIInv
<1> QED
  BY <1>1, LoginInvariant, PTL

(* An attempt that reports DidNotGetToken is one whose local server got no *)
(* callback: the deadline loses no token.                                  *)
THEOREM NoTokenMeansNoCallbackThm == Spec => []NoTokenMeansNoCallback
<1>1. LoginIInv => NoTokenMeansNoCallback
  BY DEF LoginIInv
<1> QED
  BY <1>1, LoginInvariant, PTL

(* A confirmation is refused only for a token of another attempt or of an  *)
(* earlier process of the server.                                          *)
THEOREM RefusedForACauseThm == Spec => []RefusedForACause
<1>1. LoginIInv => RefusedForACause
  BY DEF LoginIInv
<1> QED
  BY <1>1, LoginInvariant, PTL
=============================================================================
