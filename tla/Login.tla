------------------------------- MODULE Login -------------------------------
(***************************************************************************)
(* The OAuth login: the client that wants an access token                  *)
(* (crates/client/src/access_token.rs), the browser it opens, the minibot  *)
(* server's login, callback and confirm endpoints                          *)
(* (http_server/authn/endpoints.rs, handlers.rs) and the provider.         *)
(*                                                                         *)
(* The browser is a set of addresses its user may open, at any time and    *)
(* any number of times: reloads, old tabs and late answers come from it.   *)
(* A token of the store is the record it encrypts, with the process key    *)
(* it was encrypted under; a restart of the server makes a new key.        *)
(***************************************************************************)
EXTENDS Integers, Sequences, FiniteSets

CONSTANTS
    Clients,    \* login attempts
    Ports,      \* ports the operating system may hand to a client's server
    Strays,     \* login requests that no client made
    Scopes,     \* scope texts the provider may return: character codes
    MaxKeys,    \* bound: processes of the server, restarts included
    MaxCodes    \* bound: authorization codes the provider issues

VARIABLES
    pc,         \* pc[c]: where attempt c is; "refused" and the others after
                \* "done" are the ways it can fail
    srv,        \* srv[c]: the local server of attempt c
    token,      \* token[c]: the confirmation token c presents
    request,    \* request[c]: the confirm request of c inside the server
    browser,    \* addresses and pages in the user's browser
    key,        \* the server's encryption key, one per process
    codes       \* the provider's codes: whose, how often presented

vars == <<pc, srv, token, request, browser, key, codes>>

Failed == {"no_browser", "no_token", "refused", "provider", "network"}
Finished == Failed \cup {"done"}
None == [none |-> TRUE]

\* generate_pair and generate_challenge: a verifier is the attempt's own,
\* and its hash names it and nothing else.
Challenge(c) == [hash |-> c]
Verify(c, challenge) == Challenge(c) = challenge

LocalUri(p) == [scheme |-> "http", host |-> "127.0.0.1", port |-> p]
LoginQuery(m, uri, challenge) ==
    [at |-> "login", method |-> m, uri |-> uri, challenge |-> challenge]

NewServer(p) ==
    [port |-> p, accepting |-> TRUE, due |-> FALSE, sender |-> TRUE,
     finished |-> FALSE, handler |-> None, received |-> None]

Init ==
    /\ pc = [c \in Clients |-> "idle"]
    /\ srv = [c \in Clients |-> None]
    /\ token = [c \in Clients |-> None]
    /\ request = [c \in Clients |-> "none"]
    /\ browser = Strays
    /\ key = 1
    /\ codes = <<>>

----------------------------------------------------------------------------
(* The client. *)

Serving(c) == pc[c] = "serving"
FreePorts == Ports \ {srv[c].port : c \in {d \in Clients : Serving(d)}}

\* get_local_http_access_token up to server.await: the server is bound, and
\* the browser is asked to open the login address.
StartLocalHttp(c) ==
    /\ pc[c] = "idle"
    /\ \E p \in FreePorts :
         \/ /\ pc' = [pc EXCEPT ![c] = "serving"]
            /\ srv' = [srv EXCEPT ![c] = NewServer(p)]
            /\ browser' = browser \cup
                 {LoginQuery("local_http", LocalUri(p), Challenge(c))}
         \/ /\ pc' = [pc EXCEPT ![c] = "no_browser"]
            /\ UNCHANGED <<srv, browser>>
    /\ UNCHANGED <<token, request, key, codes>>

\* make_token_auth_url, then the user pastes a code shown on some page.
StartToken(c) ==
    /\ pc[c] = "idle"
    /\ pc' = [pc EXCEPT ![c] = "pasting"]
    /\ browser' = browser \cup {LoginQuery("token", None, Challenge(c))}
    /\ UNCHANGED <<srv, token, request, key, codes>>

Paste(c) ==
    /\ pc[c] = "pasting"
    /\ \E page \in browser :
         /\ page.at = "page"
         /\ token' = [token EXCEPT ![c] = page.token]
    /\ pc' = [pc EXCEPT ![c] = "confirming"]
    /\ request' = [request EXCEPT ![c] = "sent"]
    /\ UNCHANGED <<srv, browser, key, codes>>

\* server_route: the first callback takes both senders and signals that it
\* is finished; the others are only answered.
LocalCallback(c) ==
    /\ Serving(c) /\ srv[c].accepting /\ srv[c].sender
    /\ \E u \in browser :
         /\ u.at = "local" /\ u.port = srv[c].port
         /\ srv' = [srv EXCEPT ![c].sender = FALSE, ![c].finished = TRUE,
                               ![c].handler = u.token]
    /\ UNCHANGED <<pc, token, request, browser, key, codes>>

\* The same handler then sends the token and answers the browser.
HandlerSends(c) ==
    /\ Serving(c) /\ srv[c].handler # None
    /\ srv' = [srv EXCEPT ![c].handler = None,
                          ![c].received = srv[c].handler]
    /\ UNCHANGED <<pc, token, request, browser, key, codes>>

Deadline(c) ==
    /\ Serving(c) /\ ~srv[c].due
    /\ srv' = [srv EXCEPT ![c].due = TRUE]
    /\ UNCHANGED <<pc, token, request, browser, key, codes>>

\* Mutant: only a callback stops the server.
ShutdownWhenFinished(c) ==
    /\ Serving(c) /\ srv[c].accepting /\ srv[c].finished
    /\ srv' = [srv EXCEPT ![c].accepting = FALSE]
    /\ UNCHANGED <<pc, token, request, browser, key, codes>>

\* run_server: the shutdown future ends on the deadline or on a callback.
Shutdown(c) ==
    /\ Serving(c) /\ srv[c].accepting /\ (srv[c].due \/ srv[c].finished)
    /\ srv' = [srv EXCEPT ![c].accepting = FALSE]
    /\ UNCHANGED <<pc, token, request, browser, key, codes>>

\* Mutant: the server is dropped without waiting for its connections.
ServerStopsAtOnce(c) ==
    /\ Serving(c) /\ ~srv[c].accepting
    /\ token' = [token EXCEPT ![c] = srv[c].received]
    /\ pc' = [pc EXCEPT ![c] = IF srv[c].received = None THEN "no_token"
                               ELSE "confirming"]
    /\ request' = [request EXCEPT ![c] =
                     IF srv[c].received = None THEN "none" ELSE "sent"]
    /\ UNCHANGED <<srv, browser, key, codes>>

\* server_future ends once its connections have; the token, if one came, is
\* then exchanged by exchange_confirm_token.
ServerStops(c) ==
    /\ Serving(c) /\ ~srv[c].accepting /\ srv[c].handler = None
    /\ token' = [token EXCEPT ![c] = srv[c].received]
    /\ pc' = [pc EXCEPT ![c] = IF srv[c].received = None THEN "no_token"
                               ELSE "confirming"]
    /\ request' = [request EXCEPT ![c] =
                     IF srv[c].received = None THEN "none" ELSE "sent"]
    /\ UNCHANGED <<srv, browser, key, codes>>

----------------------------------------------------------------------------
(* The minibot server. *)

\* TokenStoreHandle over the Fernet store: stateless, one key per process,
\* and the type of the value checked when it is read.
to_token(type, val) == [key |-> key, type |-> type, val |-> val]
from_token(type, t) == t.key = key /\ t.type = type

\* The query must name a method with exactly its fields.
QueryOk(q) ==
    \/ q.method = "local_http" /\ q.uri # None
    \/ q.method = "token" /\ q.uri = None

\* handle_start_auth_request: a local redirect goes to this machine.
RedirectOk(q) ==
    q.method = "local_http" =>
        q.uri.scheme = "http" /\ q.uri.host \in {"127.0.0.1", "[::1]"}

\* A stray request is refused, or repeats the challenge of an attempt.
ASSUME LoginAssumption ==
    \A q \in Strays :
        /\ q.at = "login"
        /\ QueryOk(q) /\ RedirectOk(q) =>
             \E c \in Clients : q.challenge = Challenge(c)

create_oauth_code_request_url(t) == [at |-> "provider", state |-> t]

\* login_handler: an error changes nothing.  Otherwise the redirect
\* to the provider carries the request, sealed.
Login(q) ==
    /\ q.at = "login" /\ QueryOk(q) /\ RedirectOk(q)
    /\ browser' = browser \cup
         {create_oauth_code_request_url(
            to_token("request", [method |-> q.method, uri |-> q.uri,
                                 challenge |-> q.challenge]))}
    /\ UNCHANGED <<pc, srv, token, request, key, codes>>

ValidChar(ch) ==
    ch = 33 \/ (ch >= 35 /\ ch < 91) \/ (ch >= 93 /\ ch < 126)

\* OAuthScopeList::deserialize: words of valid characters, separated by one
\* space (32) each; the empty text is the empty list.
ScopeListOk(text) ==
    text = <<>> \/
        /\ \A i \in DOMAIN text : text[i] = 32 \/ ValidChar(text[i])
        /\ text[1] # 32 /\ text[Len(text)] # 32
        /\ \A i \in 1..(Len(text) - 1) : ~(text[i] = 32 /\ text[i + 1] = 32)

\* Mutant: the challenge is bound when the token is first stored, so the
\* confirmation carries none.
CallbackUnbound(q) ==
    /\ q.at = "callback"
    /\ ScopeListOk(q.scope) /\ from_token("request", q.state)
    /\ LET info == q.state.val
           t == to_token("confirm", [code |-> q.code, challenge |-> None])
       IN  browser' = browser \cup
             {IF info.method = "local_http"
              THEN [at |-> "local", port |-> info.uri.port, token |-> t]
              ELSE [at |-> "page", token |-> t]}
    /\ UNCHANGED <<pc, srv, token, request, key, codes>>

\* callback_handler: the provider's code and the challenge of the request
\* become the confirmation token, for the local server or the page.  A
\* scope that does not parse, or a state this process cannot open, is an
\* error response and changes nothing.
Callback(q) ==
    /\ q.at = "callback"
    /\ ScopeListOk(q.scope) /\ from_token("request", q.state)
    /\ LET info == q.state.val
           t == to_token("confirm",
                         [code |-> q.code, challenge |-> info.challenge])
       IN  browser' = browser \cup
             {IF info.method = "local_http"
              THEN [at |-> "local", port |-> info.uri.port, token |-> t]
              ELSE [at |-> "page", token |-> t]}
    /\ UNCHANGED <<pc, srv, token, request, key, codes>>

\* Mutant: the verifier is not checked.
ConfirmUnverified(c) ==
    /\ request[c] = "sent"
    /\ LET t == token[c]
       IN  IF from_token("confirm", t)
           THEN /\ request' = [request EXCEPT ![c] = "exchange"]
                /\ codes' = [codes EXCEPT ![t.val.code].presented = @ + 1]
                /\ UNCHANGED pc
           ELSE /\ request' = [request EXCEPT ![c] = "none"]
                /\ pc' = [pc EXCEPT ![c] = "refused"]
                /\ UNCHANGED codes
    /\ UNCHANGED <<srv, token, browser, key>>

\* confirm_handler up to exchange_code: the token is opened, the verifier
\* checked against it, and the code presented to the provider.
Confirm(c) ==
    /\ request[c] = "sent"
    /\ LET t == token[c]
       IN  IF from_token("confirm", t) /\ Verify(c, t.val.challenge)
           THEN /\ request' = [request EXCEPT ![c] = "exchange"]
                /\ codes' = [codes EXCEPT ![t.val.code].presented = @ + 1]
                /\ UNCHANGED pc
           ELSE /\ request' = [request EXCEPT ![c] = "none"]
                /\ pc' = [pc EXCEPT ![c] = "refused"]
                /\ UNCHANGED codes
    /\ UNCHANGED <<srv, token, browser, key>>

\* The process is replaced: the requests in it are lost, and so are, with
\* the key, the tokens it made.
Restart ==
    /\ key < MaxKeys
    /\ key' = key + 1
    /\ pc' = [c \in Clients |->
                IF request[c] = "none" THEN pc[c] ELSE "network"]
    /\ request' = [c \in Clients |-> "none"]
    /\ UNCHANGED <<srv, token, browser, codes>>

----------------------------------------------------------------------------
(* The provider, and the connection to the server. *)

\* The user consents: a fresh code for the state that the page was opened
\* with, and a scope text.
Authorize(q) ==
    /\ q.at = "provider" /\ Len(codes) < MaxCodes
    /\ codes' = Append(codes, [owner |-> q.state.val.challenge,
                               presented |-> 0])
    /\ \E s \in Scopes :
         browser' = browser \cup
           {[at |-> "callback", code |-> Len(codes) + 1, scope |-> s,
             state |-> q.state]}
    /\ UNCHANGED <<pc, srv, token, request, key>>

\* TwitchTokenImpl::exchange_code: a code is good once.
ProviderAnswers(c) ==
    /\ request[c] = "exchange"
    /\ request' = [request EXCEPT ![c] = "none"]
    /\ pc' = [pc EXCEPT ![c] =
                IF codes[token[c].val.code].presented = 1 THEN "done"
                ELSE "provider"]
    /\ UNCHANGED <<srv, token, browser, key, codes>>

ConnectionFails(c) ==
    /\ request[c] # "none"
    /\ request' = [request EXCEPT ![c] = "none"]
    /\ pc' = [pc EXCEPT ![c] = "network"]
    /\ UNCHANGED <<srv, token, browser, key, codes>>

----------------------------------------------------------------------------
Client(c) ==
    \/ StartLocalHttp(c) \/ StartToken(c) \/ Paste(c)
    \/ LocalCallback(c) \/ HandlerSends(c) \/ Deadline(c)
    \/ Shutdown(c) \/ ServerStops(c)
    \/ Confirm(c) \/ ProviderAnswers(c) \/ ConnectionFails(c)

Browse(q) == Login(q) \/ Callback(q) \/ Authorize(q)

Next ==
    \/ \E c \in Clients : Client(c)
    \/ \E q \in browser : Browse(q)
    \/ Restart

\* The runtime polls its tasks and fires its timers, and a request to the
\* server or the provider is answered or breaks.  The user need do nothing.
Fairness ==
    \A c \in Clients :
        /\ WF_vars(HandlerSends(c)) /\ WF_vars(Deadline(c))
        /\ WF_vars(Shutdown(c)) /\ WF_vars(ServerStops(c))
        /\ WF_vars(Confirm(c))
        /\ WF_vars(ProviderAnswers(c) \/ ConnectionFails(c))

Spec == Init /\ [][Next]_vars /\ Fairness

----------------------------------------------------------------------------
(* An attempt that succeeds had the provider exchange a code issued for    *)
(* its own request, and nobody else presented that code: whatever old      *)
(* tabs, reloads, reused ports or pasted codes the browser delivered, the  *)
(* proof key ties the confirmation to the attempt that began it.           *)
SuccessIsOwn ==
    \A c \in Clients : pc[c] = "done" =>
        LET code == codes[token[c].val.code]
        IN  code.owner = Challenge(c) /\ code.presented = 1

(* The deadline never loses a token: an attempt that ends without one      *)
(* (AuthnError::DidNotGetToken) is one whose server answered no callback,  *)
(* even when the deadline passes between the two sends of the handler.     *)
NoTokenMeansNoCallback ==
    \A c \in Clients : pc[c] = "no_token" => srv[c].sender

(* The server refuses a confirmation only for a cause: the token belongs   *)
(* to another attempt, or the server has restarted since it was made.      *)
RefusedForACause ==
    \A c \in Clients : pc[c] = "refused" =>
        \/ token[c].key < key
        \/ \E d \in Clients \ {c} : token[c].val.challenge = Challenge(d)

(* A local login ends, with a token or an error, whatever the user and the *)
(* browser do: its deadline stops the local server.                        *)
LocalLoginEnds ==
    \A c \in Clients : Serving(c) ~> pc[c] \in Finished
=============================================================================
