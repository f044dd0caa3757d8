------------------------------ MODULE WebProxy ------------------------------
(***************************************************************************)
(* adapter/webproxy/webproxy.go with core/secret: one name of the          *)
(* WebProxyProvider, its connection, and the goroutines that send requests *)
(* through it.  GetConnection looks twice, under the read and under the    *)
(* write lock.  The token of OAuth2 is looked at without the mutex, is     *)
(* refreshed under it, and is read once more without it.                   *)
(*                                                                         *)
(* A configuration is a record of the fields of WebProxyConfig, tls_key    *)
(* for the three of TLS.  A secret is "" (none), "text", "env" or "file"   *)
(* (a URI that is resolved), "missing" (one that is not), "empty" (a file  *)
(* without content).                                                       *)
(* Time is counted in units of which Margin are the five minutes a token   *)
(* is replaced ahead of its end.                                           *)
(***************************************************************************)
EXTENDS Integers, Sequences

CONSTANTS Clients,   \* goroutines
          Configs,   \* configurations the name may have
          Margin, Lifetimes, \* five minutes; what a token response may say
          MaxTime    \* bound: clock

ASSUME WebProxyAssumption ==
  Margin \in Nat /\ Lifetimes \subseteq Nat /\ MaxTime \in Nat /\ "none" \notin Clients

VARIABLES
  cfg,        \* configuration of the name
  connection, \* connections[name]: index of its round tripper, or 0
  trippers,   \* the WebProxyRoundTrippers made: [token, expiresAt, holder]
  clock,
  issued,     \* history: the tokens stored, [at, until]
  req         \* per client: [pc, conn, relative, looked, token]

proxyVars == <<cfg, connection, trippers, clock, issued, req>>

NoToken  == [n |-> 0, at |-> 0, life |-> 0]
Torn     == [n |-> -1, at |-> 0, life |-> 0]
NoClient == "none"
NoRequest == [pc |-> "idle", conn |-> 0, relative |-> FALSE, looked |-> 0, token |-> NoToken]

ProxyInit ==
  /\ cfg \in Configs
  /\ connection = 0 /\ trippers = <<>> /\ clock = 0 /\ issued = <<>>
  /\ req = [c \in Clients |-> NoRequest]

Step(c, pc) == req' = [req EXCEPT ![c] = [@ EXCEPT !.pc = pc]]

-----------------------------------------------------------------------------
(* Connections. *)

\* NewWebProxyProviderFromConfig keeps the types it knows.
Found == cfg.type \in {"HMAC", "OAUTH2", "APIKEY", "NONE", "TLS"}

\* CompositeSecretResolver.Resolve with its two providers, and resolve.
Resolves(v) == v # "missing"
Secret(v) == IF v \in {"", "empty"} THEN "" ELSE "text"

\* NewWebProxyConnection
ConnectionBuilds ==
  /\ \A f \in {"private_key", "client_secret", "key", "tls_key"} : Resolves(cfg[f])
  /\ cfg.type = "HMAC" /\ Secret(cfg.private_key) # "" => cfg.rsa
  /\ cfg.type = "APIKEY" =>
       /\ Secret(cfg.key) # ""
       /\ cfg.placement \in {"query", "header"} => cfg.key_name # ""

\* GetConnection, the part under the read lock.
GetConnection(c) ==
  /\ req[c].pc = "get"
  /\ req' = [req EXCEPT ![c] = [@ EXCEPT !.conn = connection,
                                         !.pc = IF connection # 0 THEN "connected" ELSE "lock"]]
  /\ UNCHANGED <<cfg, connection, trippers, clock, issued>>

\* The part under the lock, without the second look.
MutCreateConnection(c) ==
  /\ req[c].pc = "lock"
  /\ IF Found /\ ConnectionBuilds
       THEN /\ trippers' = Append(trippers, [token |-> NoToken, expiresAt |-> 0, holder |-> NoClient])
            /\ connection' = Len(trippers')
            /\ req' = [req EXCEPT ![c] = [@ EXCEPT !.conn = connection', !.pc = "connected"]]
       ELSE Step(c, "failed") /\ UNCHANGED <<connection, trippers>>
  /\ UNCHANGED <<cfg, clock, issued>>

\* GetConnection, the part under the lock.
CreateConnection(c) ==
  /\ req[c].pc = "lock"
  /\ IF connection # 0
       THEN /\ req' = [req EXCEPT ![c] = [@ EXCEPT !.conn = connection, !.pc = "connected"]]
            /\ UNCHANGED <<connection, trippers>>
     ELSE IF Found /\ ConnectionBuilds
       THEN /\ trippers' = Append(trippers, [token |-> NoToken, expiresAt |-> 0, holder |-> NoClient])
            /\ connection' = Len(trippers')
            /\ req' = [req EXCEPT ![c] = [@ EXCEPT !.conn = connection', !.pc = "connected"]]
       ELSE Step(c, "failed") /\ UNCHANGED <<connection, trippers>>
  /\ UNCHANGED <<cfg, clock, issued>>

-----------------------------------------------------------------------------
(* RoundTrip *)

Tripper(c) == trippers[req[c].conn]

\* The URL is that of the endpoint, or what the caller has given, which needs a host.
Reaches(c) == cfg.api_endpoint = "url" \/ (cfg.api_endpoint = "" /\ ~req[c].relative)

\* What a type other than OAUTH2 needs.  No caller puts a signature payload into
\* the context.
Authorized ==
  \/ cfg.type \in {"NONE", "TLS"}
  \/ cfg.type = "APIKEY" /\ cfg.placement \in {"header", "query", "auth_header"}

\* RoundTrip up to the token, or to the request itself.
RoundTrip(c) ==
  /\ req[c].pc = "do"
  /\ Step(c, IF cfg.api_endpoint = "invalid" THEN "failed"
             ELSE IF cfg.type = "OAUTH2" THEN "look"
             ELSE IF Authorized /\ Reaches(c) THEN "sent" ELSE "failed")
  /\ UNCHANGED <<cfg, connection, trippers, clock, issued>>

\* t.oauth2Token == "", without the mutex.
LookAtToken(c) ==
  /\ req[c].pc = "look"
  /\ req' = [req EXCEPT ![c] = [@ EXCEPT !.looked = clock,
                !.pc = IF Tripper(c).token = NoToken THEN "refresh" ELSE "expiry"]]
  /\ UNCHANGED <<cfg, connection, trippers, clock, issued>>

\* time.Now().After(t.oauth2ExpiresAt.Add(-5*time.Minute)), without the mutex.
LookAtExpiry(c) ==
  /\ req[c].pc = "expiry"
  /\ req' = [req EXCEPT ![c] = [@ EXCEPT !.looked = clock,
                !.pc = IF clock > Tripper(c).expiresAt - Margin THEN "refresh" ELSE "use"]]
  /\ UNCHANGED <<cfg, connection, trippers, clock, issued>>

\* refreshOAuth2Token up to the request: another goroutine may have been here.
RefreshOAuth2Token(c) ==
  LET t == Tripper(c) IN
  /\ req[c].pc = "refresh" /\ t.holder = NoClient
  /\ IF t.token # NoToken /\ clock < t.expiresAt - Margin
       THEN Step(c, "use") /\ UNCHANGED trippers
     ELSE IF /\ cfg.grant_type = "client_credentials"
             /\ cfg.token_url # "" /\ cfg.client_id # "" /\ Secret(cfg.client_secret) # ""
       THEN /\ Step(c, "ask")
            /\ trippers' = [trippers EXCEPT ![req[c].conn] = [@ EXCEPT !.holder = c]]
       ELSE Step(c, "failed") /\ UNCHANGED trippers
  /\ UNCHANGED <<cfg, connection, clock, issued>>

\* The endpoint answers, with a token or not; the request may also end with its
\* context.
TokenAnswer(c) ==
  /\ req[c].pc = "ask"
  /\ \E l \in Lifetimes :
       req' = [req EXCEPT ![c] = [@ EXCEPT !.pc = "store",
                 !.token = [n |-> Len(issued) + 1, at |-> clock, life |-> l]]]
  /\ UNCHANGED <<cfg, connection, trippers, clock, issued>>

MutTokenRefused(c) ==
  /\ req[c].pc = "ask" /\ Step(c, "failed")
  /\ UNCHANGED <<cfg, connection, trippers, clock, issued>>

TokenRefused(c) ==
  /\ req[c].pc = "ask" /\ Step(c, "failed")
  /\ trippers' = [trippers EXCEPT ![req[c].conn] = [@ EXCEPT !.holder = NoClient]]
  /\ UNCHANGED <<cfg, connection, clock, issued>>

\* The two assignments in the other order.
MutStoreToken(c) ==
  /\ req[c].pc = "store" /\ Step(c, "storeExpiry")
  /\ trippers' = [trippers EXCEPT ![req[c].conn] = [@ EXCEPT !.expiresAt = clock + req[c].token.life]]
  /\ UNCHANGED <<cfg, connection, clock, issued>>

\* t.oauth2Token = tokenResponse.AccessToken
StoreToken(c) ==
  /\ req[c].pc = "store" /\ Step(c, "storeExpiry")
  /\ trippers' = [trippers EXCEPT ![req[c].conn] = [@ EXCEPT !.token = req[c].token]]
  /\ UNCHANGED <<cfg, connection, clock, issued>>

\* t.oauth2ExpiresAt = ..., and the mutex is given back.
StoreExpiry(c) ==
  /\ req[c].pc = "storeExpiry" /\ Step(c, "use")
  /\ trippers' = [trippers EXCEPT ![req[c].conn] =
                    [token |-> req[c].token, expiresAt |-> clock + req[c].token.life, holder |-> NoClient]]
  /\ issued' = Append(issued, [at |-> clock, until |-> clock + req[c].token.life])
  /\ UNCHANGED <<cfg, connection, clock>>

\* "Bearer " + t.oauth2Token, without the mutex: while another goroutine stores a
\* token the string may be torn, the pointer of one with the length of the other.
UseToken(c) ==
  /\ req[c].pc = "use"
  /\ \E torn \in BOOLEAN :
       /\ torn => \E d \in Clients : req[d].pc = "store" /\ req[d].conn = req[c].conn
       /\ req' = [req EXCEPT ![c] = [@ EXCEPT !.token = IF torn THEN Torn ELSE Tripper(c).token,
                                              !.pc = IF Reaches(c) THEN "sent" ELSE "failed"]]
  /\ UNCHANGED <<cfg, connection, trippers, clock, issued>>

\* Only the expiry of a token depends on time.
Tick ==
  /\ cfg.type = "OAUTH2" /\ clock < MaxTime /\ clock' = clock + 1
  /\ UNCHANGED <<cfg, connection, trippers, issued, req>>

Requesting(c) ==
  \/ GetConnection(c) \/ CreateConnection(c)
  \/ RoundTrip(c) \/ LookAtToken(c) \/ LookAtExpiry(c)
  \/ RefreshOAuth2Token(c) \/ TokenAnswer(c)
  \/ StoreToken(c) \/ StoreExpiry(c) \/ UseToken(c)

-----------------------------------------------------------------------------
\* A token is asked for once per lapse: whatever goroutines get the connection and
\* find its token missing or old at the same time, none replaces a token that has
\* more than five minutes left (GetConnection, refreshOAuth2Token).
OneTokenPerLapse ==
  \A i, j \in DOMAIN issued : i < j => issued[j].at >= issued[i].until - Margin

\* What a request carries was good for another five minutes when the request looked
\* at it, or was asked for since, although the token and its expiry are looked at
\* without the mutex (RoundTrip, the order of the assignments in
\* refreshOAuth2Token).
NoStaleToken ==
  \A c \in Clients :
    LET t == req[c].token IN
    req[c].pc = "sent" /\ req[c].conn # 0 /\ cfg.type = "OAUTH2" /\ t # Torn =>
      \/ t # NoToken /\ t.at >= req[c].looked
      \/ \E i \in DOMAIN issued : i = t.n /\ issued[i].until - Margin >= req[c].looked
=============================================================================
