---------------------------- MODULE WeatherProofs ----------------------------
(***************************************************************************)
(* The web proxy and the steps that use it, proved for any clients,        *)
(* configurations, margin and lifetimes of tokens.  The proxy is proved    *)
(* for any caller that touches a request only before it is sent or after   *)
(* it is answered; the weather steps are shown to be such callers.         *)
(***************************************************************************)
EXTENDS WeatherStep, TLAPS

Tokens == [n : Int, at : Nat, life : Nat]
Trippers == [token : Tokens, expiresAt : Nat, holder : Clients \cup {NoClient}]
IssuedTokens == [at : Nat, until : Nat]
ReqLabels == {"idle", "get", "lock", "connected", "do", "look", "expiry", "refresh",
              "ask", "store", "storeExpiry", "use", "sent", "failed"}
Requests == [pc : ReqLabels, conn : {0, 1}, relative : BOOLEAN, looked : Nat, token : Tokens]

\* One connection is made, with one round tripper.
ProxyType ==
  /\ connection \in {0, 1} /\ trippers \in Seq(Trippers) /\ Len(trippers) = connection
  /\ clock \in Nat /\ issued \in Seq(IssuedTokens)
  /\ req \in [Clients -> Requests]

\* A request on its way through RoundTrip has a connection.
OnTheWay == {"do", "look", "expiry", "refresh", "ask", "store", "storeExpiry", "use"}
Connected ==
  \A c \in Clients : /\ req[c].conn # 0 => connection = 1
                     /\ req[c].pc \in OnTheWay => req[c].conn = 1

\* The mutex is held while a token is asked for and stored.
Refreshing == {"ask", "store", "storeExpiry"}
TokenHolder ==
  connection = 1 => \A c \in Clients : req[c].pc \in Refreshing <=> trippers[1].holder = c

\* The token is the last one issued, or about to be.
Storing == \E c \in Clients : req[c].pc = "storeExpiry"
LastToken ==
  /\ connection = 0 => issued = <<>>
  /\ connection = 1 =>
       /\ trippers[1].expiresAt = IF issued = <<>> THEN 0 ELSE issued[Len(issued)].until
       /\ ~Storing => trippers[1].token.n = Len(issued)
       /\ trippers[1].token = NoToken <=> trippers[1].token.n = 0
       /\ trippers[1].token.n >= 0
  /\ \A c \in Clients :
       /\ req[c].pc \in {"store", "storeExpiry"} => req[c].token.n = Len(issued) + 1
       /\ req[c].pc = "storeExpiry" => trippers[1].token = req[c].token

\* Whoever refreshes has found the token within five minutes of its end; what it
\* looked at is not ahead of the clock.
Lapsed ==
  /\ \A c \in Clients : /\ req[c].looked <= clock
                        /\ req[c].pc \in Refreshing => clock >= trippers[1].expiresAt - Margin
                        /\ req[c].pc \in {"store", "storeExpiry"} =>
                             /\ req[c].token.at >= trippers[1].expiresAt - Margin
                             /\ req[c].token.at >= req[c].looked /\ req[c].token.at <= clock
  /\ \A i \in DOMAIN issued : issued[i].at <= clock

\* A token that is good enough for a request that looked at time l.
Good(t, l) == \/ t # NoToken /\ t.at >= l
              \/ \E i \in DOMAIN issued : i = t.n /\ issued[i].until - Margin >= l
FreshUse ==
  \A c \in Clients : req[c].pc = "use" /\ cfg.type = "OAUTH2" =>
    /\ Good(trippers[1].token, req[c].looked)
    /\ \A d \in Clients : req[d].pc \in {"store", "storeExpiry"} => req[d].token.at >= req[c].looked

\* "expiry" is reached with a token in place.
Seen == \A c \in Clients : req[c].pc = "expiry" => trippers[1].token # NoToken

\* What a caller may do with a request: begin one, send it, take its answer, give
\* it up.  It sends through the connection it got, or not through the proxy.
AtRest == {"idle", "connected", "sent", "failed"}
Caller(c) ==
  /\ req[c].pc \in AtRest /\ UNCHANGED <<cfg, connection, trippers, clock, issued>>
  /\ \E r \in Requests :
       /\ req' = [req EXCEPT ![c] = r]
       /\ r.conn \in {0, req[c].conn} /\ r.looked \in {0, req[c].looked}
       /\ \/ r.pc \in {"idle", "connected", "failed", "get"}
          \/ r.pc = "do" /\ r.conn # 0
          \/ r.pc = "sent" /\ r.conn = 0

\* Next as the proxy sees it.
ProxyStep == \/ \E c \in Clients : Requesting(c) \/ TokenRefused(c) \/ Caller(c)
             \/ Tick

ProxyInv == ProxyType /\ Connected /\ TokenHolder /\ LastToken /\ Lapsed /\ FreshUse /\ Seen

-----------------------------------------------------------------------------
(* What each operation does to the request of its client and to the round  *)
(* tripper, field by field.                                                *)

ReqBecomes(c, l, k, v, t) ==
  /\ req' \in [Clients -> Requests] /\ \A d \in Clients : d # c => req'[d] = req[d]
  /\ req'[c].pc = l /\ req'[c].conn = k /\ req'[c].looked = v /\ req'[c].token = t
TripperBecomes(t, e, h) ==
  /\ trippers' \in Seq(Trippers) /\ Len(trippers') = 1
  /\ trippers'[1].token = t /\ trippers'[1].expiresAt = e /\ trippers'[1].holder = h

\* A request is replaced by another.
LEMMA ReqSet ==
  ASSUME ProxyType, NEW c \in Clients, NEW r \in Requests, req' = [req EXCEPT ![c] = r]
  PROVE  ReqBecomes(c, r.pc, r.conn, r.looked, r.token)
<1>1. req'[c] = r /\ \A d \in Clients : d # c => req'[d] = req[d]
  BY DEF ProxyType
<1>2. req' \in [Clients -> Requests]
  BY DEF ProxyType
<1> QED
  BY <1>1, <1>2 DEF ReqBecomes

\* Step only goes on.
LEMMA StepEffect ==
  ASSUME ProxyType, NEW c \in Clients, NEW l \in ReqLabels, Step(c, l)
  PROVE  ReqBecomes(c, l, req[c].conn, req[c].looked, req[c].token)
<1> DEFINE r == [req[c] EXCEPT !.pc = l]
<1>1. req[c] \in Requests
  BY DEF ProxyType
<1>2. /\ r \in Requests
      /\ r.pc = l /\ r.conn = req[c].conn /\ r.looked = req[c].looked /\ r.token = req[c].token
  BY <1>1 DEF Requests
<1>3. ReqBecomes(c, r.pc, r.conn, r.looked, r.token)
  BY <1>2, ReqSet DEF Step
<1> QED
  BY <1>2, <1>3

\* The parts of GetConnection.
LEMMA ConnEffect ==
  ASSUME ProxyType, NEW c \in Clients, NEW l \in ReqLabels, NEW k \in {0, 1},
         req' = [req EXCEPT ![c] = [@ EXCEPT !.conn = k, !.pc = l]]
  PROVE  ReqBecomes(c, l, k, req[c].looked, req[c].token)
<1> DEFINE r == [req[c] EXCEPT !.conn = k, !.pc = l]
<1>1. req[c] \in Requests
  BY DEF ProxyType
<1>2. /\ r \in Requests
      /\ r.pc = l /\ r.conn = k /\ r.looked = req[c].looked /\ r.token = req[c].token
  BY <1>1 DEF Requests
<1>3. ReqBecomes(c, r.pc, r.conn, r.looked, r.token)
  BY <1>2, ReqSet
<1> QED
  BY <1>2, <1>3

\* A look at the token or its expiry.
LEMMA LookEffect ==
  ASSUME ProxyType, NEW c \in Clients, NEW l \in ReqLabels,
         req' = [req EXCEPT ![c] = [@ EXCEPT !.looked = clock, !.pc = l]]
  PROVE  ReqBecomes(c, l, req[c].conn, clock, req[c].token)
<1> DEFINE r == [req[c] EXCEPT !.looked = clock, !.pc = l]
<1>1. req[c] \in Requests /\ clock \in Nat
  BY DEF ProxyType
<1>2. /\ r \in Requests
      /\ r.pc = l /\ r.conn = req[c].conn /\ r.looked = clock /\ r.token = req[c].token
  BY <1>1 DEF Requests
<1>3. ReqBecomes(c, r.pc, r.conn, r.looked, r.token)
  BY <1>2, ReqSet
<1> QED
  BY <1>2, <1>3

\* A request takes a token.
LEMMA TakeEffect ==
  ASSUME ProxyType, NEW c \in Clients, NEW l \in ReqLabels, NEW t \in Tokens,
         \/ req' = [req EXCEPT ![c] = [@ EXCEPT !.token = t, !.pc = l]]
         \/ req' = [req EXCEPT ![c] = [@ EXCEPT !.pc = l, !.token = t]]
  PROVE  ReqBecomes(c, l, req[c].conn, req[c].looked, t)
<1> DEFINE r == [req[c] EXCEPT !.token = t, !.pc = l]
<1>1. req[c] \in Requests
  BY DEF ProxyType
<1>2. /\ r \in Requests
      /\ r.pc = l /\ r.conn = req[c].conn /\ r.looked = req[c].looked /\ r.token = t
  BY <1>1 DEF Requests
<1>3. [req[c] EXCEPT !.pc = l, !.token = t] = r
  BY <1>1 DEF Requests
<1>4. req' = [req EXCEPT ![c] = r]
  BY <1>3
<1> HIDE DEF r
<1>5. ReqBecomes(c, r.pc, r.conn, r.looked, r.token)
  BY <1>2, <1>4, ReqSet
<1> QED
  BY <1>2, <1>5

\* Mutex and token of the one round tripper.
LEMMA TripperEffect ==
  ASSUME ProxyType, connection = 1, NEW x \in Trippers, trippers' = [trippers EXCEPT ![1] = x]
  PROVE  TripperBecomes(x.token, x.expiresAt, x.holder)
<1>0. trippers \in Seq(Trippers) /\ Len(trippers) = 1
  BY DEF ProxyType
<1>1. trippers' \in Seq(Trippers) /\ Len(trippers') = 1 /\ trippers'[1] = x
  BY <1>0
<1> QED
  BY <1>1 DEF TripperBecomes

\* The round tripper there is.
LEMMA TripperFacts ==
  ASSUME ProxyType, connection = 1
  PROVE  /\ trippers[1] \in Trippers /\ trippers[1].token \in Tokens
         /\ trippers[1].expiresAt \in Nat /\ trippers[1].holder \in Clients \cup {NoClient}
<1>0. trippers \in Seq(Trippers) /\ Len(trippers) = 1
  BY DEF ProxyType
<1>1. trippers[1] \in Trippers
  BY <1>0
<1> QED
  BY <1>1 DEF Trippers

\* The mutex is taken or given back.
LEMMA HolderEffect ==
  ASSUME ProxyType, connection = 1, NEW h \in Clients \cup {NoClient},
         trippers' = [trippers EXCEPT ![1] = [@ EXCEPT !.holder = h]]
  PROVE  TripperBecomes(trippers[1].token, trippers[1].expiresAt, h)
<1> DEFINE x == [trippers[1] EXCEPT !.holder = h]
<1>1. x \in Trippers /\ x.token = trippers[1].token /\ x.expiresAt = trippers[1].expiresAt /\ x.holder = h
  BY TripperFacts DEF Trippers
<1>2. trippers' = [trippers EXCEPT ![1] = x]
  OBVIOUS
<1> HIDE DEF x
<1>3. TripperBecomes(x.token, x.expiresAt, x.holder)
  BY <1>1, <1>2, TripperEffect
<1> QED
  BY <1>1, <1>3

\* The token is stored.
LEMMA TokenEffect ==
  ASSUME ProxyType, connection = 1, NEW t \in Tokens,
         trippers' = [trippers EXCEPT ![1] = [@ EXCEPT !.token = t]]
  PROVE  TripperBecomes(t, trippers[1].expiresAt, trippers[1].holder)
<1> DEFINE x == [trippers[1] EXCEPT !.token = t]
<1>1. x \in Trippers /\ x.token = t /\ x.expiresAt = trippers[1].expiresAt /\ x.holder = trippers[1].holder
  BY TripperFacts DEF Trippers
<1>2. trippers' = [trippers EXCEPT ![1] = x]
  OBVIOUS
<1> HIDE DEF x
<1>3. TripperBecomes(x.token, x.expiresAt, x.holder)
  BY <1>1, <1>2, TripperEffect
<1> QED
  BY <1>1, <1>3

\* Now the operations of Requesting, and TokenRefused.
LEMMA GetConnectionEffect ==
  ASSUME ProxyInv, NEW c \in Clients, GetConnection(c)
  PROVE  /\ ReqBecomes(c, IF connection # 0 THEN "connected" ELSE "lock", connection,
                       req[c].looked, req[c].token)
         /\ req[c].pc = "get" /\ UNCHANGED <<cfg, connection, trippers, clock, issued>>
<1>1. connection \in {0, 1} /\ (IF connection # 0 THEN "connected" ELSE "lock") \in ReqLabels
  BY DEF ProxyInv, ProxyType, ReqLabels
<1> QED
  BY <1>1, ConnEffect DEF ProxyInv, GetConnection

\* A second connection is not made.
LEMMA CreateConnectionEffect ==
  ASSUME ProxyInv, NEW c \in Clients, CreateConnection(c)
  PROVE  /\ req[c].pc = "lock" /\ UNCHANGED <<cfg, clock, issued>>
         /\ \/ /\ UNCHANGED <<connection, trippers>>
               /\ \/ /\ connection = 1
                     /\ ReqBecomes(c, "connected", 1, req[c].looked, req[c].token)
                  \/ ReqBecomes(c, "failed", req[c].conn, req[c].looked, req[c].token)
            \/ /\ connection = 0 /\ connection' = 1
               /\ ReqBecomes(c, "connected", 1, req[c].looked, req[c].token)
               /\ TripperBecomes(NoToken, 0, NoClient)
<1> DEFINE x == [token |-> NoToken, expiresAt |-> 0, holder |-> NoClient]
<1>1. ProxyType /\ connection \in {0, 1} /\ trippers \in Seq(Trippers) /\ Len(trippers) = connection
  BY DEF ProxyInv, ProxyType
<1>2. "connected" \in ReqLabels /\ "failed" \in ReqLabels
  BY DEF ReqLabels
<1>3. CASE /\ connection # 0 /\ UNCHANGED <<connection, trippers>>
           /\ req' = [req EXCEPT ![c] = [@ EXCEPT !.conn = connection, !.pc = "connected"]]
  BY <1>1, <1>2, <1>3, ConnEffect DEF CreateConnection
<1>4. CASE Step(c, "failed") /\ UNCHANGED <<connection, trippers>>
  BY <1>1, <1>2, <1>4, StepEffect DEF CreateConnection
<1>5. CASE /\ connection = 0 /\ trippers' = Append(trippers, x) /\ connection' = Len(trippers')
           /\ req' = [req EXCEPT ![c] = [@ EXCEPT !.conn = connection', !.pc = "connected"]]
  <2>1. x \in Trippers
    BY DEF Trippers, Tokens, NoToken, NoClient
  <2>2. trippers' \in Seq(Trippers) /\ Len(trippers') = 1 /\ trippers'[1] = x
    <3> HIDE DEF x
    <3> QED
      BY <1>1, <1>5, <2>1
  <2>3. TripperBecomes(NoToken, 0, NoClient)
    BY <2>2 DEF TripperBecomes
  <2>4. connection' = 1 /\ ReqBecomes(c, "connected", 1, req[c].looked, req[c].token)
    BY <1>1, <1>2, <1>5, <2>2, ConnEffect
  <2> QED
    BY <1>5, <2>3, <2>4 DEF CreateConnection
<1> QED
  BY <1>1, <1>3, <1>4, <1>5 DEF CreateConnection

\* RoundTrip reads the configuration only.
LEMMA RoundTripEffect ==
  ASSUME ProxyInv, NEW c \in Clients, RoundTrip(c)
  PROVE  /\ req[c].pc = "do" /\ UNCHANGED <<cfg, connection, trippers, clock, issued>>
         /\ \E l \in {"failed", "look", "sent"} :
              /\ ReqBecomes(c, l, req[c].conn, req[c].looked, req[c].token)
              /\ l = "sent" => cfg.type # "OAUTH2"
<1>1. PICK l \in {"failed", "look", "sent"} : Step(c, l) /\ (l = "sent" => cfg.type # "OAUTH2")
  BY DEF RoundTrip
<1>2. ProxyType /\ l \in ReqLabels
  BY DEF ReqLabels, ProxyInv
<1> QED
  BY <1>1, <1>2, StepEffect DEF RoundTrip

\* The first look without the mutex, at the token.
LEMMA LookAtTokenEffect ==
  ASSUME ProxyInv, NEW c \in Clients, LookAtToken(c)
  PROVE  /\ ReqBecomes(c, IF trippers[1].token = NoToken THEN "refresh" ELSE "expiry",
                       1, clock, req[c].token)
         /\ req[c].pc = "look" /\ req[c].conn = 1 /\ connection = 1
         /\ UNCHANGED <<cfg, connection, trippers, clock, issued>>
<1>1. ProxyType /\ req[c].conn = 1 /\ connection = 1
  BY DEF LookAtToken, ProxyInv, Connected, OnTheWay
<1>2. (IF trippers[1].token = NoToken THEN "refresh" ELSE "expiry") \in ReqLabels
  BY DEF ReqLabels
<1> QED
  BY <1>1, <1>2, LookEffect DEF LookAtToken, Tripper

\* The second look, at the expiry.
LEMMA LookAtExpiryEffect ==
  ASSUME ProxyInv, NEW c \in Clients, LookAtExpiry(c)
  PROVE  /\ ReqBecomes(c, IF clock > trippers[1].expiresAt - Margin THEN "refresh" ELSE "use",
                       1, clock, req[c].token)
         /\ req[c].pc = "expiry" /\ req[c].conn = 1 /\ connection = 1
         /\ UNCHANGED <<cfg, connection, trippers, clock, issued>>
<1>1. ProxyType /\ req[c].conn = 1 /\ connection = 1
  BY DEF LookAtExpiry, ProxyInv, Connected, OnTheWay
<1>2. (IF clock > trippers[1].expiresAt - Margin THEN "refresh" ELSE "use") \in ReqLabels
  BY DEF ReqLabels
<1> QED
  BY <1>1, <1>2, LookEffect DEF LookAtExpiry, Tripper

\* refreshOAuth2Token: the look under the mutex decides.
LEMMA RefreshEffect ==
  ASSUME ProxyInv, NEW c \in Clients, RefreshOAuth2Token(c)
  PROVE  /\ req[c].pc = "refresh" /\ req[c].conn = 1 /\ connection = 1
         /\ trippers[1].holder = NoClient /\ UNCHANGED <<cfg, connection, clock, issued>>
         /\ \/ /\ trippers[1].token # NoToken /\ clock < trippers[1].expiresAt - Margin
               /\ ReqBecomes(c, "use", 1, req[c].looked, req[c].token) /\ UNCHANGED trippers
            \/ /\ ~(trippers[1].token # NoToken /\ clock < trippers[1].expiresAt - Margin)
               /\ \/ /\ ReqBecomes(c, "ask", 1, req[c].looked, req[c].token)
                     /\ TripperBecomes(trippers[1].token, trippers[1].expiresAt, c)
                  \/ ReqBecomes(c, "failed", 1, req[c].looked, req[c].token) /\ UNCHANGED trippers
<1>0. req[c].pc = "refresh" /\ UNCHANGED <<cfg, connection, clock, issued>>
  BY DEF RefreshOAuth2Token
<1>1. ProxyType /\ req[c].conn = 1 /\ connection = 1
  BY <1>0 DEF ProxyInv, Connected, OnTheWay
<1>2. "use" \in ReqLabels /\ "ask" \in ReqLabels /\ "failed" \in ReqLabels
  BY DEF ReqLabels
<1> DEFINE kept == trippers[1].token # NoToken /\ clock < trippers[1].expiresAt - Margin
<1>3. /\ trippers[1].holder = NoClient
      /\ \/ kept /\ Step(c, "use") /\ UNCHANGED trippers
         \/ /\ ~kept /\ Step(c, "ask")
            /\ trippers' = [trippers EXCEPT ![1] = [@ EXCEPT !.holder = c]]
         \/ ~kept /\ Step(c, "failed") /\ UNCHANGED trippers
  BY <1>1 DEF RefreshOAuth2Token, Tripper
<1> HIDE DEF kept
<1>4. CASE kept /\ Step(c, "use") /\ UNCHANGED trippers
  BY <1>0, <1>1, <1>2, <1>3, <1>4, StepEffect DEF kept
<1>5. CASE ~kept /\ Step(c, "ask") /\ trippers' = [trippers EXCEPT ![1] = [@ EXCEPT !.holder = c]]
  <2>1. ReqBecomes(c, "ask", 1, req[c].looked, req[c].token)
    BY <1>1, <1>2, <1>5, StepEffect
  <2>2. TripperBecomes(trippers[1].token, trippers[1].expiresAt, c)
    BY <1>1, <1>5, HolderEffect
  <2> QED
    BY <1>0, <1>1, <1>3, <1>5, <2>1, <2>2 DEF kept
<1>6. CASE ~kept /\ Step(c, "failed") /\ UNCHANGED trippers
  BY <1>0, <1>1, <1>2, <1>3, <1>6, StepEffect DEF kept
<1> QED
  BY <1>3, <1>4, <1>5, <1>6

\* The endpoint answers.
LEMMA TokenAnswerEffect ==
  ASSUME ProxyInv, NEW c \in Clients, TokenAnswer(c)
  PROVE  /\ req[c].pc = "ask" /\ req[c].conn = 1 /\ connection = 1
         /\ UNCHANGED <<cfg, connection, trippers, clock, issued>>
         /\ \E t \in Tokens : /\ ReqBecomes(c, "store", 1, req[c].looked, t)
                              /\ t.n = Len(issued) + 1 /\ t.at = clock
<1>1. ProxyType /\ req[c].conn = 1 /\ connection = 1 /\ clock \in Nat /\ Len(issued) \in Nat
  BY DEF TokenAnswer, ProxyInv, ProxyType, Connected, OnTheWay
<1>2. PICK l \in Lifetimes :
        req' = [req EXCEPT ![c] = [@ EXCEPT !.pc = "store",
                  !.token = [n |-> Len(issued) + 1, at |-> clock, life |-> l]]]
  BY DEF TokenAnswer
<1> DEFINE t == [n |-> Len(issued) + 1, at |-> clock, life |-> l]
<1>3. t \in Tokens /\ t.n = Len(issued) + 1 /\ t.at = clock /\ "store" \in ReqLabels
  BY <1>1, WebProxyAssumption DEF Tokens, ReqLabels
<1>4. req' = [req EXCEPT ![c] = [@ EXCEPT !.pc = "store", !.token = t]]
  BY <1>2
<1> HIDE DEF t
<1>5. ReqBecomes(c, "store", 1, req[c].looked, t)
  BY <1>1, <1>3, <1>4, TakeEffect
<1> QED
  BY <1>1, <1>3, <1>5 DEF TokenAnswer

\* A refusal gives the mutex back.
LEMMA TokenRefusedEffect ==
  ASSUME ProxyInv, NEW c \in Clients, TokenRefused(c)
  PROVE  /\ req[c].pc = "ask" /\ req[c].conn = 1 /\ connection = 1
         /\ UNCHANGED <<cfg, connection, clock, issued>>
         /\ ReqBecomes(c, "failed", 1, req[c].looked, req[c].token)
         /\ TripperBecomes(trippers[1].token, trippers[1].expiresAt, NoClient)
<1>1. ProxyType /\ req[c].conn = 1 /\ connection = 1
  BY DEF TokenRefused, ProxyInv, Connected, OnTheWay
<1>2. "failed" \in ReqLabels
  BY DEF ReqLabels
<1> QED
  BY <1>1, <1>2, StepEffect, HolderEffect DEF TokenRefused

\* The token first,
LEMMA StoreTokenEffect ==
  ASSUME ProxyInv, NEW c \in Clients, StoreToken(c)
  PROVE  /\ req[c].pc = "store" /\ req[c].conn = 1 /\ connection = 1
         /\ UNCHANGED <<cfg, connection, clock, issued>>
         /\ ReqBecomes(c, "storeExpiry", 1, req[c].looked, req[c].token)
         /\ TripperBecomes(req[c].token, trippers[1].expiresAt, trippers[1].holder)
<1>1. ProxyType /\ req[c].conn = 1 /\ connection = 1
  BY DEF StoreToken, ProxyInv, Connected, OnTheWay
<1>2. "storeExpiry" \in ReqLabels /\ req[c].token \in Tokens
  BY <1>1 DEF ReqLabels, ProxyType, Requests
<1> QED
  BY <1>1, <1>2, StepEffect, TokenEffect DEF StoreToken

\* then the expiry, and the mutex is given back.
LEMMA StoreExpiryEffect ==
  ASSUME ProxyInv, NEW c \in Clients, StoreExpiry(c)
  PROVE  /\ req[c].pc = "storeExpiry" /\ req[c].conn = 1 /\ connection = 1
         /\ UNCHANGED <<cfg, connection, clock>>
         /\ ReqBecomes(c, "use", 1, req[c].looked, req[c].token)
         /\ \E u \in Nat :
              /\ TripperBecomes(req[c].token, u, NoClient)
              /\ issued' = Append(issued, [at |-> clock, until |-> u])
<1>1. ProxyType /\ req[c].conn = 1 /\ connection = 1 /\ clock \in Nat
  BY DEF StoreExpiry, ProxyInv, ProxyType, Connected, OnTheWay
<1>2. "use" \in ReqLabels /\ req[c].token \in Tokens
  BY <1>1 DEF ReqLabels, ProxyType, Requests
<1> DEFINE u == clock + req[c].token.life
           x == [token |-> req[c].token, expiresAt |-> u, holder |-> NoClient]
<1>3. u \in Nat
  BY <1>1, <1>2 DEF Tokens
<1>4. x \in Trippers /\ x.token = req[c].token /\ x.expiresAt = u /\ x.holder = NoClient
  BY <1>2, <1>3 DEF Trippers
<1>5. trippers' = [trippers EXCEPT ![1] = x] /\ issued' = Append(issued, [at |-> clock, until |-> u])
  BY <1>1 DEF StoreExpiry
<1> HIDE DEF x, u
<1>6. TripperBecomes(x.token, x.expiresAt, x.holder)
  BY <1>1, <1>4, <1>5, TripperEffect
<1>7. ReqBecomes(c, "use", 1, req[c].looked, req[c].token)
  BY <1>1, <1>2, StepEffect DEF StoreExpiry
<1> QED
  BY <1>1, <1>3, <1>4, <1>5, <1>6, <1>7 DEF StoreExpiry

\* RoundTrip reads the token once more.
LEMMA UseTokenEffect ==
  ASSUME ProxyInv, NEW c \in Clients, UseToken(c)
  PROVE  /\ req[c].pc = "use" /\ req[c].conn = 1 /\ connection = 1
         /\ UNCHANGED <<cfg, connection, trippers, clock, issued>>
         /\ \E l \in {"sent", "failed"}, t \in {Torn, trippers[1].token} :
              ReqBecomes(c, l, 1, req[c].looked, t)
<1>1. ProxyType /\ req[c].conn = 1 /\ connection = 1
  BY DEF UseToken, ProxyInv, Connected, OnTheWay
<1>2. PICK l \in {"sent", "failed"}, t \in {Torn, trippers[1].token} :
        req' = [req EXCEPT ![c] = [@ EXCEPT !.token = t, !.pc = l]]
  BY <1>1 DEF UseToken, Tripper
<1>3. l \in ReqLabels /\ t \in Tokens
  BY <1>1, TripperFacts DEF ReqLabels, Torn, Tokens
<1>4. ReqBecomes(c, l, 1, req[c].looked, t)
  BY <1>1, <1>2, <1>3, TakeEffect
<1> QED
  BY <1>1, <1>4 DEF UseToken

\* What a caller leaves of its request.
LEMMA CallerEffect ==
  ASSUME ProxyInv, NEW c \in Clients, Caller(c)
  PROVE  /\ req[c].pc \in AtRest /\ UNCHANGED <<cfg, connection, trippers, clock, issued>>
         /\ \E r \in Requests :
              /\ ReqBecomes(c, r.pc, r.conn, r.looked, r.token)
              /\ r.conn \in {0, req[c].conn} /\ r.looked \in {0, req[c].looked}
              /\ \/ r.pc \in {"idle", "connected", "failed", "get"}
                 \/ r.pc = "do" /\ r.conn # 0
                 \/ r.pc = "sent" /\ r.conn = 0
BY ReqSet DEF ProxyInv, Caller


-----------------------------------------------------------------------------
(* The steps as the round tripper sees them.  Most are quiet: a goroutine  *)
(* without the mutex goes on with its own request.                         *)

Others(c) == /\ req' \in [Clients -> Requests]
             /\ \A d \in Clients : d # c => req'[d] = req[d]

Quiet(c) ==
  /\ UNCHANGED <<cfg, connection, trippers, clock, issued>> /\ Others(c)
  /\ req[c].pc \notin Refreshing /\ req'[c].pc \notin Refreshing
  /\ req'[c].looked <= clock /\ req'[c].conn \in {0, connection}
  /\ req'[c].pc \in OnTheWay => req'[c].conn = 1
  /\ req'[c].pc = "expiry" => trippers[1].token # NoToken
  /\ req'[c].pc = "use" =>
       trippers[1].token # NoToken /\ req'[c].looked <= trippers[1].expiresAt - Margin
  /\ req'[c].pc = "sent" /\ req'[c].conn # 0 /\ cfg.type = "OAUTH2" =>
       req'[c].token = Torn \/ Good(req'[c].token, req'[c].looked)

\* The first connection.
Connects(c) ==
  /\ connection = 0 /\ connection' = 1 /\ UNCHANGED <<cfg, clock, issued>> /\ Others(c)
  /\ TripperBecomes(NoToken, 0, NoClient)
  /\ req'[c].pc = "connected" /\ req'[c].looked = req[c].looked

\* The mutex is taken, with the token missing or old.
Asks(c) ==
  /\ connection = 1 /\ trippers[1].holder = NoClient
  /\ trippers[1].token # NoToken => clock >= trippers[1].expiresAt - Margin
  /\ UNCHANGED <<cfg, connection, clock, issued>>
  /\ req[c].pc = "refresh" /\ ReqBecomes(c, "ask", 1, req[c].looked, req[c].token)
  /\ TripperBecomes(trippers[1].token, trippers[1].expiresAt, c)

\* The bounds of a request's fields.
LEMMA RequestFacts ==
  ASSUME ProxyType, NEW d \in Clients
  PROVE  /\ req[d] \in Requests /\ req[d].pc \in ReqLabels /\ req[d].conn \in {0, 1}
         /\ req[d].looked \in Nat /\ req[d].token \in Tokens
         /\ req[d].token.n \in Int /\ req[d].token.at \in Nat
<1>1. req[d] \in Requests
  BY DEF ProxyType
<1>2. req[d].pc \in ReqLabels /\ req[d].conn \in {0, 1} /\ req[d].looked \in Nat /\ req[d].token \in Tokens
  BY <1>1 DEF Requests
<1> QED
  BY <1>1, <1>2 DEF Tokens

\* The steps that leave the round tripper alone are quiet.
LEMMA QuietSteps ==
  ASSUME ProxyInv, NEW c \in Clients,
         \/ GetConnection(c) \/ RoundTrip(c) \/ LookAtToken(c) \/ LookAtExpiry(c)
         \/ UseToken(c) \/ Caller(c)
  PROVE  Quiet(c)
<1>0. ProxyType /\ connection \in {0, 1} /\ clock \in Nat
  BY DEF ProxyInv, ProxyType
<1>1. /\ req[c].looked <= clock /\ req[c].conn \in {0, connection}
      /\ req[c].looked \in Nat
      /\ req[c].pc \in OnTheWay => req[c].conn = 1
  BY <1>0, RequestFacts DEF ProxyInv, Connected, Lapsed
<1>2. CASE GetConnection(c)
  BY <1>0, <1>1, <1>2, GetConnectionEffect DEF Quiet, Others, ReqBecomes, Refreshing, OnTheWay
<1>3. CASE RoundTrip(c)
  <2>1. req[c].pc = "do" /\ UNCHANGED <<cfg, connection, trippers, clock, issued>>
    BY <1>3, RoundTripEffect
  <2>2. PICK l \in {"failed", "look", "sent"} :
          /\ ReqBecomes(c, l, req[c].conn, req[c].looked, req[c].token)
          /\ l = "sent" => cfg.type # "OAUTH2"
    BY <1>3, RoundTripEffect
  <2> QED
    BY <1>0, <1>1, <2>1, <2>2 DEF Quiet, Others, ReqBecomes, Refreshing, OnTheWay
<1>4. CASE LookAtToken(c)
  BY <1>0, <1>1, <1>4, LookAtTokenEffect DEF Quiet, Others, ReqBecomes, Refreshing, OnTheWay
<1>5. CASE LookAtExpiry(c)
  <2>1. trippers[1].token # NoToken
    BY <1>5, LookAtExpiryEffect DEF ProxyInv, Seen
  <2>2. connection = 1 /\ trippers[1].expiresAt \in Nat /\ Margin \in Nat
    BY <1>0, <1>5, LookAtExpiryEffect, TripperFacts, WebProxyAssumption
  <2> QED
    BY <1>0, <1>1, <1>5, <2>1, <2>2, LookAtExpiryEffect
    DEF Quiet, Others, ReqBecomes, Refreshing, OnTheWay
<1>6. CASE UseToken(c)
  <2>1. /\ req[c].pc = "use" /\ connection = 1 /\ UNCHANGED <<cfg, connection, trippers, clock, issued>>
    BY <1>6, UseTokenEffect
  <2>2. PICK l \in {"sent", "failed"}, t \in {Torn, trippers[1].token} :
          ReqBecomes(c, l, 1, req[c].looked, t)
    BY <1>6, UseTokenEffect
  <2>3. cfg.type = "OAUTH2" => t = Torn \/ Good(t, req[c].looked)
    BY <2>1 DEF ProxyInv, FreshUse
  <2> QED
    BY <1>0, <1>1, <2>1, <2>2, <2>3 DEF Quiet, Others, ReqBecomes, Refreshing, OnTheWay
<1>7. CASE Caller(c)
  <2>1. req[c].pc \in AtRest /\ UNCHANGED <<cfg, connection, trippers, clock, issued>>
    BY <1>7, CallerEffect
  <2>2. PICK r \in Requests :
              /\ ReqBecomes(c, r.pc, r.conn, r.looked, r.token)
              /\ r.conn \in {0, req[c].conn} /\ r.looked \in {0, req[c].looked}
              /\ \/ r.pc \in {"idle", "connected", "failed", "get"}
                 \/ r.pc = "do" /\ r.conn # 0
                 \/ r.pc = "sent" /\ r.conn = 0
    BY <1>7, CallerEffect
  <2>3. r.looked <= clock /\ r.conn \in {0, connection} /\ r.conn \in {0, 1}
    BY <1>0, <1>1, <2>2 DEF Requests
  <2> QED
    BY <1>0, <2>1, <2>2, <2>3 DEF Quiet, Others, ReqBecomes, Refreshing, OnTheWay, AtRest
<1> QED
  BY <1>2, <1>3, <1>4, <1>5, <1>6, <1>7

\* A connection is made or found.
LEMMA CreateConnectionKinds ==
  ASSUME ProxyInv, NEW c \in Clients, CreateConnection(c)
  PROVE  Quiet(c) \/ Connects(c)
<1>0. ProxyType /\ connection \in {0, 1} /\ clock \in Nat
  BY DEF ProxyInv, ProxyType
<1>1. req[c].looked <= clock /\ req[c].conn \in {0, connection} /\ req[c].looked \in Nat
  BY <1>0, RequestFacts DEF ProxyInv, Connected, Lapsed
<1> QED
  BY <1>0, <1>1, CreateConnectionEffect
  DEF Quiet, Connects, Others, ReqBecomes, Refreshing, OnTheWay

\* refreshOAuth2Token finds a good token, gives up, or asks.
LEMMA RefreshKinds ==
  ASSUME ProxyInv, NEW c \in Clients, RefreshOAuth2Token(c)
  PROVE  Quiet(c) \/ Asks(c)
<1>0. ProxyType /\ connection = 1 /\ clock \in Nat /\ Margin \in Nat
  BY RefreshEffect, WebProxyAssumption DEF ProxyInv, ProxyType
<1>1. /\ req[c].looked <= clock /\ req[c].conn \in {0, connection} /\ req[c].looked \in Nat
      /\ trippers[1].expiresAt \in Nat
  BY <1>0, RequestFacts, TripperFacts DEF ProxyInv, Connected, Lapsed
<1> QED
  BY <1>0, <1>1, RefreshEffect DEF Quiet, Asks, Others, ReqBecomes, Refreshing, OnTheWay

\* Every step of the proxy is of one of these kinds.
LEMMA ProxyKinds ==
  ASSUME ProxyInv, [ProxyStep]_proxyVars
  PROVE  \/ UNCHANGED proxyVars \/ Tick
         \/ \E c \in Clients : \/ Quiet(c) \/ Connects(c) \/ Asks(c)
                               \/ TokenAnswer(c) \/ StoreToken(c) \/ StoreExpiry(c) \/ TokenRefused(c)
BY QuietSteps, CreateConnectionKinds, RefreshKinds DEF ProxyStep, Requesting

\* The tokens issued.
LEMMA IssuedFacts ==
  ASSUME ProxyType, NEW i \in DOMAIN issued
  PROVE  i \in 1..Len(issued) /\ Len(issued) \in Nat /\ issued[i].at \in Nat /\ issued[i].until \in Nat
<1>1. issued \in Seq(IssuedTokens)
  BY DEF ProxyType
<1>2. i \in 1..Len(issued) /\ Len(issued) \in Nat /\ issued[i] \in IssuedTokens
  BY <1>1
<1> QED
  BY <1>2 DEF IssuedTokens

\* What was good stays good: tokens are only added to the issued ones.
LEMMA GoodKept ==
  ASSUME ProxyType, NEW t, NEW l, Good(t, l),
         issued' = issued \/ \E u \in Nat : issued' = Append(issued, [at |-> clock, until |-> u])
  PROVE  \/ t # NoToken /\ t.at >= l
         \/ \E i \in DOMAIN issued' : i = t.n /\ issued'[i].until - Margin >= l
<1>1. issued \in Seq(IssuedTokens) /\ clock \in Nat
  BY DEF ProxyType
<1>2. \A i \in DOMAIN issued : i \in DOMAIN issued' /\ issued'[i] = issued[i]
  <2>1. ASSUME NEW e \in IssuedTokens, issued' = Append(issued, e), NEW i \in DOMAIN issued
        PROVE  i \in DOMAIN issued' /\ issued'[i] = issued[i]
    BY <1>1, <2>1
  <2>2. \A u \in Nat : [at |-> clock, until |-> u] \in IssuedTokens
    BY <1>1 DEF IssuedTokens
  <2> QED
    BY <2>1, <2>2
<1> QED
  BY <1>2 DEF Good

\* What a request that has just looked finds is good.
LEMMA LookedGood ==
  ASSUME ProxyInv, connection = 1, NEW l \in Nat, l <= trippers[1].expiresAt - Margin,
         trippers[1].token # NoToken
  PROVE  /\ Good(trippers[1].token, l)
         /\ \A d \in Clients : req[d].pc \in {"store", "storeExpiry"} => req[d].token.at >= l
<1>0. ProxyType /\ LastToken /\ Lapsed
  BY DEF ProxyInv
<1>1. Margin \in Nat /\ trippers[1].expiresAt \in Nat /\ trippers[1].token.n \in Int
  BY <1>0, TripperFacts, WebProxyAssumption DEF Tokens
<1>2. ASSUME NEW d \in Clients, req[d].pc \in {"store", "storeExpiry"} PROVE req[d].token.at >= l
  <2>1. req[d].token.at \in Nat
    BY <1>0, RequestFacts
  <2>2. req[d].token.at >= trippers[1].expiresAt - Margin
    BY <1>0, <1>2 DEF Lapsed
  <2> QED
    BY <1>1, <2>1, <2>2
<1>3. CASE Storing
  BY <1>0, <1>2, <1>3 DEF Storing, LastToken, Good
<1>4. CASE ~Storing
  <2>1. issued \in Seq(IssuedTokens) /\ Len(issued) \in Nat
    BY <1>0 DEF ProxyType
  <2>2. trippers[1].token.n = Len(issued) /\ Len(issued) # 0
    BY <1>0, <1>4 DEF LastToken
  <2>3. issued # <<>> /\ Len(issued) \in DOMAIN issued
    BY <2>1, <2>2
  <2>4. trippers[1].expiresAt = issued[Len(issued)].until
    BY <1>0, <2>3 DEF LastToken
  <2> QED
    BY <1>1, <1>2, <2>2, <2>3, <2>4 DEF Good
<1> QED
  BY <1>3, <1>4

-----------------------------------------------------------------------------
(* The parts of the invariant, one after the other.                        *)

\* One connection is made whoever looks: CreateConnection looks again under the lock.
LEMMA ProxyTypeStep == ProxyInv /\ [ProxyStep]_proxyVars => ProxyType'
<1> SUFFICES ASSUME ProxyInv, [ProxyStep]_proxyVars PROVE ProxyType'
  OBVIOUS
<1>0. ProxyType
  BY DEF ProxyInv
<1>1. ASSUME NEW c \in Clients, Quiet(c) PROVE ProxyType'
  BY <1>0, <1>1 DEF Quiet, Others, ProxyType
<1>2. ASSUME NEW c \in Clients, Connects(c) PROVE ProxyType'
  BY <1>0, <1>2 DEF Connects, Others, TripperBecomes, ProxyType
<1>3. ASSUME NEW c \in Clients, Asks(c) PROVE ProxyType'
  BY <1>0, <1>3 DEF Asks, ReqBecomes, TripperBecomes, ProxyType
<1>4. ASSUME NEW c \in Clients, TokenAnswer(c) PROVE ProxyType'
  BY <1>0, <1>4, TokenAnswerEffect DEF ReqBecomes, ProxyType
<1>5. ASSUME NEW c \in Clients, StoreToken(c) PROVE ProxyType'
  BY <1>0, <1>5, StoreTokenEffect DEF ReqBecomes, TripperBecomes, ProxyType
<1>6. ASSUME NEW c \in Clients, StoreExpiry(c) PROVE ProxyType'
  <2>1. issued \in Seq(IssuedTokens) /\ clock \in Nat
    BY <1>0 DEF ProxyType
  <2>2. PICK u \in Nat : /\ TripperBecomes(req[c].token, u, NoClient)
                         /\ issued' = Append(issued, [at |-> clock, until |-> u])
    BY <1>6, StoreExpiryEffect
  <2>3. [at |-> clock, until |-> u] \in IssuedTokens
    BY <2>1 DEF IssuedTokens
  <2>4. issued' \in Seq(IssuedTokens)
    BY <2>1, <2>2, <2>3
  <2> QED
    BY <1>0, <1>6, <2>2, <2>4, StoreExpiryEffect DEF ReqBecomes, TripperBecomes, ProxyType
<1>7. ASSUME NEW c \in Clients, TokenRefused(c) PROVE ProxyType'
  BY <1>0, <1>7, TokenRefusedEffect DEF ReqBecomes, TripperBecomes, ProxyType
<1>8. CASE Tick
  BY <1>0, <1>8 DEF Tick, ProxyType
<1>9. CASE UNCHANGED proxyVars
  BY <1>0, <1>9 DEF proxyVars, ProxyType
<1> QED
  BY <1>1, <1>2, <1>3, <1>4, <1>5, <1>6, <1>7, <1>8, <1>9, ProxyKinds

\* Who goes on with a request has the connection.
LEMMA ConnectedStep == ProxyInv /\ [ProxyStep]_proxyVars => Connected'
<1> SUFFICES ASSUME ProxyInv, [ProxyStep]_proxyVars PROVE Connected'
  OBVIOUS
<1>0. ProxyType /\ Connected
  BY DEF ProxyInv
<1>1. ASSUME NEW c \in Clients, Quiet(c) PROVE Connected'
  BY <1>0, <1>1, RequestFacts DEF Quiet, Others, Connected, ProxyType, OnTheWay
<1>2. ASSUME NEW c \in Clients, Connects(c) PROVE Connected'
  BY <1>0, <1>2, RequestFacts DEF Connects, Others, TripperBecomes, Connected, ProxyType,
     OnTheWay
<1>3. ASSUME NEW c \in Clients, Asks(c) PROVE Connected'
  BY <1>0, <1>3, RequestFacts DEF Asks, ReqBecomes, TripperBecomes, Connected, ProxyType,
     OnTheWay
<1>4. ASSUME NEW c \in Clients, TokenAnswer(c) PROVE Connected'
  BY <1>0, <1>4, TokenAnswerEffect, RequestFacts DEF ReqBecomes, Connected, ProxyType,
     OnTheWay
<1>5. ASSUME NEW c \in Clients, StoreToken(c) PROVE Connected'
  BY <1>0, <1>5, StoreTokenEffect, RequestFacts DEF ReqBecomes, TripperBecomes, Connected,
     ProxyType, OnTheWay
<1>6. ASSUME NEW c \in Clients, StoreExpiry(c) PROVE Connected'
  BY <1>0, <1>6, StoreExpiryEffect, RequestFacts DEF ReqBecomes, TripperBecomes, Connected,
     ProxyType, OnTheWay
<1>7. ASSUME NEW c \in Clients, TokenRefused(c) PROVE Connected'
  BY <1>0, <1>7, TokenRefusedEffect, RequestFacts DEF ReqBecomes, TripperBecomes,
     Connected, ProxyType, OnTheWay
<1>8. CASE Tick
  BY <1>0, <1>8, RequestFacts DEF Tick, Connected, ProxyType, OnTheWay
<1>9. CASE UNCHANGED proxyVars
  BY <1>0, <1>9 DEF proxyVars, Connected, ProxyType, OnTheWay
<1> QED
  BY <1>1, <1>2, <1>3, <1>4, <1>5, <1>6, <1>7, <1>8, <1>9, ProxyKinds

\* Only the holder of the mutex asks and stores.
LEMMA TokenHolderStep == ProxyInv /\ [ProxyStep]_proxyVars => TokenHolder'
<1> SUFFICES ASSUME ProxyInv, [ProxyStep]_proxyVars PROVE TokenHolder'
  OBVIOUS
<1>0. ProxyType /\ Connected /\ TokenHolder
  BY DEF ProxyInv
<1>1. ASSUME NEW c \in Clients, Quiet(c) PROVE TokenHolder'
  BY <1>0, <1>1, WebProxyAssumption DEF Quiet, Others, TokenHolder, ProxyType, Connected,
     OnTheWay, Refreshing, NoClient
<1>2. ASSUME NEW c \in Clients, Connects(c) PROVE TokenHolder'
  BY <1>0, <1>2, WebProxyAssumption DEF Connects, Others, TripperBecomes, TokenHolder,
     ProxyType, Connected, OnTheWay, Refreshing, NoClient
<1>3. ASSUME NEW c \in Clients, Asks(c) PROVE TokenHolder'
  BY <1>0, <1>3, WebProxyAssumption DEF Asks, ReqBecomes, TripperBecomes, TokenHolder,
     ProxyType, Connected, OnTheWay, Refreshing, NoClient
<1>4. ASSUME NEW c \in Clients, TokenAnswer(c) PROVE TokenHolder'
  BY <1>0, <1>4, TokenAnswerEffect, WebProxyAssumption DEF ReqBecomes, TokenHolder,
     ProxyType, Connected, OnTheWay, Refreshing, NoClient
<1>5. ASSUME NEW c \in Clients, StoreToken(c) PROVE TokenHolder'
  <2>1. /\ req[c].pc = "store" /\ connection = 1 /\ UNCHANGED connection
        /\ ReqBecomes(c, "storeExpiry", 1, req[c].looked, req[c].token)
        /\ trippers'[1].holder = trippers[1].holder
    BY <1>5, StoreTokenEffect DEF TripperBecomes
  <2> QED
    BY <1>0, <2>1 DEF ReqBecomes, TokenHolder, Refreshing
<1>6. ASSUME NEW c \in Clients, StoreExpiry(c) PROVE TokenHolder'
  <2>1. /\ req[c].pc = "storeExpiry" /\ connection = 1 /\ UNCHANGED connection
        /\ ReqBecomes(c, "use", 1, req[c].looked, req[c].token)
        /\ trippers'[1].holder = NoClient
    BY <1>6, StoreExpiryEffect DEF TripperBecomes
  <2> QED
    BY <1>0, <2>1, WebProxyAssumption DEF ReqBecomes, TokenHolder, Refreshing, NoClient
<1>7. ASSUME NEW c \in Clients, TokenRefused(c) PROVE TokenHolder'
  BY <1>0, <1>7, TokenRefusedEffect, WebProxyAssumption DEF ReqBecomes, TripperBecomes,
     TokenHolder, ProxyType, Connected, OnTheWay, Refreshing, NoClient
<1>8. CASE Tick
  BY <1>0, <1>8, WebProxyAssumption DEF Tick, TokenHolder, ProxyType, Connected, OnTheWay,
     Refreshing, NoClient
<1>9. CASE UNCHANGED proxyVars
  BY <1>0, <1>9 DEF proxyVars, TokenHolder, ProxyType, Connected, OnTheWay, Refreshing,
     NoClient
<1> QED
  BY <1>1, <1>2, <1>3, <1>4, <1>5, <1>6, <1>7, <1>8, <1>9, ProxyKinds

\* A token is not taken away.
LEMMA SeenStep == ProxyInv /\ [ProxyStep]_proxyVars => Seen'
<1> SUFFICES ASSUME ProxyInv, [ProxyStep]_proxyVars PROVE Seen'
  OBVIOUS
<1>0. ProxyType /\ Connected /\ LastToken /\ Seen
  BY DEF ProxyInv
<1>1. ASSUME NEW c \in Clients, Quiet(c) PROVE Seen'
  BY <1>0, <1>1 DEF Quiet, Others, Seen, Connected, OnTheWay
<1>2. ASSUME NEW c \in Clients, Connects(c) PROVE Seen'
  BY <1>0, <1>2 DEF Connects, Others, TripperBecomes, Seen, Connected, OnTheWay
<1>3. ASSUME NEW c \in Clients, Asks(c) PROVE Seen'
  BY <1>0, <1>3 DEF Asks, ReqBecomes, TripperBecomes, Seen, Connected, OnTheWay
<1>4. ASSUME NEW c \in Clients, TokenAnswer(c) PROVE Seen'
  BY <1>0, <1>4, TokenAnswerEffect DEF ReqBecomes, Seen, Connected, OnTheWay
<1>5. ASSUME NEW c \in Clients, StoreToken(c) PROVE Seen'
  <2>1. req[c].token.n = Len(issued) + 1 /\ Len(issued) \in Nat
    BY <1>0, <1>5, StoreTokenEffect DEF LastToken, ProxyType
  <2>2. req[c].token # NoToken
    BY <2>1 DEF NoToken
  <2> QED
    BY <1>0, <1>5, <2>2, StoreTokenEffect DEF ReqBecomes, TripperBecomes, Seen
<1>6. ASSUME NEW c \in Clients, StoreExpiry(c) PROVE Seen'
  <2>1. req[c].token.n = Len(issued) + 1 /\ Len(issued) \in Nat
    BY <1>0, <1>6, StoreExpiryEffect DEF LastToken, ProxyType
  <2>2. req[c].token # NoToken
    BY <2>1 DEF NoToken
  <2> QED
    BY <1>0, <1>6, <2>2, StoreExpiryEffect DEF ReqBecomes, TripperBecomes, Seen
<1>7. ASSUME NEW c \in Clients, TokenRefused(c) PROVE Seen'
  BY <1>0, <1>7, TokenRefusedEffect DEF ReqBecomes, TripperBecomes, Seen, Connected,
     OnTheWay
<1>8. CASE Tick
  BY <1>0, <1>8 DEF Tick, Seen, Connected, OnTheWay
<1>9. CASE UNCHANGED proxyVars
  BY <1>0, <1>9 DEF proxyVars, Seen, Connected, OnTheWay
<1> QED
  BY <1>1, <1>2, <1>3, <1>4, <1>5, <1>6, <1>7, <1>8, <1>9, ProxyKinds

\* The token stored is the last one issued, or the one being stored.
LEMMA LastTokenStep == ProxyInv /\ [ProxyStep]_proxyVars => LastToken'
<1> SUFFICES ASSUME ProxyInv, [ProxyStep]_proxyVars PROVE LastToken'
  OBVIOUS
<1>0. ProxyType /\ Connected /\ TokenHolder /\ LastToken
  BY DEF ProxyInv
<1>1. ASSUME NEW c \in Clients, Quiet(c) PROVE LastToken'
  <2>1. Storing' <=> Storing
    BY <1>1 DEF Quiet, Others, Storing, Refreshing
  <2> QED
    BY <1>0, <1>1, <2>1 DEF Quiet, Others, LastToken, Refreshing
<1>2. ASSUME NEW c \in Clients, Connects(c) PROVE LastToken'
  <2>1. \A d \in Clients : req[d].pc \notin OnTheWay /\ req'[d].pc \notin {"store",
     "storeExpiry"}
    BY <1>0, <1>2 DEF Connects, Others, Connected, OnTheWay
  <2>2. issued' = <<>> /\ Len(issued') = 0 /\ NoToken.n = 0
    BY <1>0, <1>2 DEF Connects, LastToken, NoToken
  <2> QED
    BY <1>2, <2>1, <2>2 DEF Connects, TripperBecomes, LastToken
<1>3. ASSUME NEW c \in Clients, Asks(c) PROVE LastToken'
  BY <1>0, <1>3, WebProxyAssumption DEF Asks, ReqBecomes, TripperBecomes, LastToken,
     Storing, ProxyType, Connected, TokenHolder, OnTheWay, Refreshing, NoClient
<1>4. ASSUME NEW c \in Clients, TokenAnswer(c) PROVE LastToken'
  BY <1>0, <1>4, TokenAnswerEffect, WebProxyAssumption DEF ReqBecomes, LastToken, Storing,
     ProxyType, Connected, TokenHolder, OnTheWay, Refreshing, NoClient
<1>5. ASSUME NEW c \in Clients, StoreToken(c) PROVE LastToken'
  <2>1. /\ req[c].pc = "store" /\ connection = 1 /\ UNCHANGED <<connection, issued>>
        /\ ReqBecomes(c, "storeExpiry", 1, req[c].looked, req[c].token)
        /\ trippers'[1].token = req[c].token /\ trippers'[1].expiresAt = trippers[1].expiresAt
    BY <1>5, StoreTokenEffect DEF TripperBecomes
  <2>2. req[c].token.n = Len(issued) + 1 /\ Len(issued) \in Nat
    BY <1>0, <2>1 DEF LastToken, ProxyType
  <2>3. req[c].token # NoToken
    BY <2>2 DEF NoToken
  <2>4. \A d \in Clients : d # c => req[d].pc \notin {"store", "storeExpiry"}
    BY <1>0, <2>1 DEF TokenHolder, Refreshing
  <2>5. Storing'
    BY <2>1 DEF ReqBecomes, Storing
  <2> QED
    BY <1>0, <2>1, <2>2, <2>3, <2>4, <2>5 DEF ReqBecomes, LastToken
<1>6. ASSUME NEW c \in Clients, StoreExpiry(c) PROVE LastToken'
  <2>1. /\ req[c].pc = "storeExpiry" /\ connection = 1 /\ UNCHANGED connection
        /\ ReqBecomes(c, "use", 1, req[c].looked, req[c].token)
    BY <1>6, StoreExpiryEffect
  <2>2. PICK u \in Nat : /\ TripperBecomes(req[c].token, u, NoClient)
                         /\ issued' = Append(issued, [at |-> clock, until |-> u])
    BY <1>6, StoreExpiryEffect
  <2>3. issued \in Seq(IssuedTokens) /\ Len(issued) \in Nat /\ clock \in Nat
    BY <1>0 DEF ProxyType
  <2>4. Len(issued') = Len(issued) + 1 /\ issued'[Len(issued')].until = u /\ issued' # <<>>
    BY <2>2, <2>3
  <2>5. req[c].token.n = Len(issued) + 1 /\ req[c].token # NoToken
    <3>1. req[c].token.n = Len(issued) + 1
      BY <1>0, <2>1 DEF LastToken
    <3> QED
      BY <2>3, <3>1 DEF NoToken
  <2>6. \A d \in Clients : req'[d].pc \notin {"store", "storeExpiry"}
    BY <1>0, <2>1 DEF TokenHolder, Refreshing, ReqBecomes
  <2> QED
    BY <2>1, <2>2, <2>3, <2>4, <2>5, <2>6 DEF TripperBecomes, LastToken
<1>7. ASSUME NEW c \in Clients, TokenRefused(c) PROVE LastToken'
  <2>1. /\ req[c].pc = "ask" /\ connection = 1 /\ UNCHANGED <<connection, issued>>
        /\ ReqBecomes(c, "failed", 1, req[c].looked, req[c].token)
        /\ trippers'[1].token = trippers[1].token /\ trippers'[1].expiresAt = trippers[1].expiresAt
    BY <1>7, TokenRefusedEffect DEF TripperBecomes
  <2> QED
    BY <1>0, <2>1 DEF ReqBecomes, LastToken, Storing
<1>8. CASE Tick
  BY <1>0, <1>8, WebProxyAssumption DEF Tick, LastToken, Storing, ProxyType, Connected,
     TokenHolder, OnTheWay, Refreshing, NoClient
<1>9. CASE UNCHANGED proxyVars
  BY <1>0, <1>9 DEF proxyVars, LastToken, Storing, ProxyType, Connected, TokenHolder,
     OnTheWay, Refreshing, NoClient
<1> QED
  BY <1>1, <1>2, <1>3, <1>4, <1>5, <1>6, <1>7, <1>8, <1>9, ProxyKinds

\* The refresher has looked, under the mutex.
LEMMA LapsedStep == ProxyInv /\ [ProxyStep]_proxyVars => Lapsed'
<1> SUFFICES ASSUME ProxyInv, [ProxyStep]_proxyVars PROVE Lapsed'
  OBVIOUS
<1>0. ProxyType /\ Connected /\ TokenHolder /\ LastToken /\ Lapsed
  BY DEF ProxyInv
<1>1. ASSUME NEW c \in Clients, Quiet(c) PROVE Lapsed'
  BY <1>0, <1>1, WebProxyAssumption, RequestFacts DEF Quiet, Others, Lapsed, ProxyType,
     Connected, TokenHolder, LastToken, OnTheWay, Refreshing, NoClient
<1>2. ASSUME NEW c \in Clients, Connects(c) PROVE Lapsed'
  BY <1>0, <1>2, WebProxyAssumption, RequestFacts DEF Connects, Others, TripperBecomes,
     Lapsed, ProxyType, Connected, TokenHolder, LastToken, OnTheWay, Refreshing, NoClient
<1>3. ASSUME NEW c \in Clients, Asks(c) PROVE Lapsed'
  <2>0. /\ clock \in Nat /\ Margin \in Nat /\ issued \in Seq(IssuedTokens)
        /\ connection = 1 => trippers[1].expiresAt \in Nat
    BY <1>0, TripperFacts, WebProxyAssumption DEF ProxyType
  <2>1. trippers[1].token = NoToken => trippers[1].expiresAt = 0
    <3>1. ~Storing
      BY <1>0, <1>3, WebProxyAssumption DEF Asks, TokenHolder, Storing, Refreshing, NoClient
    <3> QED
      BY <1>0, <1>3, <2>0, <3>1 DEF Asks, LastToken
  <2>2. clock >= trippers[1].expiresAt - Margin
    BY <1>3, <2>0, <2>1 DEF Asks
  <2> QED
    BY <1>0, <1>3, <2>2 DEF Asks, ReqBecomes, TripperBecomes, Lapsed, Refreshing
<1>4. ASSUME NEW c \in Clients, TokenAnswer(c) PROVE Lapsed'
  BY <1>0, <1>4, TokenAnswerEffect, WebProxyAssumption, RequestFacts DEF ReqBecomes,
     Lapsed, ProxyType, Connected, TokenHolder, LastToken, OnTheWay, Refreshing, NoClient
<1>5. ASSUME NEW c \in Clients, StoreToken(c) PROVE Lapsed'
  <2>1. /\ req[c].pc = "store" /\ UNCHANGED <<clock, issued>>
        /\ ReqBecomes(c, "storeExpiry", 1, req[c].looked, req[c].token)
        /\ trippers'[1].expiresAt = trippers[1].expiresAt
    BY <1>5, StoreTokenEffect DEF TripperBecomes
  <2> QED
    BY <1>0, <2>1 DEF ReqBecomes, Lapsed, Refreshing
<1>6. ASSUME NEW c \in Clients, StoreExpiry(c) PROVE Lapsed'
  <2>0. /\ clock \in Nat /\ Margin \in Nat /\ issued \in Seq(IssuedTokens)
        /\ connection = 1 => trippers[1].expiresAt \in Nat
    BY <1>0, TripperFacts, WebProxyAssumption DEF ProxyType
  <2>1. /\ req[c].pc = "storeExpiry" /\ connection = 1 /\ UNCHANGED <<connection, clock>>
        /\ ReqBecomes(c, "use", 1, req[c].looked, req[c].token)
    BY <1>6, StoreExpiryEffect
  <2>2. PICK u \in Nat : issued' = Append(issued, [at |-> clock, until |-> u])
    BY <1>6, StoreExpiryEffect
  <2>3. \A d \in Clients : req'[d].pc \notin Refreshing /\ req'[d].looked <= clock
    BY <1>0, <2>1 DEF TokenHolder, Refreshing, ReqBecomes, Lapsed
  <2>4. \A i \in DOMAIN issued' : issued'[i].at <= clock
    BY <1>0, <2>0, <2>2 DEF Lapsed
  <2> QED
    BY <2>1, <2>3, <2>4 DEF Lapsed, Refreshing
<1>7. ASSUME NEW c \in Clients, TokenRefused(c) PROVE Lapsed'
  <2>1. /\ req[c].pc = "ask" /\ UNCHANGED <<clock, issued>>
        /\ ReqBecomes(c, "failed", 1, req[c].looked, req[c].token)
        /\ trippers'[1].expiresAt = trippers[1].expiresAt
    BY <1>7, TokenRefusedEffect DEF TripperBecomes
  <2> QED
    BY <1>0, <2>1 DEF ReqBecomes, Lapsed, Refreshing
<1>8. CASE Tick
  <2>0. /\ clock \in Nat /\ Margin \in Nat /\ issued \in Seq(IssuedTokens)
        /\ connection = 1 => trippers[1].expiresAt \in Nat
    BY <1>0, TripperFacts, WebProxyAssumption DEF ProxyType
  <2>1. UNCHANGED <<connection, trippers, issued, req>> /\ clock' = clock + 1
    BY <1>8 DEF Tick
  <2>2. \A i \in DOMAIN issued : issued[i].at \in Nat
    BY <1>0, IssuedFacts
  <2>3. \A i \in DOMAIN issued' : issued'[i].at <= clock'
    BY <1>0, <2>0, <2>1, <2>2 DEF Lapsed
  <2>4. ASSUME NEW d \in Clients
        PROVE  /\ req'[d].looked <= clock'
               /\ req'[d].pc \in Refreshing => clock' >= trippers'[1].expiresAt - Margin
               /\ req'[d].pc \in {"store", "storeExpiry"} => req'[d].token.at <= clock'
    <3>1. req[d].looked \in Nat /\ req[d].token.at \in Nat
      BY <1>0, RequestFacts
    <3>2. req[d].pc \in Refreshing => connection = 1
      BY <1>0 DEF Connected, Refreshing, OnTheWay
    <3> QED
      BY <1>0, <2>0, <2>1, <3>1, <3>2 DEF Lapsed, Refreshing
  <2> QED
    BY <1>0, <2>1, <2>3, <2>4 DEF Lapsed
<1>9. CASE UNCHANGED proxyVars
  BY <1>0, <1>9 DEF proxyVars, Lapsed, ProxyType, Connected, TokenHolder, LastToken,
     OnTheWay, Refreshing, NoClient
<1> QED
  BY <1>1, <1>2, <1>3, <1>4, <1>5, <1>6, <1>7, <1>8, <1>9, ProxyKinds

\* What a request is about to use stays good, whoever stores a token meanwhile.
LEMMA FreshUseStep == ProxyInv /\ [ProxyStep]_proxyVars => FreshUse'
<1> SUFFICES ASSUME ProxyInv, [ProxyStep]_proxyVars PROVE FreshUse'
  OBVIOUS
<1>0. ProxyType /\ Connected /\ TokenHolder /\ LastToken /\ Lapsed /\ FreshUse
  BY DEF ProxyInv
<1>1. ASSUME NEW c \in Clients, Quiet(c) PROVE FreshUse'
  <2>1. CASE req'[c].pc # "use"
    BY <1>0, <1>1, <2>1 DEF Quiet, Others, FreshUse, Good, Refreshing
  <2>2. CASE req'[c].pc = "use"
    <3>1. /\ req'[c].looked <= trippers[1].expiresAt - Margin /\ trippers[1].token # NoToken
          /\ req'[c].conn = 1 /\ req'[c].conn \in {0, connection}
      BY <1>1, <2>2 DEF Quiet, OnTheWay
    <3>2. req'[c].looked \in Nat
      BY <1>1 DEF Quiet, Others, Requests
    <3>3. /\ Good(trippers[1].token, req'[c].looked)
          /\ \A d \in Clients : req[d].pc \in {"store", "storeExpiry"} =>
               req[d].token.at >= req'[c].looked
      BY <3>1, <3>2, LookedGood
    <3> QED
      BY <1>0, <1>1, <2>2, <3>3 DEF Quiet, Others, FreshUse, Good, Refreshing
  <2> QED
    BY <2>1, <2>2
<1>2. ASSUME NEW c \in Clients, Connects(c) PROVE FreshUse'
  BY <1>0, <1>2 DEF Connects, Others, Connected, OnTheWay, FreshUse
<1>3. ASSUME NEW c \in Clients, Asks(c) PROVE FreshUse'
  BY <1>0, <1>3 DEF Asks, ReqBecomes, TripperBecomes, FreshUse, Good, Refreshing
<1>4. ASSUME NEW c \in Clients, TokenAnswer(c) PROVE FreshUse'
  <2>1. req[c].pc = "ask" /\ UNCHANGED <<cfg, trippers, issued>>
    BY <1>4, TokenAnswerEffect
  <2>2. PICK t \in Tokens : ReqBecomes(c, "store", 1, req[c].looked, t) /\ t.at = clock
    BY <1>4, TokenAnswerEffect
  <2>3. \A d \in Clients : req[d].looked <= clock /\ req[d].looked \in Nat /\ clock \in Nat
    BY <1>0, RequestFacts DEF Lapsed, ProxyType
  <2>4. \A d \in Clients : req'[d].pc = "use" =>
          d # c /\ req'[d] = req[d] /\ t.at >= req[d].looked
    BY <2>2, <2>3 DEF ReqBecomes
  <2> QED
    BY <1>0, <2>1, <2>2, <2>4 DEF ReqBecomes, FreshUse, Good
<1>5. ASSUME NEW c \in Clients, StoreToken(c) PROVE FreshUse'
  <2>1. /\ req[c].pc = "store" /\ UNCHANGED <<cfg, issued>>
        /\ ReqBecomes(c, "storeExpiry", 1, req[c].looked, req[c].token)
        /\ trippers'[1].token = req[c].token
    BY <1>5, StoreTokenEffect DEF TripperBecomes
  <2>2. req[c].token.n = Len(issued) + 1 /\ Len(issued) \in Nat
    BY <1>0, <2>1 DEF LastToken, ProxyType
  <2>3. req[c].token # NoToken
    BY <2>2 DEF NoToken
  <2> QED
    BY <1>0, <2>1, <2>3 DEF ReqBecomes, FreshUse, Good
<1>6. ASSUME NEW c \in Clients, StoreExpiry(c) PROVE FreshUse'
  <2>1. /\ req[c].pc = "storeExpiry" /\ connection = 1 /\ UNCHANGED cfg
        /\ ReqBecomes(c, "use", 1, req[c].looked, req[c].token)
    BY <1>6, StoreExpiryEffect
  <2>2. PICK u \in Nat : /\ TripperBecomes(req[c].token, u, NoClient)
                         /\ issued' = Append(issued, [at |-> clock, until |-> u])
    BY <1>6, StoreExpiryEffect
  <2>3. trippers'[1].token = trippers[1].token /\ trippers[1].token = req[c].token
    BY <1>0, <2>1, <2>2 DEF TripperBecomes, LastToken
  <2>4. \A d \in Clients : req'[d].pc \notin {"store", "storeExpiry"}
    BY <1>0, <2>1 DEF TokenHolder, Refreshing, ReqBecomes
  <2>5. req[c].token.n = Len(issued) + 1 /\ Len(issued) \in Nat
    BY <1>0, <2>1 DEF LastToken, ProxyType
  <2>6. req[c].token # NoToken /\ req[c].token.at >= req[c].looked
    BY <1>0, <2>1, <2>5 DEF NoToken, Lapsed
  <2>7. ASSUME NEW d \in Clients, req'[d].pc = "use", cfg.type = "OAUTH2"
        PROVE  Good(trippers[1].token, req[d].looked)
    BY <1>0, <2>1, <2>3, <2>6, <2>7 DEF ReqBecomes, FreshUse, Good
  <2>8. ASSUME NEW d \in Clients, req'[d].pc = "use", cfg.type = "OAUTH2"
        PROVE  \/ trippers'[1].token # NoToken /\ trippers'[1].token.at >= req'[d].looked
               \/ \E i \in DOMAIN issued' : /\ i = trippers'[1].token.n
                                           /\ issued'[i].until - Margin >= req'[d].looked
    <3>1. req'[d].looked = req[d].looked
      BY <2>1 DEF ReqBecomes
    <3> QED
      BY <1>0, <2>2, <2>3, <2>7, <2>8, <3>1, GoodKept
  <2> QED
    BY <2>1, <2>4, <2>8 DEF FreshUse, Good
<1>7. ASSUME NEW c \in Clients, TokenRefused(c) PROVE FreshUse'
  BY <1>0, <1>7, TokenRefusedEffect DEF ReqBecomes, TripperBecomes, FreshUse, Good,
     Refreshing
<1>8. CASE Tick
  BY <1>0, <1>8 DEF Tick, FreshUse, Good, Refreshing
<1>9. CASE UNCHANGED proxyVars
  BY <1>0, <1>9 DEF proxyVars, FreshUse, Good, Refreshing
<1> QED
  BY <1>1, <1>2, <1>3, <1>4, <1>5, <1>6, <1>7, <1>8, <1>9, ProxyKinds

\* A request that was sent carries what it carried, and UseToken takes what is good.
LEMMA StaleStep == ProxyInv /\ NoStaleToken /\ [ProxyStep]_proxyVars => NoStaleToken'
<1> SUFFICES ASSUME ProxyInv, NoStaleToken, [ProxyStep]_proxyVars PROVE NoStaleToken'
  OBVIOUS
<1>0. ProxyType /\ Connected /\ TokenHolder /\ LastToken /\ Lapsed /\ FreshUse /\ NoStaleToken
  BY DEF ProxyInv
<1>1. ASSUME NEW c \in Clients, Quiet(c) PROVE NoStaleToken'
  BY <1>0, <1>1 DEF Quiet, Others, NoStaleToken, Good
<1>2. ASSUME NEW c \in Clients, Connects(c) PROVE NoStaleToken'
  BY <1>0, <1>2 DEF Connects, Others, TripperBecomes, NoStaleToken
<1>3. ASSUME NEW c \in Clients, Asks(c) PROVE NoStaleToken'
  BY <1>0, <1>3 DEF Asks, ReqBecomes, TripperBecomes, NoStaleToken
<1>4. ASSUME NEW c \in Clients, TokenAnswer(c) PROVE NoStaleToken'
  BY <1>0, <1>4, TokenAnswerEffect DEF ReqBecomes, NoStaleToken
<1>5. ASSUME NEW c \in Clients, StoreToken(c) PROVE NoStaleToken'
  BY <1>0, <1>5, StoreTokenEffect DEF ReqBecomes, TripperBecomes, NoStaleToken
<1>6. ASSUME NEW c \in Clients, StoreExpiry(c) PROVE NoStaleToken'
  <2>1. UNCHANGED cfg /\ ReqBecomes(c, "use", 1, req[c].looked, req[c].token)
    BY <1>6, StoreExpiryEffect
  <2>2. \E u \in Nat : issued' = Append(issued, [at |-> clock, until |-> u])
    BY <1>6, StoreExpiryEffect
  <2>3. ASSUME NEW d \in Clients, req'[d].pc = "sent", req'[d].conn # 0,
     cfg.type = "OAUTH2",
               req'[d].token # Torn
        PROVE  \/ req'[d].token # NoToken /\ req'[d].token.at >= req'[d].looked
               \/ \E i \in DOMAIN issued' : /\ i = req'[d].token.n
                                           /\ issued'[i].until - Margin >= req'[d].looked
    <3>1. req'[d] = req[d]
      BY <2>1, <2>3 DEF ReqBecomes
    <3>2. Good(req[d].token, req[d].looked)
      BY <1>0, <2>3, <3>1 DEF NoStaleToken, Good
    <3> QED
      BY <1>0, <2>2, <3>1, <3>2, GoodKept
  <2> QED
    BY <2>1, <2>3 DEF NoStaleToken
<1>7. ASSUME NEW c \in Clients, TokenRefused(c) PROVE NoStaleToken'
  BY <1>0, <1>7, TokenRefusedEffect DEF ReqBecomes, TripperBecomes, NoStaleToken
<1>8. CASE Tick
  BY <1>0, <1>8 DEF Tick, NoStaleToken
<1>9. CASE UNCHANGED proxyVars
  BY <1>0, <1>9 DEF proxyVars, NoStaleToken
<1> QED
  BY <1>1, <1>2, <1>3, <1>4, <1>5, <1>6, <1>7, <1>8, <1>9, ProxyKinds

\* A token is issued only to the holder of the mutex, who found the last one old.
LEMMA LapseStep == ProxyInv /\ OneTokenPerLapse /\ [ProxyStep]_proxyVars => OneTokenPerLapse'
<1> SUFFICES ASSUME ProxyInv, OneTokenPerLapse,
   [ProxyStep]_proxyVars PROVE OneTokenPerLapse'
  OBVIOUS
<1>0. ProxyType /\ Connected /\ TokenHolder /\ LastToken /\ Lapsed /\ FreshUse /\ OneTokenPerLapse
  BY DEF ProxyInv
<1>1. ASSUME NEW c \in Clients, Quiet(c) PROVE OneTokenPerLapse'
  BY <1>0, <1>1 DEF Quiet, Others, OneTokenPerLapse
<1>2. ASSUME NEW c \in Clients, Connects(c) PROVE OneTokenPerLapse'
  BY <1>0, <1>2 DEF Connects, Others, TripperBecomes, OneTokenPerLapse
<1>3. ASSUME NEW c \in Clients, Asks(c) PROVE OneTokenPerLapse'
  BY <1>0, <1>3 DEF Asks, ReqBecomes, TripperBecomes, OneTokenPerLapse
<1>4. ASSUME NEW c \in Clients, TokenAnswer(c) PROVE OneTokenPerLapse'
  BY <1>0, <1>4, TokenAnswerEffect DEF ReqBecomes, OneTokenPerLapse
<1>5. ASSUME NEW c \in Clients, StoreToken(c) PROVE OneTokenPerLapse'
  BY <1>0, <1>5, StoreTokenEffect DEF ReqBecomes, TripperBecomes, OneTokenPerLapse
<1>6. ASSUME NEW c \in Clients, StoreExpiry(c) PROVE OneTokenPerLapse'
  <2>1. req[c].pc = "storeExpiry" /\ connection = 1
    BY <1>6, StoreExpiryEffect
  <2>2. PICK u \in Nat : issued' = Append(issued, [at |-> clock, until |-> u])
    BY <1>6, StoreExpiryEffect
  <2>3. issued \in Seq(IssuedTokens) /\ clock \in Nat /\ Margin \in Nat /\ Len(issued) \in Nat
    BY <1>0, WebProxyAssumption DEF ProxyType
  <2>4. issued # <<>> => clock >= issued[Len(issued)].until - Margin
    BY <1>0, <2>1 DEF LastToken, Lapsed, Refreshing
  <2>5. ASSUME NEW i \in DOMAIN issued PROVE clock >= issued[i].until - Margin
    <3>1. /\ i \in 1..Len(issued) /\ issued # <<>> /\ Len(issued) \in DOMAIN issued
          /\ issued[i].until \in Nat /\ issued[Len(issued)].at \in Nat
      BY <1>0, <2>3, IssuedFacts
    <3>2. CASE i = Len(issued)
      BY <2>4, <3>1, <3>2
    <3>3. CASE i < Len(issued)
      <4>1. issued[Len(issued)].at >= issued[i].until - Margin /\ issued[Len(issued)].at <= clock
        BY <1>0, <3>1, <3>3 DEF OneTokenPerLapse, Lapsed
      <4> QED
        BY <2>3, <3>1, <4>1
    <3> QED
      BY <2>3, <3>1, <3>2, <3>3
  <2>6. [at |-> clock, until |-> u] \in IssuedTokens
    BY <2>3 DEF IssuedTokens
  <2>7. /\ DOMAIN issued' = DOMAIN issued \cup {Len(issued) + 1}
        /\ \A i \in DOMAIN issued : issued'[i] = issued[i] /\ i \in 1..Len(issued)
        /\ issued'[Len(issued) + 1] = [at |-> clock, until |-> u]
    BY <2>2, <2>3, <2>6
  <2> QED
    BY <1>0, <2>3, <2>5, <2>7 DEF OneTokenPerLapse
<1>7. ASSUME NEW c \in Clients, TokenRefused(c) PROVE OneTokenPerLapse'
  BY <1>0, <1>7, TokenRefusedEffect DEF ReqBecomes, TripperBecomes, OneTokenPerLapse
<1>8. CASE Tick
  BY <1>0, <1>8 DEF Tick, OneTokenPerLapse
<1>9. CASE UNCHANGED proxyVars
  BY <1>0, <1>9 DEF proxyVars, OneTokenPerLapse
<1> QED
  BY <1>1, <1>2, <1>3, <1>4, <1>5, <1>6, <1>7, <1>8, <1>9, ProxyKinds

-----------------------------------------------------------------------------
(* The weather steps as callers.                                           *)

Contexts == {"checkpoint", "step"}
States == [index : Nat, data : Seq(Hours)]
StepLabels == {"build", "open", "fetch", "refetch", "writer", "read", "lastWrite", "end",
               "completed", "failed"}
StepRecords ==
  [kind : Kinds, ref : BOOLEAN, run : Nat, pc : StepLabels,
   data : Seq(Hours), index : Nat, ec : Contexts, nested : [Contexts -> States],
   items : SUBSET Hours, read : Nat, skips : Nat,
   fetched : Seq(Hours), reopenFailed : BOOLEAN, retries : Nat]

StepType ==
  /\ step \in [Clients -> StepRecords]
  /\ table \in [Kinds -> SUBSET Hours]

\* Where the request of a step can be while the step is at s.pc: it sends only what
\* it has a connection for, and takes up a request only when it is at rest.
Coupled(s, q) ==
  /\ s.pc = "build" => q.pc \in {"idle", "get", "lock", "connected", "failed"}
  /\ s.pc \in {"fetch", "refetch"} => q.pc \in OnTheWay \cup {"sent", "failed"}
  /\ s.pc \notin {"build", "fetch", "refetch"} => q.pc \in {"idle", "connected", "failed"}
  /\ s.ref => /\ q.pc = "connected" => q.conn # 0 \/ s.pc = "failed"
              /\ s.pc \notin {"build", "failed"} => q.conn # 0
  /\ ~s.ref => q.conn = 0 /\ q.pc \notin OnTheWay \cup {"get", "lock"}

\* What of the last answer a step has stored in t or holds, as long as it was not
\* told to open its reader a second time and the reader got its hours.
Stored(s, t) ==
  /\ s.retries = 0 => s.ec = "checkpoint" /\ s.nested["step"] = NoState
  /\ ~s.reopenFailed /\ s.retries < 2 =>
       /\ s.pc \in {"writer", "read"} => s.data = s.fetched
       /\ s.pc = "writer" => s.index = 0
       /\ s.pc = "read" => \A i \in DOMAIN s.fetched :
                             i <= s.index => s.fetched[i] \in Unparsable \cup t \cup s.items
       /\ s.pc = "lastWrite" => \A i \in DOMAIN s.fetched :
                                  s.fetched[i] \in Unparsable \cup t \cup s.items
       /\ s.pc \in {"end", "completed"} => \A i \in DOMAIN s.fetched :
                                             s.fetched[i] \in Unparsable \cup t

StepInv == /\ StepType
           /\ \A c \in Clients : Coupled(step[c], req[c]) /\ Stored(step[c], table[step[c].kind])

\* The part of a record that only a retry, a failed Open of it and a restart change.
Keeps(r, s) ==
  /\ r \in StepRecords /\ r.kind = s.kind /\ r.ref = s.ref /\ r.ec = s.ec /\ r.nested = s.nested
  /\ r.reopenFailed = s.reopenFailed /\ r.retries = s.retries
Holds(r, data, index, items, fetched) ==
  r.data = data /\ r.index = index /\ r.items = items /\ r.fetched = fetched

\* The fields of a record of a step.
LEMMA RecordFacts ==
  ASSUME NEW s \in StepRecords
  PROVE  /\ s.kind \in Kinds /\ s.ref \in BOOLEAN /\ s.run \in Nat /\ s.pc \in StepLabels
         /\ s.data \in Seq(Hours) /\ s.index \in Nat /\ s.ec \in Contexts
         /\ s.nested \in [Contexts -> States] /\ s.items \in SUBSET Hours /\ s.read \in Nat
         /\ s.skips \in Nat /\ s.fetched \in Seq(Hours) /\ s.reopenFailed \in BOOLEAN
         /\ s.retries \in Nat
BY DEF StepRecords

\* Goto moves on only.
LEMMA GotoFacts ==
  ASSUME NEW s \in StepRecords, NEW l \in StepLabels
  PROVE  LET r == [s EXCEPT !.pc = l] IN
         Keeps(r, s) /\ r.pc = l /\ Holds(r, s.data, s.index, s.items, s.fetched)
BY DEF StepRecords, Keeps, Holds

\* A chunk begins without items.
LEMMA BeginFacts ==
  ASSUME NEW s \in StepRecords
  PROVE  Keeps(Begin(s), s) /\ Begin(s).pc = "read" /\ Holds(Begin(s), s.data, s.index, {}, s.fetched)
BY DEF StepRecords, StepLabels, Keeps, Holds, Begin

\* The hours of an answer are put in place.
LEMMA FetchedFacts ==
  ASSUME NEW s \in StepRecords, NEW w \in Seq(Hours)
  PROVE  LET r == [s EXCEPT !.data = w, !.index = 0, !.fetched = w] IN
         Keeps(r, s) /\ r.pc = s.pc /\ Holds(r, w, 0, s.items, w)
BY DEF StepRecords, Keeps, Holds

\* An hour is read.
LEMMA ReadFacts ==
  ASSUME NEW s \in StepRecords, NEW h \in Hours
  PROVE  LET r == [s EXCEPT !.index = s.index + 1, !.read = s.read + 1, !.items = s.items \cup {h}] IN
         Keeps(r, s) /\ r.pc = s.pc /\ Holds(r, s.data, s.index + 1, s.items \cup {h}, s.fetched)
<1> DEFINE i == s.index + 1
           n == s.read + 1
           t == s.items \cup {h}
<1>1. i \in Nat /\ n \in Nat /\ t \in SUBSET Hours
  BY RecordFacts
<1>2. [s EXCEPT !.index = s.index + 1, !.read = s.read + 1, !.items = s.items \cup {h}] =
        [s EXCEPT !.index = i, !.read = n, !.items = t]
  OBVIOUS
<1> HIDE DEF i, n, t
<1>3. LET r == [s EXCEPT !.index = i, !.read = n, !.items = t] IN
      Keeps(r, s) /\ r.pc = s.pc /\ Holds(r, s.data, i, t, s.fetched)
  BY <1>1 DEF StepRecords, Keeps, Holds
<1> QED
  BY <1>2, <1>3 DEF i, t

\* An hour is skipped.
LEMMA SkipFacts ==
  ASSUME NEW s \in StepRecords
  PROVE  LET r == [s EXCEPT !.index = s.index + 1, !.read = s.read + 1, !.skips = s.skips + 1] IN
         Keeps(r, s) /\ r.pc = s.pc /\ Holds(r, s.data, s.index + 1, s.items, s.fetched)
<1> DEFINE i == s.index + 1
           n == s.read + 1
           k == s.skips + 1
<1>1. i \in Nat /\ n \in Nat /\ k \in Nat
  BY RecordFacts
<1>2. [s EXCEPT !.index = s.index + 1, !.read = s.read + 1, !.skips = s.skips + 1] =
        [s EXCEPT !.index = i, !.read = n, !.skips = k]
  OBVIOUS
<1> HIDE DEF i, n, k
<1>3. LET r == [s EXCEPT !.index = i, !.read = n, !.skips = k] IN
      Keeps(r, s) /\ r.pc = s.pc /\ Holds(r, s.data, i, s.items, s.fetched)
  BY <1>1 DEF StepRecords, Keeps, Holds
<1> QED
  BY <1>2, <1>3 DEF i

\* The forecast reader forgets its hours.
LEMMA ForgetFacts ==
  ASSUME NEW s \in StepRecords
  PROVE  LET r == [s EXCEPT !.data = <<>>, !.index = 0] IN
         Keeps(r, s) /\ r.pc = s.pc /\ Holds(r, <<>>, 0, s.items, s.fetched)
<1>1. <<>> \in Seq(Hours)
  OBVIOUS
<1> QED
  BY <1>1 DEF StepRecords, Keeps, Holds

\* The first Open restores what the maps of its run hold.
LEMMA RestoreFacts ==
  ASSUME NEW s \in StepRecords
  PROVE  /\ Keeps(Restore(s), s) /\ Restore(s).pc = s.pc
         /\ Restore(s).data = s.nested[s.ec].data
<1>1. s.nested[s.ec] \in States
  BY RecordFacts
<1>2. s.nested[s.ec].index \in Nat /\ s.nested[s.ec].data \in Seq(Hours)
  BY <1>1 DEF States
<1> QED
  BY <1>2 DEF StepRecords, Keeps, Restore

\* A failed Open of a retry is remembered.
LEMMA ReopenFailedFacts ==
  ASSUME NEW s \in StepRecords
  PROVE  LET r == [Begin(s) EXCEPT !.reopenFailed = TRUE] IN
         /\ r \in StepRecords /\ r.kind = s.kind /\ r.ref = s.ref /\ r.ec = s.ec
         /\ r.nested = s.nested /\ r.reopenFailed = TRUE /\ r.retries = s.retries /\ r.pc = "read"
BY DEF StepRecords, StepLabels, Begin

\* Close and Open of a retry: the first one finds no state in the map of the step.
LEMMA ReopenFacts ==
  ASSUME NEW s \in StepRecords
  PROVE  /\ Reopen(s) \in StepRecords /\ Reopen(s).kind = s.kind /\ Reopen(s).ref = s.ref
         /\ Reopen(s).reopenFailed = s.reopenFailed /\ Reopen(s).retries = s.retries + 1
         /\ s.ec = "checkpoint" /\ s.nested["step"] = NoState => Reopen(s).data = <<>>
<1> DEFINE state == [index |-> s.index, data |-> s.data]
           nested == [s.nested EXCEPT ![s.ec] = state]
           a == Save(s)
           b == [a EXCEPT !.ec = "step", !.retries = @ + 1]
<1>1. state \in States /\ "step" \in Contexts
  BY RecordFacts DEF States, Contexts
<1>2. nested \in [Contexts -> States]
  BY <1>1, RecordFacts
<1>3. s.ec = "checkpoint" => nested["step"] = s.nested["step"]
  BY <1>1, RecordFacts
<1>4. /\ a \in StepRecords /\ a.kind = s.kind /\ a.ref = s.ref /\ a.reopenFailed = s.reopenFailed
      /\ a.retries = s.retries /\ a.nested = nested
  <2>1. a = [s EXCEPT !.nested = nested]
    BY DEF Save, StepRecords
  <2> HIDE DEF nested, a
  <2> QED
    BY <1>2, <2>1 DEF StepRecords
<1> HIDE DEF nested, a
<1>5. /\ b \in StepRecords /\ b.kind = a.kind /\ b.ref = a.ref /\ b.reopenFailed = a.reopenFailed
      /\ b.retries = a.retries + 1 /\ b.nested = a.nested /\ b.ec = "step"
  <2> DEFINE n == a.retries + 1
  <2>1. n \in Nat
    BY <1>4, RecordFacts
  <2>2. b = [a EXCEPT !.ec = "step", !.retries = n]
    OBVIOUS
  <2> HIDE DEF n, b
  <2>3. /\ b \in StepRecords /\ b.kind = a.kind /\ b.ref = a.ref /\ b.reopenFailed = a.reopenFailed
        /\ b.retries = n /\ b.nested = a.nested /\ b.ec = "step"
    BY <1>1, <1>4, <2>1, <2>2 DEF StepRecords
  <2> QED
    BY <2>3 DEF n
<1>6. Reopen(s) = Restore(b)
  BY DEF Reopen, a
<1> HIDE DEF b
<1>7. Keeps(Restore(b), b) /\ Restore(b).data = b.nested["step"].data
  BY <1>5, RestoreFacts
<1> QED
  BY <1>3, <1>4, <1>5, <1>6, <1>7 DEF Keeps, NoState

\* A reader that has just been built.
LEMMA NewReaderFacts ==
  ASSUME NEW kind \in Kinds, NEW ref \in BOOLEAN, NEW run \in Nat
  PROVE  LET r == NewReader(kind, ref, run) IN
         /\ r \in StepRecords /\ r.kind = kind /\ r.ref = ref /\ r.pc = "build"
         /\ r.ec = "checkpoint" /\ r.nested["step"] = NoState
<1> DEFINE nested == [e \in {"checkpoint", "step"} |-> NoState]
<1>1. NoState \in States /\ <<>> \in Seq(Hours) /\ {} \in SUBSET Hours
  BY DEF States, NoState
<1>2. nested \in [Contexts -> States] /\ nested["step"] = NoState
  BY <1>1 DEF Contexts
<1>3. "checkpoint" \in Contexts /\ "build" \in StepLabels
  BY DEF Contexts, StepLabels
<1> HIDE DEF nested
<1> QED
  BY <1>1, <1>2, <1>3 DEF NewReader, StepRecords, nested

\* The steps share the table, which only grows, and touch no request but their own.
LEMMA Advance ==
  ASSUME StepInv, NEW c \in Clients, NEW r \in StepRecords, step' = [step EXCEPT ![c] = r],
         r.kind = step[c].kind, Stored(r, table'[r.kind]), Coupled(r, req'[c]),
         table' \in [Kinds -> SUBSET Hours], \A k \in Kinds : table[k] \subseteq table'[k],
         \A d \in Clients : d # c => req'[d] = req[d]
  PROVE  StepInv'
<1>1. step \in [Clients -> StepRecords]
  BY DEF StepInv, StepType
<1>2. /\ step' \in [Clients -> StepRecords] /\ step'[c] = r
      /\ \A d \in Clients : d # c => step'[d] = step[d]
  BY <1>1
<1>3. ASSUME NEW d \in Clients, d # c PROVE Stored(step[d], table'[step[d].kind])
  <2>1. Stored(step[d], table[step[d].kind]) /\ step[d].kind \in Kinds
    BY <1>1, RecordFacts DEF StepInv
  <2> QED
    BY <2>1 DEF Stored
<1>4. ASSUME NEW d \in Clients
      PROVE  Coupled(step'[d], req'[d]) /\ Stored(step'[d], table'[step'[d].kind])
  BY <1>2, <1>3 DEF StepInv
<1> QED
  BY <1>2, <1>4 DEF StepInv, StepType

\* Where nothing of an answer is claimed, only the maps count.
LEMMA StoredNothing ==
  ASSUME NEW s, NEW r, NEW t, NEW u, Stored(s, t), Keeps(r, s),
         r.pc \notin {"writer", "read", "lastWrite", "end", "completed"}
  PROVE  Stored(r, u)
BY DEF Stored, Keeps

\* The record of the client, its request and its kind.
LEMMA ClientFacts ==
  ASSUME StepInv, NEW c \in Clients
  PROVE  /\ step[c] \in StepRecords /\ step[c].kind \in Kinds
         /\ Stored(step[c], table[step[c].kind]) /\ Coupled(step[c], req[c])
         /\ table \in [Kinds -> SUBSET Hours]
<1>1. step[c] \in StepRecords
  BY DEF StepInv, StepType
<1> QED
  BY <1>1, RecordFacts DEF StepInv, StepType

\* A step that gives up.
LEMMA GivesUp ==
  ASSUME StepInv, NEW c \in Clients, Goto(c, "failed"), UNCHANGED table,
         step[c].ref => req'[c].pc \in {"idle", "connected", "failed"},
         ~step[c].ref => req'[c].conn = 0 /\ req'[c].pc \in {"idle", "connected", "failed"},
         \A d \in Clients : d # c => req'[d] = req[d]
  PROVE  StepInv'
<1> DEFINE r == [step[c] EXCEPT !.pc = "failed"]
<1>1. /\ step[c] \in StepRecords /\ Stored(step[c], table[step[c].kind])
      /\ table \in [Kinds -> SUBSET Hours] /\ step[c].ref \in BOOLEAN
  BY ClientFacts, RecordFacts
<1>2. Keeps(r, step[c]) /\ r.pc = "failed" /\ step' = [step EXCEPT ![c] = r]
  BY <1>1, GotoFacts DEF Goto, StepLabels
<1> HIDE DEF r
<1>3. r \in StepRecords /\ r.kind = step[c].kind /\ r.ref = step[c].ref
  BY <1>2 DEF Keeps
<1>4. Stored(r, table'[r.kind])
  BY <1>1, <1>2, StoredNothing
<1>5. Coupled(r, req'[c])
  BY <1>1, <1>2, <1>3 DEF Coupled, OnTheWay
<1> QED
  BY <1>1, <1>2, <1>3, <1>4, <1>5, Advance

\* What Send makes of a request.
LEMMA SendFacts ==
  ASSUME ProxyType, StepInv, NEW c \in Clients, Send(c)
  PROVE  \E q \in Requests :
           /\ req' = [req EXCEPT ![c] = q] /\ req'[c] = q /\ \A d \in Clients : d # c => req'[d] = req[d]
           /\ q.conn = req[c].conn /\ q.looked = req[c].looked
           /\ q.pc = IF step[c].ref THEN "do" ELSE IF step[c].kind = "forecast" THEN "failed" ELSE "sent"
<1> DEFINE rel == (step[c].kind = "forecast")
           l == IF step[c].ref THEN "do" ELSE IF step[c].kind = "forecast" THEN "failed" ELSE "sent"
           q == [req[c] EXCEPT !.relative = rel, !.pc = l]
<1>1. req[c] \in Requests /\ rel \in BOOLEAN /\ l \in ReqLabels /\ req \in [Clients -> Requests]
  BY DEF ProxyType, ReqLabels
<1>2. req' = [req EXCEPT ![c] = q]
  BY DEF Send
<1> HIDE DEF rel, l
<1>3. q \in Requests /\ q.conn = req[c].conn /\ q.looked = req[c].looked /\ q.pc = l
  BY <1>1 DEF Requests
<1> HIDE DEF q
<1>4. req'[c] = q /\ \A d \in Clients : d # c => req'[d] = req[d]
  BY <1>1, <1>2
<1> QED
  BY <1>2, <1>3, <1>4 DEF l

\* A request that is not there.
LEMMA NoRequestFacts ==
  /\ NoRequest \in Requests /\ NoRequest.pc = "idle" /\ NoRequest.conn = 0 /\ NoRequest.looked = 0
<1>1. NoToken \in Tokens
  BY DEF NoToken, Tokens
<1> QED
  BY <1>1 DEF NoRequest, Requests, ReqLabels

\* What an answer leaves of a request.
LEMMA IdleFacts ==
  ASSUME ProxyType, NEW c \in Clients, Idle(c)
  PROVE  \E q \in Requests :
           /\ req' = [req EXCEPT ![c] = q] /\ req'[c] = q /\ \A d \in Clients : d # c => req'[d] = req[d]
           /\ q.conn = req[c].conn /\ q.looked = 0 /\ q.pc = "connected"
<1> DEFINE k == req[c].conn
           q == [NoRequest EXCEPT !.pc = "connected", !.conn = k]
<1>1. k \in {0, 1} /\ req \in [Clients -> Requests]
  BY RequestFacts DEF ProxyType
<1>2. req' = [req EXCEPT ![c] = q]
  BY DEF Idle
<1> HIDE DEF k
<1>3. q \in Requests /\ q.conn = k /\ q.looked = 0 /\ q.pc = "connected"
  <2>1. NoRequest \in Requests /\ NoRequest.looked = 0
    BY NoRequestFacts
  <2> QED
    BY <1>1, <2>1 DEF Requests, ReqLabels
<1> HIDE DEF q
<1>4. req'[c] = q /\ \A d \in Clients : d # c => req'[d] = req[d]
  BY <1>1, <1>2
<1> QED
  BY <1>2, <1>3, <1>4 DEF k

\* The constructors: GetConnection is called, answered or refused.
LEMMA NewReaderStep ==
  ASSUME ProxyInv, StepInv, NEW c \in Clients, NewReaderOf(c)
  PROVE  StepInv' /\ (UNCHANGED proxyVars \/ Caller(c))
<1>0. ProxyType /\ UNCHANGED table /\ UNCHANGED <<cfg, connection, trippers, clock, issued>>
  BY DEF ProxyInv, NewReaderOf
<1>1. /\ step[c] \in StepRecords /\ Stored(step[c], table[step[c].kind]) /\ Coupled(step[c], req[c])
      /\ table \in [Kinds -> SUBSET Hours] /\ step[c].pc = "build"
  BY ClientFacts DEF NewReaderOf, At
<1>2. CASE /\ step[c].ref /\ req[c].pc = "idle" /\ UNCHANGED step
           /\ req' = [req EXCEPT ![c] = [@ EXCEPT !.pc = "get"]]
  <2> DEFINE q == [req[c] EXCEPT !.pc = "get"]
  <2>1. req[c] \in Requests /\ req \in [Clients -> Requests]
    BY <1>0 DEF ProxyType
  <2>2. q \in Requests /\ q.pc = "get" /\ q.conn = req[c].conn /\ q.looked = req[c].looked
    BY <2>1 DEF Requests, ReqLabels
  <2>3. req' = [req EXCEPT ![c] = q]
    BY <1>2
  <2> HIDE DEF q
  <2>4. req'[c] = q /\ \A d \in Clients : d # c => req'[d] = req[d]
    BY <2>1, <2>3
  <2>5. Caller(c)
    BY <1>0, <1>2, <2>2, <2>3 DEF Caller, AtRest
  <2>6. Coupled(step[c], req'[c])
    BY <1>1, <1>2, <2>2, <2>4 DEF Coupled
  <2>7. StepInv'
    BY <1>0, <1>2, <2>4, <2>6 DEF StepInv, StepType
  <2> QED
    BY <2>5, <2>7
<1>3. CASE Goto(c, "failed") /\ UNCHANGED req /\ req[c].pc = "failed"
  BY <1>0, <1>1, <1>3, GivesUp DEF proxyVars, Coupled
<1>4. CASE (~step[c].ref \/ req[c].pc = "connected") /\ Goto(c, "open") /\ UNCHANGED req
  <2> DEFINE r == [step[c] EXCEPT !.pc = "open"]
  <2>1. Keeps(r, step[c]) /\ r.pc = "open" /\ step' = [step EXCEPT ![c] = r]
    BY <1>1, <1>4, GotoFacts DEF Goto, StepLabels
  <2> HIDE DEF r
  <2>2. r \in StepRecords /\ r.kind = step[c].kind /\ r.ref = step[c].ref /\ r.ref \in BOOLEAN
    BY <2>1, RecordFacts DEF Keeps
  <2>3. Stored(r, table'[r.kind])
    BY <1>1, <2>1, StoredNothing
  <2>4. Coupled(r, req'[c])
    BY <1>1, <1>4, <2>1, <2>2 DEF Coupled, OnTheWay
  <2> QED
    BY <1>0, <1>1, <1>4, <2>1, <2>2, <2>3, <2>4, Advance DEF proxyVars
<1> QED
  BY <1>2, <1>3, <1>4 DEF NewReaderOf

\* Open sends the first request.
LEMMA OpenStep ==
  ASSUME ProxyInv, StepInv, NEW c \in Clients, Open(c)
  PROVE  StepInv' /\ (UNCHANGED proxyVars \/ Caller(c))
<1>0. ProxyType /\ UNCHANGED table /\ UNCHANGED <<cfg, connection, trippers, clock, issued>>
  BY DEF ProxyInv, Open
<1>1. /\ step[c] \in StepRecords /\ Stored(step[c], table[step[c].kind]) /\ Coupled(step[c], req[c])
      /\ table \in [Kinds -> SUBSET Hours] /\ step[c].pc = "open" /\ step[c].ref \in BOOLEAN
  BY ClientFacts, RecordFacts DEF Open, At
<1> DEFINE s == IF step[c].kind = "forecast" THEN Restore(step[c]) ELSE step[c]
           r == [s EXCEPT !.pc = "fetch"]
<1>2. step' = [step EXCEPT ![c] = r]
  BY DEF Open
<1>3. Keeps(s, step[c])
  BY <1>1, RestoreFacts DEF Keeps
<1> HIDE DEF s
<1>4. s \in StepRecords /\ Keeps(r, s) /\ r.pc = "fetch"
  BY <1>3, GotoFacts DEF Keeps, StepLabels
<1> HIDE DEF r
<1>5. Keeps(r, step[c])
  BY <1>3, <1>4 DEF Keeps
<1>6. r \in StepRecords /\ r.kind = step[c].kind /\ r.ref = step[c].ref
  BY <1>5 DEF Keeps
<1>7. PICK q \in Requests :
           /\ req' = [req EXCEPT ![c] = q] /\ req'[c] = q /\ \A d \in Clients : d # c => req'[d] = req[d]
           /\ q.conn = req[c].conn /\ q.looked = req[c].looked
           /\ q.pc = IF step[c].ref THEN "do" ELSE IF step[c].kind = "forecast" THEN "failed" ELSE "sent"
  BY <1>0, SendFacts DEF Open
<1>8. Caller(c)
  BY <1>0, <1>1, <1>7 DEF Caller, AtRest, Coupled
<1>9. Coupled(r, req'[c])
  BY <1>1, <1>4, <1>6, <1>7 DEF Coupled, OnTheWay
<1>10. Stored(r, table'[r.kind])
  BY <1>1, <1>4, <1>5, StoredNothing
<1> QED
  BY <1>0, <1>1, <1>2, <1>6, <1>7, <1>8, <1>9, <1>10, Advance

\* The answer replaces what the reader had; nothing of it is read yet.
LEMMA FetchAnswerStep ==
  ASSUME ProxyInv, StepInv, NEW c \in Clients, FetchAnswer(c)
  PROVE  StepInv' /\ (UNCHANGED proxyVars \/ Caller(c))
<1>0. ProxyType /\ UNCHANGED table /\ UNCHANGED <<cfg, connection, trippers, clock, issued>>
  BY DEF ProxyInv, FetchAnswer
<1>1. /\ step[c] \in StepRecords /\ Stored(step[c], table[step[c].kind]) /\ Coupled(step[c], req[c])
      /\ table \in [Kinds -> SUBSET Hours] /\ step[c].pc \in {"fetch", "refetch"} /\ req[c].pc = "sent"
      /\ step[c].ref \in BOOLEAN
  BY ClientFacts, RecordFacts DEF FetchAnswer
<1>2. PICK w \in Windows :
        LET s == [step[c] EXCEPT !.data = w, !.index = 0, !.fetched = w] IN
        step' = [step EXCEPT ![c] = IF At(c, "fetch") THEN [s EXCEPT !.pc = "writer"] ELSE Begin(s)]
  BY DEF FetchAnswer
<1> DEFINE s == [step[c] EXCEPT !.data = w, !.index = 0, !.fetched = w]
           r == IF At(c, "fetch") THEN [s EXCEPT !.pc = "writer"] ELSE Begin(s)
<1>3. w \in Seq(Hours)
  BY WeatherAssumption
<1>4. Keeps(s, step[c]) /\ Holds(s, w, 0, step[c].items, w)
  BY <1>1, <1>3, FetchedFacts
<1> HIDE DEF s
<1>5. s \in StepRecords
  BY <1>4 DEF Keeps
<1>6. /\ Keeps(r, s) /\ r.pc \in {"writer", "read"}
      /\ r.data = s.data /\ r.index = s.index /\ r.fetched = s.fetched
  BY <1>5, GotoFacts, BeginFacts DEF StepLabels, Holds
<1>7. step' = [step EXCEPT ![c] = r]
  BY <1>2 DEF s
<1> HIDE DEF r
<1>8. /\ Keeps(r, step[c]) /\ r \in StepRecords /\ r.kind = step[c].kind /\ r.ref = step[c].ref
      /\ r.data = w /\ r.fetched = w /\ r.index = 0
  BY <1>4, <1>6 DEF Keeps, Holds
<1>9. PICK q \in Requests :
           /\ req' = [req EXCEPT ![c] = q] /\ req'[c] = q /\ \A d \in Clients : d # c => req'[d] = req[d]
           /\ q.conn = req[c].conn /\ q.looked = 0 /\ q.pc = "connected"
  BY <1>0, IdleFacts DEF FetchAnswer
<1>10. Caller(c)
  BY <1>0, <1>1, <1>9 DEF Caller, AtRest
<1>11. Coupled(r, req'[c])
  BY <1>1, <1>6, <1>8, <1>9 DEF Coupled, OnTheWay
<1>12. \A i \in DOMAIN w : ~(i <= 0)
  BY <1>3
<1>13. Stored(r, table'[r.kind])
  BY <1>1, <1>6, <1>8, <1>12 DEF Stored, Keeps
<1> QED
  BY <1>0, <1>1, <1>7, <1>8, <1>9, <1>10, <1>11, <1>13, Advance

\* No answer: the first Open fails the step, a later one is marked.
LEMMA FetchFailsStep ==
  ASSUME ProxyInv, StepInv, NEW c \in Clients, FetchFails(c)
  PROVE  StepInv' /\ (UNCHANGED proxyVars \/ Caller(c))
<1>0. ProxyType /\ UNCHANGED table /\ UNCHANGED <<cfg, connection, trippers, clock, issued>>
  BY DEF ProxyInv, FetchFails
<1>1. /\ step[c] \in StepRecords /\ Stored(step[c], table[step[c].kind]) /\ Coupled(step[c], req[c])
      /\ table \in [Kinds -> SUBSET Hours] /\ step[c].pc \in {"fetch", "refetch"}
      /\ req[c].pc \in {"sent", "failed"} /\ step[c].ref \in BOOLEAN
  BY ClientFacts, RecordFacts DEF FetchFails
<1>2. PICK q \in Requests :
           /\ req' = [req EXCEPT ![c] = q] /\ req'[c] = q /\ \A d \in Clients : d # c => req'[d] = req[d]
           /\ q.conn = req[c].conn /\ q.looked = 0 /\ q.pc = "connected"
  BY <1>0, IdleFacts DEF FetchFails
<1>3. Caller(c)
  BY <1>0, <1>1, <1>2 DEF Caller, AtRest
<1>4. CASE Goto(c, "failed")
  BY <1>0, <1>1, <1>2, <1>3, <1>4, GivesUp DEF Coupled
<1>5. CASE step' = [step EXCEPT ![c] = [Begin(@) EXCEPT !.reopenFailed = TRUE]]
  <2> DEFINE r == [Begin(step[c]) EXCEPT !.reopenFailed = TRUE]
  <2>1. /\ r \in StepRecords /\ r.kind = step[c].kind /\ r.ref = step[c].ref /\ r.ec = step[c].ec
        /\ r.nested = step[c].nested /\ r.reopenFailed = TRUE /\ r.retries = step[c].retries
        /\ r.pc = "read" /\ step' = [step EXCEPT ![c] = r]
    BY <1>1, <1>5, ReopenFailedFacts
  <2> HIDE DEF r
  <2>2. Stored(r, table'[r.kind])
    BY <1>1, <2>1 DEF Stored
  <2>3. Coupled(r, req'[c])
    BY <1>1, <1>2, <2>1 DEF Coupled, OnTheWay
  <2> QED
    BY <1>0, <1>1, <1>2, <1>3, <2>1, <2>2, <2>3, Advance
<1> QED
  BY <1>4, <1>5 DEF FetchFails

\* Steps between two chunks, and the end.
LEMMA OpenWriterStep ==
  ASSUME StepInv, NEW c \in Clients, OpenWriter(c)
  PROVE  StepInv'
<1>0. UNCHANGED table /\ req' = req
  BY DEF OpenWriter, proxyVars
<1>1. /\ step[c] \in StepRecords /\ Stored(step[c], table[step[c].kind]) /\ Coupled(step[c], req[c])
      /\ table \in [Kinds -> SUBSET Hours] /\ step[c].pc = "writer"
      /\ step[c].ref \in BOOLEAN /\ step[c].fetched \in Seq(Hours)
  BY ClientFacts, RecordFacts DEF OpenWriter, At
<1>2. CASE step' = [step EXCEPT ![c] = Begin(@)]
  <2> DEFINE r == Begin(step[c])
  <2>1. /\ Keeps(r, step[c]) /\ r.pc = "read" /\ step' = [step EXCEPT ![c] = r]
        /\ Holds(r, step[c].data, step[c].index, {}, step[c].fetched)
    BY <1>1, <1>2, BeginFacts
  <2> HIDE DEF r
  <2>2. r \in StepRecords /\ r.kind = step[c].kind /\ r.ref = step[c].ref
    BY <2>1 DEF Keeps
  <2>3. \A i \in DOMAIN step[c].fetched : ~(i <= 0)
    BY <1>1
  <2>4. Stored(r, table'[r.kind])
    BY <1>0, <1>1, <2>1, <2>2, <2>3 DEF Stored, Keeps, Holds
  <2>5. Coupled(r, req'[c])
    BY <1>0, <1>1, <2>1, <2>2 DEF Coupled
  <2> QED
    BY <1>0, <1>1, <2>1, <2>2, <2>4, <2>5, Advance
<1>3. CASE Goto(c, "failed")
  BY <1>0, <1>1, <1>3, GivesUp DEF Coupled
<1> QED
  BY <1>2, <1>3 DEF OpenWriter

\* An hour is read, and is an item of the chunk.
LEMMA ReadItemStep ==
  ASSUME StepInv, NEW c \in Clients, ReadItem(c)
  PROVE  StepInv'
<1>0. UNCHANGED table /\ req' = req
  BY DEF ReadItem, proxyVars
<1>1. /\ step[c] \in StepRecords /\ Stored(step[c], table[step[c].kind]) /\ Coupled(step[c], req[c])
      /\ table \in [Kinds -> SUBSET Hours] /\ step[c].pc = "read" /\ step[c].index < Len(step[c].data)
      /\ step[c].data \in Seq(Hours) /\ step[c].index \in Nat /\ step[c].ref \in BOOLEAN
  BY ClientFacts, RecordFacts DEF ReadItem, Reading, At, AtEnd
<1>2. Hour(c) \in Hours
  BY <1>1 DEF Hour
<1> DEFINE s == step[c]
           r == [s EXCEPT !.index = s.index + 1, !.read = s.read + 1, !.items = s.items \cup {Hour(c)}]
<1>3. /\ Keeps(r, step[c]) /\ r.pc = "read"
      /\ Holds(r, step[c].data, step[c].index + 1, step[c].items \cup {Hour(c)}, step[c].fetched)
  BY <1>1, <1>2, ReadFacts
<1>4. step' = [step EXCEPT ![c] = r]
  BY DEF ReadItem
<1> HIDE DEF r
<1>5. r \in StepRecords /\ r.kind = step[c].kind /\ r.ref = step[c].ref
  BY <1>3 DEF Keeps
<1>6. ASSUME ~r.reopenFailed, r.retries < 2
      PROVE  /\ r.data = r.fetched
             /\ \A i \in DOMAIN r.fetched :
                  i <= r.index => r.fetched[i] \in Unparsable \cup table[r.kind] \cup r.items
  <2>1. step[c].data = step[c].fetched
    BY <1>1, <1>3, <1>6 DEF Stored, Keeps
  <2>2. \A i \in DOMAIN step[c].fetched : i <= step[c].index =>
          step[c].fetched[i] \in Unparsable \cup table[step[c].kind] \cup step[c].items
    BY <1>1, <1>3, <1>6 DEF Stored, Keeps
  <2>3. \A i \in DOMAIN step[c].fetched : i <= step[c].index + 1 => i <= step[c].index \/ i = step[c].index + 1
    BY <1>1, <2>1
  <2>4. step[c].fetched[step[c].index + 1] = Hour(c)
    BY <2>1 DEF Hour
  <2> QED
    BY <1>3, <1>5, <2>1, <2>2, <2>3, <2>4 DEF Holds
<1>7. Stored(r, table'[r.kind])
  BY <1>0, <1>1, <1>3, <1>6 DEF Stored, Keeps
<1>8. Coupled(r, req'[c])
  BY <1>0, <1>1, <1>3, <1>5 DEF Coupled
<1> QED
  BY <1>0, <1>1, <1>4, <1>5, <1>7, <1>8, Advance

\* An hour that cannot be parsed is passed over, or fails the step.
LEMMA ProcessFailsStep ==
  ASSUME StepInv, NEW c \in Clients, ProcessFails(c)
  PROVE  StepInv'
<1>0. UNCHANGED table /\ req' = req /\ Hour(c) \in Unparsable
  BY DEF ProcessFails, proxyVars
<1>1. /\ step[c] \in StepRecords /\ Stored(step[c], table[step[c].kind]) /\ Coupled(step[c], req[c])
      /\ table \in [Kinds -> SUBSET Hours] /\ step[c].pc = "read" /\ step[c].index < Len(step[c].data)
      /\ step[c].data \in Seq(Hours) /\ step[c].index \in Nat /\ step[c].ref \in BOOLEAN
  BY ClientFacts, RecordFacts DEF ProcessFails, Reading, At, AtEnd
<1> DEFINE s == step[c]
           r == [s EXCEPT !.index = s.index + 1, !.read = s.read + 1, !.skips = s.skips + 1]
<1>2. CASE step' = [step EXCEPT ![c] = r]
  <2>1. /\ Keeps(r, step[c]) /\ r.pc = "read"
        /\ Holds(r, step[c].data, step[c].index + 1, step[c].items, step[c].fetched)
    BY <1>1, SkipFacts
  <2>2. step' = [step EXCEPT ![c] = r]
    BY <1>2
  <2> HIDE DEF r
  <2>3. r \in StepRecords /\ r.kind = step[c].kind /\ r.ref = step[c].ref
    BY <2>1 DEF Keeps
  <2>4. ASSUME ~r.reopenFailed, r.retries < 2
        PROVE  /\ r.data = r.fetched
               /\ \A i \in DOMAIN r.fetched :
                    i <= r.index => r.fetched[i] \in Unparsable \cup table[r.kind] \cup r.items
    <3>1. step[c].data = step[c].fetched
      BY <1>1, <2>1, <2>4 DEF Stored, Keeps
    <3>2. \A i \in DOMAIN step[c].fetched : i <= step[c].index =>
            step[c].fetched[i] \in Unparsable \cup table[step[c].kind] \cup step[c].items
      BY <1>1, <2>1, <2>4 DEF Stored, Keeps
    <3>3. \A i \in DOMAIN step[c].fetched :
            i <= step[c].index + 1 => i <= step[c].index \/ i = step[c].index + 1
      BY <1>1, <3>1
    <3>4. step[c].fetched[step[c].index + 1] = Hour(c)
      BY <3>1 DEF Hour
    <3> QED
      BY <1>0, <2>1, <2>3, <3>1, <3>2, <3>3, <3>4 DEF Holds
  <2>5. Stored(r, table'[r.kind])
    BY <1>0, <1>1, <2>1, <2>4 DEF Stored, Keeps
  <2>6. Coupled(r, req'[c])
    BY <1>0, <1>1, <2>1, <2>3 DEF Coupled
  <2> QED
    BY <1>0, <1>1, <2>2, <2>3, <2>5, <2>6, Advance
<1>3. CASE Goto(c, "failed")
  BY <1>0, <1>1, <1>3, GivesUp DEF Coupled
<1> QED
  BY <1>2, <1>3 DEF ProcessFails

\* All hours are read when io.EOF is.
LEMMA ReadEOFStep ==
  ASSUME StepInv, NEW c \in Clients, ReadEOF(c)
  PROVE  StepInv'
<1>0. UNCHANGED table /\ req' = req
  BY DEF ReadEOF, proxyVars
<1>1. /\ step[c] \in StepRecords /\ Stored(step[c], table[step[c].kind]) /\ Coupled(step[c], req[c])
      /\ table \in [Kinds -> SUBSET Hours] /\ step[c].pc = "read" /\ step[c].index >= Len(step[c].data)
      /\ step[c].data \in Seq(Hours) /\ step[c].index \in Nat /\ step[c].ref \in BOOLEAN
  BY ClientFacts, RecordFacts DEF ReadEOF, At, AtEnd
<1> DEFINE s == IF step[c].kind = "forecast" THEN [step[c] EXCEPT !.data = <<>>, !.index = 0] ELSE step[c]
           l == IF step[c].items # {} THEN "lastWrite" ELSE "end"
           r == [s EXCEPT !.pc = l]
<1>2. step' = [step EXCEPT ![c] = r]
  BY DEF ReadEOF
<1>3. Keeps(s, step[c]) /\ s.items = step[c].items /\ s.fetched = step[c].fetched
  BY <1>1, ForgetFacts DEF Keeps, Holds
<1> HIDE DEF s
<1>4. s \in StepRecords /\ l \in StepLabels
  BY <1>3 DEF Keeps, StepLabels
<1> HIDE DEF l
<1>5. Keeps(r, s) /\ r.pc = l /\ r.items = s.items /\ r.fetched = s.fetched
  BY <1>4, GotoFacts DEF Holds
<1> HIDE DEF r
<1>6. Keeps(r, step[c]) /\ r.pc = l /\ r.items = step[c].items /\ r.fetched = step[c].fetched
  BY <1>3, <1>5 DEF Keeps
<1>7. r \in StepRecords /\ r.kind = step[c].kind /\ r.ref = step[c].ref
  BY <1>6 DEF Keeps
<1>8. ASSUME ~r.reopenFailed, r.retries < 2
      PROVE  \A i \in DOMAIN r.fetched : r.fetched[i] \in Unparsable \cup table[r.kind] \cup r.items
  <2>1. step[c].data = step[c].fetched
    BY <1>1, <1>6, <1>8 DEF Stored, Keeps
  <2>2. \A i \in DOMAIN step[c].fetched : i <= step[c].index =>
          step[c].fetched[i] \in Unparsable \cup table[step[c].kind] \cup step[c].items
    BY <1>1, <1>6, <1>8 DEF Stored, Keeps
  <2>3. \A i \in DOMAIN step[c].fetched : i <= step[c].index
    BY <1>1, <2>1
  <2> QED
    BY <1>6, <1>7, <2>2, <2>3
<1>9. Stored(r, table'[r.kind])
  BY <1>0, <1>1, <1>6, <1>8 DEF Stored, Keeps, l
<1>10. Coupled(r, req'[c])
  BY <1>0, <1>1, <1>6, <1>7 DEF Coupled, l
<1> QED
  BY <1>0, <1>1, <1>2, <1>7, <1>9, <1>10, Advance

\* The items of a chunk are in the table before the next chunk begins.
LEMMA WriteStep ==
  ASSUME StepInv, NEW c \in Clients, Write(c)
  PROVE  StepInv'
<1>0. req' = req
  BY DEF Write, proxyVars
<1>1. /\ step[c] \in StepRecords /\ Stored(step[c], table[step[c].kind]) /\ Coupled(step[c], req[c])
      /\ table \in [Kinds -> SUBSET Hours] /\ step[c].pc \in {"read", "lastWrite"}
      /\ step[c].kind \in Kinds /\ step[c].items \in SUBSET Hours /\ step[c].ref \in BOOLEAN
  BY ClientFacts, RecordFacts DEF Write, ChunkRead, At
<1>2. table' = [table EXCEPT ![step[c].kind] = @ \cup step[c].items]
  BY DEF Write
<1>3. /\ table' \in [Kinds -> SUBSET Hours] /\ \A k \in Kinds : table[k] \subseteq table'[k]
      /\ table'[step[c].kind] = table[step[c].kind] \cup step[c].items
  BY <1>1, <1>2
<1>4. CASE step[c].pc = "lastWrite" /\ step' = [step EXCEPT ![c] = [@ EXCEPT !.pc = "end"]]
  <2> DEFINE r == [step[c] EXCEPT !.pc = "end"]
  <2>1. /\ Keeps(r, step[c]) /\ r.pc = "end" /\ step' = [step EXCEPT ![c] = r]
        /\ r.fetched = step[c].fetched
    BY <1>1, <1>4, GotoFacts DEF StepLabels, Holds
  <2> HIDE DEF r
  <2>2. r \in StepRecords /\ r.kind = step[c].kind /\ r.ref = step[c].ref
    BY <2>1 DEF Keeps
  <2>3. Stored(r, table'[r.kind])
    BY <1>1, <1>3, <1>4, <2>1, <2>2 DEF Stored, Keeps
  <2>4. Coupled(r, req'[c])
    BY <1>0, <1>1, <2>1, <2>2 DEF Coupled
  <2> QED
    BY <1>0, <1>3, <2>1, <2>2, <2>3, <2>4, Advance
<1>5. CASE step[c].pc = "read" /\ step' = [step EXCEPT ![c] = Begin(@)]
  <2> DEFINE r == Begin(step[c])
  <2>1. /\ Keeps(r, step[c]) /\ r.pc = "read" /\ step' = [step EXCEPT ![c] = r]
        /\ Holds(r, step[c].data, step[c].index, {}, step[c].fetched)
    BY <1>1, <1>5, BeginFacts
  <2> HIDE DEF r
  <2>2. r \in StepRecords /\ r.kind = step[c].kind /\ r.ref = step[c].ref
    BY <2>1 DEF Keeps
  <2>3. Stored(r, table'[r.kind])
    BY <1>1, <1>3, <1>5, <2>1, <2>2 DEF Stored, Keeps, Holds
  <2>4. Coupled(r, req'[c])
    BY <1>0, <1>1, <2>1, <2>2 DEF Coupled
  <2> QED
    BY <1>0, <1>3, <2>1, <2>2, <2>3, <2>4, Advance
<1> QED
  BY <1>1, <1>4, <1>5 DEF Write, At

\* A retry of the chunk: the first one fetches again, a later one is not claimed.
LEMMA WriteFailsStep ==
  ASSUME ProxyInv, StepInv, NEW c \in Clients, WriteFails(c)
  PROVE  StepInv' /\ (UNCHANGED proxyVars \/ Caller(c))
<1>0. ProxyType /\ UNCHANGED table /\ UNCHANGED <<cfg, connection, trippers, clock, issued>>
  BY DEF ProxyInv, WriteFails
<1>1. /\ step[c] \in StepRecords /\ Stored(step[c], table[step[c].kind]) /\ Coupled(step[c], req[c])
      /\ table \in [Kinds -> SUBSET Hours] /\ step[c].pc \in {"read", "lastWrite"}
      /\ step[c].ref \in BOOLEAN /\ step[c].retries \in Nat
  BY ClientFacts, RecordFacts DEF WriteFails, ChunkRead, At
<1> DEFINE s == Reopen(step[c])
<1>2. /\ s \in StepRecords /\ s.kind = step[c].kind /\ s.ref = step[c].ref
      /\ s.retries = step[c].retries + 1
      /\ step[c].retries = 0 => s.data = <<>>
  BY <1>1, ReopenFacts DEF Stored
<1>3. CASE Goto(c, "failed") /\ UNCHANGED req
  BY <1>0, <1>1, <1>3, GivesUp DEF Coupled, proxyVars
<1>4. CASE step' = [step EXCEPT ![c] = [s EXCEPT !.pc = "refetch"]] /\ Send(c)
  <2> HIDE DEF s
  <2> DEFINE r == [s EXCEPT !.pc = "refetch"]
  <2>1. Keeps(r, s) /\ r.pc = "refetch" /\ step' = [step EXCEPT ![c] = r]
    BY <1>2, <1>4, GotoFacts DEF StepLabels
  <2> HIDE DEF r
  <2>2. r \in StepRecords /\ r.kind = step[c].kind /\ r.ref = step[c].ref /\ r.retries # 0
    BY <1>1, <1>2, <2>1 DEF Keeps
  <2>3. Stored(r, table'[r.kind])
    BY <2>1, <2>2 DEF Stored
  <2>4. PICK q \in Requests :
           /\ req' = [req EXCEPT ![c] = q] /\ req'[c] = q /\ \A d \in Clients : d # c => req'[d] = req[d]
           /\ q.conn = req[c].conn /\ q.looked = req[c].looked
           /\ q.pc = IF step[c].ref THEN "do" ELSE IF step[c].kind = "forecast" THEN "failed" ELSE "sent"
    BY <1>0, <1>4, SendFacts
  <2>5. Caller(c)
    BY <1>0, <1>1, <2>4 DEF Caller, AtRest, Coupled
  <2>6. Coupled(r, req'[c])
    BY <1>1, <2>1, <2>2, <2>4 DEF Coupled, OnTheWay
  <2> QED
    BY <1>0, <1>1, <2>1, <2>2, <2>3, <2>4, <2>5, <2>6, Advance
<1>5. CASE s.data # <<>> /\ step' = [step EXCEPT ![c] = Begin(s)] /\ UNCHANGED req
  <2> DEFINE r == Begin(s)
  <2>0. s.data # <<>> /\ step' = [step EXCEPT ![c] = r] /\ UNCHANGED req
    BY <1>5
  <2> HIDE DEF s
  <2>1. Keeps(r, s) /\ r.pc = "read"
    BY <1>2, BeginFacts
  <2> HIDE DEF r
  <2>2. r \in StepRecords /\ r.kind = step[c].kind /\ r.ref = step[c].ref /\ r.retries >= 2
    BY <1>1, <1>2, <2>0, <2>1 DEF Keeps
  <2>3. r.retries \in Nat
    BY <2>2, RecordFacts
  <2>4. Stored(r, table'[r.kind])
    BY <2>2, <2>3 DEF Stored
  <2>5. Coupled(r, req'[c])
    BY <1>1, <2>0, <2>1, <2>2 DEF Coupled
  <2> QED
    BY <1>0, <1>1, <2>0, <2>2, <2>4, <2>5, Advance DEF proxyVars
<1> QED
  BY <1>3, <1>4, <1>5 DEF WriteFails

\* A step that is interrupted or cannot read gives up.
LEMMA FailureSteps ==
  ASSUME StepInv, NEW c \in Clients, ReadFails(c) \/ Interrupted(c)
  PROVE  StepInv'
<1>1. step[c].ref \in BOOLEAN /\ Coupled(step[c], req[c])
  BY ClientFacts, RecordFacts
<1>2. /\ UNCHANGED table /\ req' = req /\ Goto(c, "failed")
      /\ step[c].pc \in {"open", "writer", "read", "lastWrite", "end"}
  BY DEF ReadFails, Interrupted, Reading, At, proxyVars
<1> QED
  BY <1>1, <1>2, GivesUp DEF Coupled

\* COMPLETED.
LEMMA CompleteStep ==
  ASSUME StepInv, NEW c \in Clients, Complete(c)
  PROVE  StepInv'
<1>0. UNCHANGED table /\ req' = req
  BY DEF Complete, proxyVars
<1>1. /\ step[c] \in StepRecords /\ Stored(step[c], table[step[c].kind]) /\ Coupled(step[c], req[c])
      /\ table \in [Kinds -> SUBSET Hours] /\ step[c].pc = "end" /\ step[c].ref \in BOOLEAN
  BY ClientFacts, RecordFacts DEF Complete, At
<1> DEFINE r == [step[c] EXCEPT !.pc = "completed"]
<1>2. /\ Keeps(r, step[c]) /\ r.pc = "completed" /\ step' = [step EXCEPT ![c] = r]
      /\ r.fetched = step[c].fetched
  BY <1>1, GotoFacts DEF StepLabels, Holds, Complete, Goto
<1> HIDE DEF r
<1>3. r \in StepRecords /\ r.kind = step[c].kind /\ r.ref = step[c].ref
  BY <1>2 DEF Keeps
<1>4. Stored(r, table'[r.kind])
  BY <1>0, <1>1, <1>2, <1>3 DEF Stored, Keeps
<1>5. Coupled(r, req'[c])
  BY <1>0, <1>1, <1>2, <1>3 DEF Coupled
<1> QED
  BY <1>0, <1>1, <1>2, <1>3, <1>4, <1>5, Advance

\* A restart has new readers and an empty map.
LEMMA RestartStep ==
  ASSUME ProxyInv, StepInv, NEW c \in Clients, Restart(c)
  PROVE  StepInv' /\ Caller(c)
<1>0. /\ ProxyType /\ UNCHANGED table /\ UNCHANGED <<cfg, connection, trippers, clock, issued>>
      /\ req \in [Clients -> Requests]
  BY DEF ProxyInv, Restart, ProxyType
<1>1. /\ step[c] \in StepRecords /\ Coupled(step[c], req[c]) /\ table \in [Kinds -> SUBSET Hours]
      /\ step[c].pc = "failed" /\ step[c].kind \in Kinds /\ step[c].ref \in BOOLEAN /\ step[c].run + 1 \in Nat
  BY ClientFacts, RecordFacts DEF Restart, At
<1> DEFINE r == NewReader(step[c].kind, step[c].ref, step[c].run + 1)
<1>2. /\ r \in StepRecords /\ r.kind = step[c].kind /\ r.ref = step[c].ref /\ r.pc = "build"
      /\ r.ec = "checkpoint" /\ r.nested["step"] = NoState
  BY <1>1, NewReaderFacts
<1>3. step' = [step EXCEPT ![c] = r]
  BY DEF Restart
<1> HIDE DEF r
<1>4. req' = [req EXCEPT ![c] = NoRequest]
  BY DEF Restart
<1>5. req'[c] = NoRequest /\ \A d \in Clients : d # c => req'[d] = req[d]
  BY <1>0, <1>4
<1>6. Caller(c)
  BY <1>0, <1>1, <1>4, NoRequestFacts DEF Caller, AtRest, Coupled
<1>7. Coupled(r, req'[c])
  BY <1>1, <1>2, <1>5, NoRequestFacts DEF Coupled, OnTheWay
<1>8. Stored(r, table'[r.kind])
  BY <1>2 DEF Stored
<1> QED
  BY <1>0, <1>1, <1>2, <1>3, <1>5, <1>6, <1>7, <1>8, Advance

-----------------------------------------------------------------------------
(* Proxy and steps together.                                               *)

\* The proxy moves requests that are under way, and only for a step that waits for
\* one.
LEMMA RequestSteps ==
  ASSUME ProxyInv, StepInv, NEW c \in Clients, Requesting(c) \/ TokenRefused(c),
         UNCHANGED <<step, table>>
  PROVE  StepInv'
<1>0. ProxyType /\ Coupled(step[c], req[c]) /\ step[c].ref \in BOOLEAN
  BY ClientFacts, RecordFacts DEF ProxyInv
<1>1. \A d \in Clients : d # c => req'[d] = req[d]
  BY GetConnectionEffect, CreateConnectionEffect, RoundTripEffect, LookAtTokenEffect,
     LookAtExpiryEffect, RefreshEffect, TokenAnswerEffect, StoreTokenEffect, StoreExpiryEffect,
     UseTokenEffect, TokenRefusedEffect DEF Requesting, ReqBecomes
<1>2. SUFFICES Coupled(step[c], req'[c])
  BY <1>1 DEF StepInv, StepType
<1>3. CASE GetConnection(c)
  BY <1>0, <1>3, GetConnectionEffect DEF ReqBecomes, Coupled, OnTheWay
<1>4. CASE CreateConnection(c)
  BY <1>0, <1>4, CreateConnectionEffect DEF ReqBecomes, Coupled, OnTheWay
<1>5. ASSUME req[c].pc \in OnTheWay, req[c].conn = 1, req'[c].conn = 1,
             req'[c].pc \in OnTheWay \cup {"sent", "failed"}
      PROVE  Coupled(step[c], req'[c])
  BY <1>0, <1>5 DEF Coupled, OnTheWay
<1>6. ASSUME req[c].pc \in OnTheWay PROVE req[c].conn = 1
  BY <1>6 DEF ProxyInv, Connected
<1>7. CASE RoundTrip(c)
  BY <1>5, <1>6, <1>7, RoundTripEffect DEF ReqBecomes, OnTheWay
<1>8. CASE LookAtToken(c)
  BY <1>5, <1>8, LookAtTokenEffect DEF ReqBecomes, OnTheWay
<1>9. CASE LookAtExpiry(c)
  BY <1>5, <1>9, LookAtExpiryEffect DEF ReqBecomes, OnTheWay
<1>10. CASE RefreshOAuth2Token(c)
  BY <1>5, <1>10, RefreshEffect DEF ReqBecomes, OnTheWay
<1>11. CASE TokenAnswer(c)
  BY <1>5, <1>11, TokenAnswerEffect DEF ReqBecomes, OnTheWay
<1>12. CASE StoreToken(c)
  BY <1>5, <1>12, StoreTokenEffect DEF ReqBecomes, OnTheWay
<1>13. CASE StoreExpiry(c)
  BY <1>5, <1>13, StoreExpiryEffect DEF ReqBecomes, OnTheWay
<1>14. CASE UseToken(c)
  BY <1>5, <1>14, UseTokenEffect DEF ReqBecomes, OnTheWay
<1>15. CASE TokenRefused(c)
  BY <1>5, <1>15, TokenRefusedEffect DEF ReqBecomes, OnTheWay
<1> QED
  BY <1>3, <1>4, <1>7, <1>8, <1>9, <1>10, <1>11, <1>12, <1>13, <1>14, <1>15 DEF Requesting

\* The actions of the steps use the proxy as a caller does.
LEMMA WorkSteps ==
  ASSUME ProxyInv, StepInv, NEW c \in Clients,
         Work(c) \/ WriteFails(c) \/ Interrupted(c) \/ Restart(c)
  PROVE  StepInv' /\ (UNCHANGED proxyVars \/ Caller(c))
<1>1. CASE OpenWriter(c)
  BY <1>1, OpenWriterStep DEF OpenWriter
<1>2. CASE ReadItem(c)
  BY <1>2, ReadItemStep DEF ReadItem
<1>3. CASE ProcessFails(c)
  BY <1>3, ProcessFailsStep DEF ProcessFails
<1>4. CASE ReadFails(c)
  BY <1>4, FailureSteps DEF ReadFails
<1>5. CASE ReadEOF(c)
  BY <1>5, ReadEOFStep DEF ReadEOF
<1>6. CASE Write(c)
  BY <1>6, WriteStep DEF Write
<1>7. CASE Complete(c)
  BY <1>7, CompleteStep DEF Complete
<1>8. CASE Interrupted(c)
  BY <1>8, FailureSteps DEF Interrupted
<1>9. CASE NewReaderOf(c) \/ Open(c) \/ FetchAnswer(c) \/ FetchFails(c) \/ WriteFails(c) \/ Restart(c)
  BY <1>9, NewReaderStep, OpenStep, FetchAnswerStep, FetchFailsStep, WriteFailsStep, RestartStep
<1> QED
  BY <1>1, <1>2, <1>3, <1>4, <1>5, <1>6, <1>7, <1>8, <1>9 DEF Work

\* Next is a step of the proxy with some caller, and keeps the invariant of the steps.
LEMMA Composed == ProxyInv /\ StepInv /\ [Next]_vars => StepInv' /\ [ProxyStep]_proxyVars
<1> SUFFICES ASSUME ProxyInv, StepInv, [Next]_vars PROVE StepInv' /\ [ProxyStep]_proxyVars
  OBVIOUS
<1>1. ASSUME NEW c \in Clients, Requesting(c), UNCHANGED weatherVars
      PROVE  StepInv' /\ [ProxyStep]_proxyVars
  BY <1>1, RequestSteps DEF weatherVars, ProxyStep
<1>2. ASSUME NEW c \in Clients, TokenRefused(c), UNCHANGED <<step, table>>
      PROVE  StepInv' /\ [ProxyStep]_proxyVars
  BY <1>2, RequestSteps DEF ProxyStep
<1>3. ASSUME NEW c \in Clients, Work(c) \/ WriteFails(c) \/ Interrupted(c) \/ Restart(c)
      PROVE  StepInv' /\ [ProxyStep]_proxyVars
  BY <1>3, WorkSteps DEF ProxyStep
<1>4. CASE Tick /\ UNCHANGED weatherVars
  <2>1. UNCHANGED <<step, table, req>>
    BY <1>4 DEF Tick, weatherVars
  <2> QED
    BY <1>4, <2>1 DEF ProxyStep, StepInv, StepType
<1>5. CASE UNCHANGED vars
  BY <1>5 DEF vars, proxyVars, weatherVars, StepInv, StepType
<1> QED
  BY <1>1, <1>2, <1>3, <1>4, <1>5 DEF Next

\* The invariant of the proxy, whoever calls.
LEMMA ProxyInvStep == ProxyInv /\ [ProxyStep]_proxyVars => ProxyInv'
BY ProxyTypeStep, ConnectedStep, TokenHolderStep, LastTokenStep, LapsedStep, FreshUseStep, SeenStep
DEF ProxyInv

\* At first there is no connection, no token and no reader.
LEMMA Initial == Init => ProxyInv /\ StepInv /\ NoStaleToken /\ OneTokenPerLapse
<1> SUFFICES ASSUME Init PROVE ProxyInv /\ StepInv /\ NoStaleToken /\ OneTokenPerLapse
  OBVIOUS
<1>1. /\ connection = 0 /\ trippers = <<>> /\ clock = 0 /\ issued = <<>>
      /\ req \in [Clients -> Requests] /\ \A c \in Clients : req[c] = NoRequest
  BY NoRequestFacts DEF Init, ProxyInit
<1>2. \A c \in Clients : req[c].pc = "idle" /\ req[c].conn = 0 /\ req[c].looked = 0
  BY <1>1, NoRequestFacts
<1>3. trippers \in Seq(Trippers) /\ Len(trippers) = 0 /\ issued \in Seq(IssuedTokens) /\ DOMAIN issued = {}
  BY <1>1
<1>4. ProxyInv
  BY <1>1, <1>2, <1>3
  DEF ProxyInv, ProxyType, Connected, TokenHolder, LastToken, Lapsed, FreshUse, Seen,
     OnTheWay, Refreshing
<1>5. NoStaleToken /\ OneTokenPerLapse
  BY <1>2, <1>3 DEF NoStaleToken, OneTokenPerLapse
<1>6. PICK j \in Jobs : step = [c \in Clients |-> NewReader(j[c].kind, j[c].ref, 1)]
  BY DEF Init, WeatherInit
<1>7. ASSUME NEW c \in Clients
      PROVE  step[c] \in StepRecords /\ Coupled(step[c], req[c]) /\ Stored(step[c], table[step[c].kind])
  <2>1. j[c].kind \in Kinds /\ j[c].ref \in BOOLEAN
    BY WeatherAssumption
  <2> DEFINE r == NewReader(j[c].kind, j[c].ref, 1)
  <2>2. /\ r \in StepRecords /\ r.ref = j[c].ref /\ r.pc = "build"
        /\ r.ec = "checkpoint" /\ r.nested["step"] = NoState
    BY <2>1, NewReaderFacts
  <2>3. step[c] = r
    BY <1>6
  <2> HIDE DEF r
  <2>4. Coupled(r, req[c])
    BY <1>2, <2>1, <2>2 DEF Coupled, OnTheWay
  <2>5. Stored(r, table[r.kind])
    BY <2>2 DEF Stored
  <2> QED
    BY <2>2, <2>3, <2>4, <2>5
<1>8. step \in [Clients -> StepRecords]
  <2>1. step = [c \in Clients |-> step[c]]
    BY <1>6
  <2> QED
    BY <1>7, <2>1
<1>9. table \in [Kinds -> SUBSET Hours]
  BY DEF Init, WeatherInit
<1> QED
  BY <1>4, <1>5, <1>7, <1>8, <1>9 DEF StepInv, StepType

\* One connection, one holder of its mutex, and callers that use it as they may: what
\* the theorems below rest on (GetConnection, refreshOAuth2Token, the readers).
THEOREM ProxyUsed == Spec => [](ProxyInv /\ StepInv)
<1>1. ProxyInv /\ StepInv /\ [Next]_vars => (ProxyInv /\ StepInv)'
  BY Composed, ProxyInvStep
<1> QED
  BY <1>1, Initial, PTL DEF Spec

\* No goroutine replaces a token that has more than five minutes left, whoever else
\* found it missing or old at the same time: the second look of refreshOAuth2Token,
\* under the mutex.
THEOREM OneToken == Spec => []OneTokenPerLapse
<1>1. ProxyInv /\ StepInv /\ OneTokenPerLapse /\ [Next]_vars => OneTokenPerLapse'
  BY Composed, LapseStep
<1> QED
  BY <1>1, Initial, ProxyUsed, PTL DEF Spec

\* What a request carries was good for five minutes when the request looked at it, or
\* was asked for since: refreshOAuth2Token stores the token before its expiry, so the
\* looks of RoundTrip without the mutex do no harm, a torn string excepted.
THEOREM FreshTokens == Spec => []NoStaleToken
<1>1. ProxyInv /\ StepInv /\ NoStaleToken /\ [Next]_vars => NoStaleToken'
  BY Composed, StaleStep
<1> QED
  BY <1>1, Initial, ProxyUsed, PTL DEF Spec

\* A weather step that is COMPLETED has stored every hour it fetched last whose time
\* can be parsed, through interruptions, restarts and one retry of a chunk: the first
\* retry finds no state in the map of the StepExecution and fetches again.
THEOREM HoursKept == Spec => []HoursStored
<1>1. StepInv => HoursStored
  <2> SUFFICES ASSUME StepInv, NEW c \in Clients, At(c, "completed"), ~step[c].reopenFailed,
                      step[c].retries < 2
               PROVE  ToSet(step[c].fetched) \ Unparsable \subseteq table[step[c].kind]
    BY DEF HoursStored
  <2>1. \A i \in DOMAIN step[c].fetched : step[c].fetched[i] \in Unparsable \cup table[step[c].kind]
    BY ClientFacts DEF Stored, At
  <2> QED
    BY <2>1 DEF ToSet
<1> QED
  BY <1>1, ProxyUsed, PTL
==============================================================================
