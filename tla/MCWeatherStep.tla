--------------------------- MODULE MCWeatherStep ---------------------------
(***************************************************************************)
(* Two weather steps behind one web proxy name.                            *)
(***************************************************************************)
EXTENDS WeatherStep

Cfg(type) ==
  [type |-> type, api_endpoint |-> "url", private_key |-> "", rsa |-> TRUE, key |-> "",
   key_name |-> "", placement |-> "", tls_key |-> "", token_url |-> "url", client_id |-> "id",
   client_secret |-> "env", grant_type |-> "client_credentials"]

MCConfigs ==
  { Cfg("OAUTH2"), [Cfg("OAUTH2") EXCEPT !.client_secret = "empty"],
    [Cfg("OAUTH2") EXCEPT !.grant_type = "password"], [Cfg("OAUTH2") EXCEPT !.client_secret = "missing"],
    [Cfg("APIKEY") EXCEPT !.key = "file", !.placement = "header", !.key_name = "name"],
    [Cfg("APIKEY") EXCEPT !.key = "file", !.placement = "query"],
    [Cfg("APIKEY") EXCEPT !.key = "file", !.placement = "body"],
    [Cfg("HMAC") EXCEPT !.private_key = "text"],
    [Cfg("HMAC") EXCEPT !.private_key = "text", !.rsa = FALSE],
    [Cfg("NONE") EXCEPT !.api_endpoint = ""], [Cfg("NONE") EXCEPT !.api_endpoint = "invalid"],
    [Cfg("TLS") EXCEPT !.tls_key = "file"], Cfg("BASIC") }

Job(kind, ref) == [kind |-> kind, ref |-> ref]

MCJobs ==
  { [c \in Clients |-> IF c = a THEN Job("forecast", r) ELSE Job(k, r)] :
      a \in {CHOOSE x \in Clients : TRUE}, k \in {"history"}, r \in BOOLEAN }

MCWindows == { <<1>>, <<2, 3>> }
=============================================================================
