---------------------------- MODULE MCConnections ----------------------------
EXTENDS Connections, TLC

\* A Redshift name that works, a dummy, a type without a provider, and a name
\* whose password cannot be resolved.
MCDbType == "pg" :> "redshift" @@ "none" :> "dummy" @@ "odd" :> "oracle"
            @@ "locked" :> "postgres"
MCPassword == "pg" :> "secret" @@ "none" :> "plain" @@ "odd" :> "plain"
              @@ "locked" :> "unresolvable"
=============================================================================
