--------------------------- MODULE JobParameters ---------------------------
(***************************************************************************)
(* model.JobParameters (core/domain/model/models.go): how parameters are   *)
(* stored, compared, hashed, incremented, and read by expressions          *)
(* (core/support/incrementer, core/support/expression).                    *)
(* Parameters are a function from keys to values [type, n]; a text is the  *)
(* text of the number n.  Params is a map: NewJobParameters and Scan, the  *)
(* only code that makes JobParameters, never leave it nil.                 *)
(***************************************************************************)
EXTENDS Integers, FiniteSetsExt

CONSTANTS Exact  \* 2^53: the integers between it and its negative are float64 values

Million == 1000000
ASSUME ExactAssumption == Exact \in Nat /\ Million <= Exact

IntValue(n)   == [type |-> "int", n |-> n]
FloatValue(n) == [type |-> "float64", n |-> n]
TextValue(n)  == [type |-> "string", n |-> n]
Scalars == [type : {"int", "float64", "string"}, n : Int]

ParametersOK(p) == \A k \in DOMAIN p : p[k] \in Scalars

\* The multiple of s that is nearest to n; of two, the one float64 takes.
RoundTo(n, s) ==
  LET m == (n + s \div 2) \div s
  IN  IF s > 1 /\ (n + s \div 2) % s = 0 /\ m % 2 = 1 THEN (m - 1) * s ELSE m * s

\* The distance of the float64 values at n, an int of 64 bits.
Spacing(n) ==
  Max({s \in {1, 2, 4, 8, 16, 32, 64, 128, 256, 512, 1024} :
         s = 1 \/ n > (s \div 2) * Exact \/ -n > (s \div 2) * Exact})

\* The float64 nearest to n.
Exacts == (-Exact)..Exact
Float64(n) == IF n \in Exacts THEN n ELSE RoundTo(n, Spacing(n))

\* The digits of a float64: the shortest that are read as the same float64, and zeros.
Shortest(n) ==
  IF n \in Exacts THEN n
  ELSE RoundTo(n, Max({t \in {1, 10, 100, 1000} : t = 1 \/ Float64(RoundTo(n, t)) = n}))

\* json.Marshal writes a number without a point or an exponent, whatever its type.
Marshal(x) ==
  [json |-> IF x.type = "string" THEN "text" ELSE "number",
   n    |-> IF x.type = "float64" THEN Shortest(x.n) ELSE x.n]

\* json.Unmarshal, if numbers were read for whatever looks like one.
MutUnmarshal(j) == FloatValue(Float64(j.n))

\* json.Unmarshal makes every number a float64.
Unmarshal(j) == IF j.json = "text" THEN TextValue(j.n) ELSE FloatValue(Float64(j.n))

Value(p) == [k \in DOMAIN p |-> Marshal(p[k])]
Scan(j)  == [k \in DOMAIN j |-> Unmarshal(j[k])]

\* Hash is the hexadecimal form of the JSON text itself.
Hash(p) == Value(p)

\* fmt.Sprintf("%v"): a float64 of seven digits or more is printed with an exponent.
Digits6(n) == -Million < n /\ n < Million
Sprint(x) == [exponent |-> x.type = "float64" /\ ~Digits6(x.n), n |-> x.n]

\* Equal, on the types instead of the texts.
MutEqual(p, q) == p = q

\* Equal: the printed maps are the same.
Equal(p, q) ==
  /\ DOMAIN p = DOMAIN q
  /\ \A k \in DOMAIN p : Sprint(p[k]) = Sprint(q[k])

\* Contains: numbers are compared as float64, everything else with its type.
ToFloat64(x) == IF x.type = "int" THEN FloatValue(Float64(x.n)) ELSE x
ContainsParameters(p, q) == \A k \in DOMAIN q : k \in DOMAIN p /\ ToFloat64(p[k]) = ToFloat64(q[k])

\* The typed reads, of parameters and of contexts: what has another type is not found.
NotFound == [found |-> FALSE]
GetString(p, key) ==
  IF key \in DOMAIN p /\ p[key].type = "string" THEN [found |-> TRUE, text |-> p[key].n] ELSE NotFound
GetInt(p, key) ==
  IF key \in DOMAIN p /\ p[key].type \in {"int", "float64"}
    THEN [found |-> TRUE, int |-> p[key].n] ELSE NotFound

Put(p, key, x) == [k \in DOMAIN p \cup {key} |-> IF k = key THEN x ELSE p[k]]

\* RunIDIncrementer.GetNext
RunID(p) ==
  Put(p, "run.id", IF "run.id" \in DOMAIN p /\ p["run.id"].type # "string"
                     THEN IntValue(p["run.id"].n + 1) ELSE IntValue(1))

\* TimestampIncrementer.GetNext
Timestamp(p, now) == Put(p, "timestamp", TextValue(now))

\* DefaultExpressionResolver.Resolve of #{jobParameters['key']}, with
\* resolveJobParameters; a key that is not there leaves the expression.
Resolve(key, p) ==
  IF key \in DOMAIN p THEN [text |-> Sprint(p[key])] ELSE [expression |-> key]
=============================================================================
